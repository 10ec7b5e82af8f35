---------------------------- MODULE MCProviders ----------------------------
(***************************************************************************)
(* SecretValues and VaultLogin for TLC: a provider of Vault or OpenBao     *)
(* reads nothing before its first login.  Secrets are read with one set of *)
(* the login's settings, and all settings are tried with one secret.       *)
(***************************************************************************)
EXTENDS SecretValues, VaultLogin

MCWords == {"a", "b", "c", "x", "y", "secret", "data", "p", "dev", "A", "B", "C"}
MCServiceNames == { <<"a">>, <<"a", "b">> }
MCSecretNames  == { <<"b", "c">>, <<"c">> }
MCPathLabels   == { <<>>, Root, << <<"x">>, <<"y">> >>,
                    << <<"secret">>, <<"data">>, <<"x">>, <<"y">> >> }
MCNameLabels   == { <<"x">> }
MCUpper == [w \in MCWords |-> CASE w = "a" -> "A" [] w = "b" -> "B" [] w = "c" -> "C" [] OTHER -> w]

OneConfig == [AuthMethod |-> "approle", Token |-> FALSE, RoleID |-> TRUE,
              JWT |-> NoJWT, JWTFile |-> FALSE]
OneSecret == /\ kind = "kv2" /\ shape = "usual" /\ name = <<"c">>
             /\ labels.path = None /\ labels.field = ""

\* Bounds: Infisical's three names are given together or not at all, and values
\* are written where they are read.
Tried(l) == (l.project = None <=> l.environment = None) /\ (l.name = None <=> l.project = None)
Read == {Place(kind, name, BuildSecretInfo(s)) : s \in ServiceNames}
            \cup IF tracker = None THEN {} ELSE {Place(kind, name, tracker.info)}

MCInit == /\ Init /\ LoginInit /\ Tried(labels)
          /\ \/ OneSecret
             \/ config = OneConfig /\ file = NoJWT

IsVault == kind \in {"kv1", "kv2"}

Values  == /\ config = OneConfig /\ (IsVault => at = "up")
           /\ Next
           /\ Tried(labels')
           /\ \A p \in DOMAIN store \ Read : store'[p] = store[p]
           /\ UNCHANGED loginVars
Logins  == IsVault /\ LoginNext /\ UNCHANGED vars

MCSpec == MCInit /\ [][Values \/ Logins]_<<vars, loginVars>>
=============================================================================
