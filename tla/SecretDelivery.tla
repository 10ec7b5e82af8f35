--------------------------- MODULE SecretDelivery ---------------------------
(***************************************************************************)
(* What the swarm may rely on while its secrets are rotated.  The swarm    *)
(* holds secrets, each one an immutable version of a name; a slot of a     *)
(* service refers to one of them.  Versions are published, slots move one  *)
(* at a time to the newest version, and a version goes away only when no   *)
(* slot refers to it, never to come back.                                  *)
(*                                                                         *)
(* Nothing is said of the plugin's processes, calls, failures or restarts: *)
(* SecretsDriver implements this.                                          *)
(***************************************************************************)
EXTENDS Integers

CONSTANTS
    Names,       \* what services ask for
    Services,
    Sources,     \* where values come from: the paths of the provider
    Versions,    \* the versions a source goes through
    MaxSecrets,  \* bound: the IDs ever handed out
    Absent       \* "nothing here"

Ids == 1 .. MaxSecrets

\* A secret of a name is backed by the driver (source = Absent), or holds the
\* value that its source had in version ver.
Held == [name : Names, source : Sources \cup {Absent}, ver : Versions \cup {0}]

VARIABLES
    held,    \* held[i]: the version with ID i, or Absent
    issued,  \* the number of IDs handed out
    slot     \* slot[s][n]: the ID that service s refers to for n, or Absent

vars == <<held, issued, slot>>

Init == /\ held = [i \in Ids |-> Absent]
        /\ issued = 0
        /\ slot = [s \in Services |-> [n \in Names |-> Absent]]

Backed(n)  == {i \in Ids : held[i] # Absent /\ held[i].name = n /\ held[i].source = Absent}
Rotated(n) == {i \in Ids : held[i] # Absent /\ held[i].name = n /\ held[i].source # Absent}
Used(i)    == \E s \in Services, n \in Names : slot[s][n] = i

\* A new version under an ID that nothing ever had.
Hold(v) == /\ issued < MaxSecrets
           /\ issued' = issued + 1
           /\ held' = [held EXCEPT ![issued + 1] = v]

\* A rotated version is at least as new as those of its source that are held.
Publish(n) ==
    \E p \in Sources, v \in Versions :
        /\ \A j \in Rotated(n) : held[j].source = p => held[j].ver <= v
        /\ Hold([name |-> n, source |-> p, ver |-> v])
        /\ UNCHANGED slot

\* Operators point a slot at the secret of its own name.
Deploy(s, n) ==
    \E i \in Ids :
        /\ \/ i \in Backed(n) /\ UNCHANGED <<held, issued>>
           \/ /\ Backed(n) = {}
              /\ i = issued + 1
              /\ Hold([name |-> n, source |-> Absent, ver |-> 0])
        /\ slot' = [slot EXCEPT ![s][n] = i]

\* A slot moves to the newest of the rotated versions, no other slot with it.
Move(s, n) ==
    \E i \in Rotated(n) :
        /\ \A j \in Rotated(n) : j <= i
        /\ slot[s][n] # Absent
        /\ slot' = [slot EXCEPT ![s][n] = i]
        /\ UNCHANGED <<held, issued>>

Retire(i) == /\ held[i] # Absent
             /\ ~Used(i)
             /\ held' = [held EXCEPT ![i] = Absent]
             /\ UNCHANGED <<issued, slot>>

Next == \/ \E n \in Names : Publish(n)
        \/ \E s \in Services, n \in Names : Deploy(s, n) \/ Move(s, n)
        \/ \E i \in Ids : Retire(i)

Spec == Init /\ [][Next]_vars
=============================================================================
