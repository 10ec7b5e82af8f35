----------------------------- MODULE VaultLogin -----------------------------
(***************************************************************************)
(* From the settings of the Vault and OpenBao provider to its logins:      *)
(* config.go, login/login.go and jwtsource/ under internal/vaultcompat.    *)
(* The method is looked at in three places, each with a switch of its own, *)
(* and the JWT file, which an agent rewrites, is read anew each time.      *)
(***************************************************************************)
EXTENDS Integers

CONSTANTS Tokens,   \* JWTs
          Blank,    \* white space only
          NoJWT

ASSUME TokenAssumption == {Blank, NoJWT} \cap Tokens = {}

VARIABLES
    config,     \* the settings; GetConfigOrDefault takes "" for unset (NoJWT)
    file,       \* what is in the JWT file: NoJWT if it cannot be read
    at,         \* New: "validate", "build", "login"; then "up" or "failed"
    sent,       \* what the last login sent that sent anything
    last        \* the last login, while the file is what it was: "sent" that, or
                \* "failed" before; or "none"

loginVars == <<config, file, at, sent, last>>

Contents == Tokens \cup {Blank, NoJWT}

Config == [AuthMethod : {"token", "approle", "jwt", "JWT", " token", "ldap"},
           Token      : BOOLEAN,             \* set or not
           RoleID     : BOOLEAN,             \* with SecretID; JWTRole
           JWT        : Contents,
           JWTFile    : BOOLEAN]

\* strings.ToLower(strings.TrimSpace(method))
Lowered(method) == CASE method = "JWT" -> "jwt"
                     [] method = " token" -> "token"
                     [] OTHER -> method

FileUsable   == file \in Tokens
HasJWTSource == IF config.JWTFile THEN FileUsable ELSE config.JWT # NoJWT

\* validateAuth; the source is built to see whether it can be.
Accepts(method) == \/ method = "token" /\ config.Token
                   \/ method = "approle" /\ config.RoleID
                   \/ method = "jwt" /\ config.RoleID /\ HasJWTSource
ValidateAnyCase == Accepts(Lowered(config.AuthMethod))
ValidateAuth    == Accepts(config.AuthMethod)

\* Source.Token: the file, when there is one, before the static value.
SourceUnchecked == IF config.JWTFile THEN file ELSE config.JWT
SourceCached == IF sent # NoJWT THEN sent ELSE SourceUnchecked
Source == LET t == IF config.JWTFile THEN file ELSE config.JWT
          IN  IF t = Blank THEN NoJWT ELSE t

\* login.New and Login: what is sent, NoJWT when nothing can be.
LoginMethod == Lowered(config.AuthMethod)
ToSend == CASE LoginMethod = "token" /\ config.Token -> "token"
            [] LoginMethod = "approle" -> "secret-id"
            [] LoginMethod = "jwt" /\ config.RoleID -> Source
            [] OTHER -> NoJWT

CanReauthenticate == config.AuthMethod \in {"approle", "jwt"}

LoginInit == /\ config \in Config
             /\ file \in Contents
             /\ at = "validate"
             /\ sent = NoJWT
             /\ last = "none"

\* An agent rewrites the file: empty for a while, then with another JWT.
RewriteFile == /\ config.JWTFile
               /\ file' \in Contents \ {file}
               /\ last' = "none"
               /\ UNCHANGED <<config, at, sent>>

Check(step, ok, next) == /\ at = step
                         /\ at' = IF ok THEN next ELSE "failed"
                         /\ UNCHANGED <<config, file, sent, last>>

Validate == Check("validate", ValidateAuth, "build")
Build    == Check("build", config.AuthMethod = "jwt" => HasJWTSource, "login")

Login == /\ sent' = IF ToSend = NoJWT THEN sent ELSE ToSend
         /\ last' = IF ToSend = NoJWT THEN "failed" ELSE "sent"
         /\ UNCHANGED <<config, file>>

\* authenticate, in New; the server may refuse.
FirstLogin == /\ at = "login"
              /\ Login
              /\ at' \in IF ToSend = NoJWT THEN {"failed"} ELSE {"up", "failed"}

\* reauthenticate: a login that fails leaves the provider as it was.
Relogin == /\ at = "up"
           /\ CanReauthenticate
           /\ Login
           /\ UNCHANGED at

LoginNext == RewriteFile \/ Validate \/ Build \/ FirstLogin \/ Relogin
LoginSpec == LoginInit /\ [][LoginNext]_loginVars

\* With a JWT file every login, the repeated ones too, sends what is in the file
\* when it reads it, also when a static JWT is set: rotating the file needs no
\* restart.  Only a file without a JWT, caught while it is being rewritten though
\* validateAuth saw it whole, makes a login fail with nothing sent.
SendsCurrent == config.JWTFile /\ LoginMethod = "jwt" =>
    /\ last = "sent" => sent = file /\ file \in Tokens
    /\ last = "failed" => file \notin Tokens

\* What the settings were let through with, and the logins there have been.
LoginInv == /\ file \in Contents
            /\ at \in {"build", "login", "up"} => config.AuthMethod \in {"token", "approle", "jwt"}
            /\ at \in {"build", "login", "up"} /\ LoginMethod = "jwt" => config.RoleID
            /\ at \in {"validate", "build", "login"} => last = "none"
            /\ SendsCurrent

\* The three switches agree: a provider that came up with a method that can log
\* in again does so when its token is refused.
MethodsAgree == at = "up" => (CanReauthenticate <=> LoginMethod # "token")
=============================================================================
