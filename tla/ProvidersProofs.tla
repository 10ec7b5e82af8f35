-------------------------- MODULE ProvidersProofs --------------------------
(***************************************************************************)
(* Proofs about SecretValues and VaultLogin: the paths of every label and  *)
(* name, the reads of the rotation, and the logins of every setting.       *)
(***************************************************************************)
EXTENDS SecretValues, VaultLogin, SequenceTheorems, TLAPS

(***************************************************************************)
(* VaultLogin.                                                             *)
(***************************************************************************)
LEMMA LoginInitInv == LoginInit => LoginInv
BY DEF LoginInit, LoginInv, SendsCurrent

\* What a login does to a provider whose settings were let through.
LEMMA LoginCurrent ==
    ASSUME LoginInv, at \in {"login", "up"}, Login
    PROVE  SendsCurrent'
<1> SUFFICES ASSUME config.JWTFile, LoginMethod = "jwt"
             PROVE  /\ last' = "sent" => sent' = file /\ file \in Tokens
                    /\ last' = "failed" => file \notin Tokens
  BY DEF Login, SendsCurrent, LoginMethod
<1>1. config.RoleID /\ file \in Contents
  BY DEF LoginInv
<1>2. ToSend = IF file = Blank THEN NoJWT ELSE file
  BY <1>1 DEF ToSend, Source
<1>3. Blank \notin Tokens /\ NoJWT \notin Tokens
  BY TokenAssumption
<1>4. CASE ToSend = NoJWT
  BY <1>1, <1>2, <1>3, <1>4 DEF Login, Contents
<1>5. CASE ToSend # NoJWT
  BY <1>1, <1>2, <1>3, <1>5 DEF Login, Contents
<1> QED
  BY <1>4, <1>5

LEMMA LoginStepInv == LoginInv /\ [LoginNext]_loginVars => LoginInv'
<1> SUFFICES ASSUME LoginInv, [LoginNext]_loginVars PROVE LoginInv'
  OBVIOUS
<1>1. CASE RewriteFile
  BY <1>1 DEF RewriteFile, LoginInv, SendsCurrent, LoginMethod
<1>2. CASE Validate
  BY <1>2 DEF Validate, Check, ValidateAuth, Accepts, LoginInv, SendsCurrent, LoginMethod, Lowered
<1>3. CASE Build
  BY <1>3 DEF Build, Check, LoginInv, SendsCurrent, LoginMethod
<1>4. CASE FirstLogin
  <2>1. SendsCurrent'
    BY <1>4, LoginCurrent DEF FirstLogin
  <2> QED
    BY <1>4, <2>1 DEF FirstLogin, Login, LoginInv, LoginMethod
<1>5. CASE Relogin
  <2>1. SendsCurrent'
    BY <1>5, LoginCurrent DEF Relogin
  <2> QED
    BY <1>5, <2>1 DEF Relogin, Login, LoginInv, LoginMethod
<1>6. CASE UNCHANGED loginVars
  BY <1>6 DEF loginVars, LoginInv, SendsCurrent, LoginMethod
<1> QED
  BY <1>1, <1>2, <1>3, <1>4, <1>5, <1>6 DEF LoginNext

LEMMA LoginInvariance == LoginSpec => []LoginInv
BY LoginInitInv, LoginStepInv, PTL DEF LoginSpec

\* The switches of validateAuth, of New and of reauthenticate agree for every
\* setting: a provider that is up logs in again unless it was given a token.
THEOREM SwitchesAgree == LoginSpec => []MethodsAgree
<1>1. LoginInv => MethodsAgree
  BY DEF LoginInv, MethodsAgree, CanReauthenticate, LoginMethod, Lowered
<1> QED
  BY <1>1, LoginInvariance, PTL

\* With a JWT file each login, the first and the repeated ones, sends the JWT that
\* is in the file when it reads it, and only a file without one makes it fail with
\* nothing sent (jwtsource.go, login.go).
THEOREM LoginsSendCurrent == LoginSpec => []SendsCurrent
<1>1. LoginInv => SendsCurrent
  BY DEF LoginInv
<1> QED
  BY <1>1, LoginInvariance, PTL

-----------------------------------------------------------------------------
(***************************************************************************)
(* The paths.                                                              *)
(***************************************************************************)
LEMMA Prefixed ==
    ASSUME NEW S, NEW h \in S, NEW rest \in Seq(S)
    PROVE  /\ <<h>> \in Seq(S) /\ <<h>> \o rest \in Seq(S)
           /\ Len(<<h>> \o rest) = 1 + Len(rest) /\ Len(rest) \in Nat
           /\ (<<h>> \o rest)[1] = h
           /\ \A i \in 1 .. Len(rest) : (<<h>> \o rest)[i + 1] = rest[i]
<1>1. <<h>> \in Seq(S) /\ Len(<<h>>) = 1 /\ <<h>>[1] = h
  OBVIOUS
<1>2. /\ <<h>> \o rest \in Seq(S) /\ Len(<<h>> \o rest) = 1 + Len(rest) /\ Len(rest) \in Nat
      /\ \A i \in 1 .. 1 + Len(rest) :
            (<<h>> \o rest)[i] = IF i <= 1 THEN <<h>>[i] ELSE rest[i - 1]
  BY <1>1, ConcatProperties, LenProperties
<1>3. (<<h>> \o rest)[1] = h
  BY <1>1, <1>2
<1>4. ASSUME NEW i \in 1 .. Len(rest) PROVE (<<h>> \o rest)[i + 1] = rest[i]
  <2>1. i + 1 \in 1 .. 1 + Len(rest) /\ ~(i + 1 <= 1) /\ (i + 1) - 1 = i
    BY <1>2
  <2> QED
    BY <1>2, <2>1
<1> QED
  BY <1>1, <1>2, <1>3, <1>4

\* TrimPrefix takes one word off a longer path that begins with it.
LEMMA TrimTakesOff ==
    ASSUME NEW S, NEW h \in S, NEW rest \in Seq(S), rest # <<>>
    PROVE  TrimPrefix(<<h>>, <<h>> \o rest) = rest
<1> DEFINE path == <<h>> \o rest
           tail == SubSeq(path, Len(<<h>>) + 1, Len(path))
<1>1. /\ path \in Seq(S) /\ Len(path) = 1 + Len(rest) /\ Len(rest) \in Nat /\ path[1] = h
      /\ \A i \in 1 .. Len(rest) : path[i + 1] = rest[i]
      /\ <<h>> \in Seq(S) /\ Len(<<h>>) = 1 /\ Len(rest) >= 1
  BY Prefixed, EmptySeq
<1> HIDE DEF path
<1>2. tail = rest
  <2>1. \A i \in 2 .. Len(path) : path[i] \in S
    BY <1>1, ElementOfSeq
  <2>2. /\ tail \in Seq(S) /\ Len(tail) = Len(rest)
        /\ \A i \in 1 .. Len(rest) : tail[i] = path[i + 1]
    <3>1. /\ tail \in Seq(S)
          /\ Len(tail) = IF 2 <= Len(path) THEN Len(path) - 2 + 1 ELSE 0
          /\ \A i \in 1 .. Len(path) - 2 + 1 : tail[i] = path[2 + i - 1]
      BY <1>1, <2>1, SubSeqProperties
    <3> QED
      BY <1>1, <3>1
  <2> HIDE DEF tail
  <2> QED
    BY <1>1, <2>2, SeqEqual
<1>3. IsStrictPrefix(<<h>>, path)
  <2>1. SubSeq(<<h>>, 1, 1) = <<h>>
    BY <1>1, SubSeqFull
  <2>2. SubSeq(path, 1, 1) = <<h>>
    <3> DEFINE one == SubSeq(path, 1, 1)
    <3>1. \A i \in 1 .. 1 : path[i] \in S
      BY <1>1
    <3>2. one \in Seq(S) /\ Len(one) = 1 /\ one[1] = h
      <4>1. /\ one \in Seq(S) /\ Len(one) = IF 1 <= 1 THEN 1 - 1 + 1 ELSE 0
            /\ \A i \in 1 .. 1 - 1 + 1 : one[i] = path[1 + i - 1]
        BY <3>1, SubSeqProperties
      <4> QED
        BY <1>1, <4>1
    <3> HIDE DEF one
    <3>3. one = <<h>>
      BY <1>1, <3>2, SeqEqual
    <3> QED
      BY <3>3 DEF one
  <2>3. path # <<h>>
    BY <1>1
  <2> QED
    BY <1>1, <2>1, <2>2, <2>3 DEF IsStrictPrefix, IsPrefix
<1>4. TrimPrefix(<<h>>, path) = tail
  BY <1>3 DEF TrimPrefix
<1> QED
  BY <1>2, <1>4 DEF path

\* It leaves alone a path that begins with another word.
LEMMA TrimLeavesAlone ==
    ASSUME NEW S, NEW h \in S, NEW path \in Seq(S), path # <<>>, Head(path) # h
    PROVE  TrimPrefix(<<h>>, path) = path
<1> SUFFICES ASSUME IsStrictPrefix(<<h>>, path) PROVE FALSE
  BY DEF TrimPrefix
<1>1. /\ <<h>> \in Seq(S) /\ Len(<<h>>) = 1 /\ <<h>>[1] = h
      /\ Len(path) \in Nat /\ Len(path) >= 1 /\ Head(path) = path[1]
  BY EmptySeq, LenProperties
<1>2. SubSeq(<<h>>, 1, 1) = SubSeq(path, 1, 1)
  BY <1>1 DEF IsStrictPrefix, IsPrefix
<1>3. SubSeq(<<h>>, 1, 1)[1] = h /\ SubSeq(path, 1, 1)[1] = path[1]
  <2>1. (\A i \in 1 .. 1 : <<h>>[i] \in S) /\ (\A i \in 1 .. 1 : path[i] \in S)
    BY <1>1, ElementOfSeq
  <2>2. \A i \in 1 .. 1 - 1 + 1 : SubSeq(<<h>>, 1, 1)[i] = <<h>>[1 + i - 1]
    BY <2>1, SubSeqProperties
  <2>3. \A i \in 1 .. 1 - 1 + 1 : SubSeq(path, 1, 1)[i] = path[1 + i - 1]
    BY <2>1, SubSeqProperties
  <2> QED
    BY <1>1, <2>2, <2>3
<1> QED
  BY <1>1, <1>2, <1>3

LEMMA OneElement ==
    ASSUME NEW S, NEW e \in S
    PROVE  <<e>> \in Seq(S)
OBVIOUS

Secret == <<"secret">>

LEMMA OwnWords ==
    /\ Secret \in Names /\ Data \in Names /\ Secret # Data
    /\ Mount = <<Secret>> /\ Head(Mount) = Secret /\ <<Data>> \in Paths /\ Mount \in Paths
    /\ Workspace[1] \in Names /\ Workspace[2] \in Names /\ Folder \in Seq(Names)
<1>0. "secret" \in Words /\ "data" \in Words /\ "p" \in Words /\ "dev" \in Words
  BY WordAssumption
<1>1. Secret \in Names /\ Data \in Names
  BY <1>0, OneElement DEF Secret, Data, Names
<1>2. Secret # Data
  <2>1. Secret[1] = "secret" /\ Data[1] = "data"
    BY DEF Secret, Data
  <2> QED
    BY <2>1
<1>3. Mount = <<Secret>> /\ Head(Mount) = Secret
  BY DEF Mount, Secret
<1>4. <<Data>> \in Paths /\ <<Secret>> \in Paths
  BY <1>1 DEF Paths
<1>5. <<"p">> \in Names /\ <<"dev">> \in Names
  BY <1>0, OneElement DEF Names
<1>6. Workspace[1] \in Names /\ Workspace[2] \in Names
  BY <1>5 DEF Workspace
<1>7. Folder \in Seq(Names)
  BY <1>4 DEF Folder, Paths
<1> QED
  BY <1>1, <1>2, <1>3, <1>4, <1>6, <1>7

LEMMA LabelsArePaths ==
    ASSUME NEW l \in PathLabels \cup {None}, Given(l)
    PROVE  l \in Paths /\ l # <<>> /\ Len(l) \in Nat /\ Len(l) >= 1
<1>1. l \in Paths /\ l # <<>>
  BY PathAssumption DEF Given
<1> QED
  BY <1>1, EmptySeq, LenProperties DEF Paths

\* With "data" or without it, with the mount or without it.
LEMMA Spelling ==
    ASSUME NEW l \in Paths, l # <<>>, Head(l) \notin {Data, Secret},
           NEW spelt \in {l, Mount \o l, <<Data>> \o l, Mount \o <<Data>> \o l}
    PROVE  Given(spelt) /\ NormalizeRelativePath(spelt) = l
<1>1. l \in Seq(Names) /\ Len(l) \in Nat /\ Len(l) >= 1
  BY EmptySeq, LenProperties DEF Paths
<1> DEFINE data == <<Data>> \o l
           mount == <<Secret>> \o l
           both == <<Secret>> \o data
<1>2. /\ data \in Seq(Names) /\ data[1] = Data /\ Len(data) = 1 + Len(l)
      /\ mount \in Seq(Names) /\ Len(mount) = 1 + Len(l)
  BY <1>1, OwnWords, Prefixed
<1>3. data # <<>> /\ Head(data) = Data /\ mount # <<>>
  BY <1>1, <1>2, EmptySeq
<1>4. both \in Seq(Names) /\ Len(both) = 1 + Len(data) /\ both # <<>>
  <2> HIDE DEF data
  <2>1. both \in Seq(Names) /\ Len(both) = 1 + Len(data) /\ Len(data) \in Nat
    BY <1>2, OwnWords, Prefixed
  <2> QED
    BY <2>1, EmptySeq
<1>5. Mount \o <<Data>> \o l = both
  BY <1>1, OwnWords, ConcatAssociative DEF Paths
<1>6. spelt \in {l, mount, data, both}
  BY <1>5, OwnWords
<1>7. Given(spelt)
  <2>1. spelt \in Paths /\ spelt # <<>>
    BY <1>1, <1>2, <1>3, <1>4, <1>6 DEF Paths
  <2> QED
    BY <2>1, NoneAssumption DEF Given
<1>8. TrimPrefix(<<Secret>>, l) = l /\ TrimPrefix(<<Data>>, l) = l
  BY <1>1, OwnWords, TrimLeavesAlone
<1>9. TrimPrefix(<<Secret>>, mount) = l /\ TrimPrefix(<<Data>>, data) = l
  BY <1>1, OwnWords, TrimTakesOff
<1>10. TrimPrefix(<<Secret>>, data) = data /\ TrimPrefix(<<Secret>>, both) = data
  <2> HIDE DEF data
  <2> QED
    BY <1>2, <1>3, OwnWords, TrimLeavesAlone, TrimTakesOff
<1> HIDE DEF data, mount, both
<1>11. NormalizeRelativePath(spelt) = l
  BY <1>6, <1>8, <1>9, <1>10, OwnWords DEF NormalizeRelativePath
<1> QED
  BY <1>7, <1>11

LEMMA SpellingsAlwaysAgree == SpellingsAgree
<1> SUFFICES ASSUME NEW s \in ServiceNames, NEW l \in PathLabels,
                    Given(l), Head(l) \notin {Data, Head(Mount)},
                    NEW spelt \in {Mount \o l, <<Data>> \o l, Mount \o <<Data>> \o l}
             PROVE  KVv2Path(s, name, spelt) = KVv2Path(s, name, l)
  BY DEF SpellingsAgree
<1>1. l \in Paths /\ l # <<>> /\ Head(l) \notin {Data, Secret}
  BY LabelsArePaths, OwnWords
<1>2. Given(spelt) /\ NormalizeRelativePath(spelt) = l /\ NormalizeRelativePath(l) = l
  BY <1>1, Spelling
<1> QED
  BY <1>2 DEF KVv2Path

-----------------------------------------------------------------------------
\* The last name of a path and those before it.
LEMMA FrontAndLast ==
    ASSUME NEW S, NEW s \in Seq(S), s # <<>>
    PROVE  /\ Front(s) \in Seq(S) /\ Last(s) \in S
           /\ Len(Front(s)) = Len(s) - 1
           /\ Append(Front(s), Last(s)) = s
           /\ Front(s) \o <<Last(s)>> = s
<1>1. Len(s) \in Nat /\ Len(s) >= 1 /\ \A i \in 1 .. Len(s) : s[i] \in S
  BY EmptySeq, LenProperties, ElementOfSeq
<1>2. /\ Front(s) \in Seq(S) /\ Len(Front(s)) = Len(s) - 1
      /\ \A i \in 1 .. Len(s) - 1 : Front(s)[i] = s[i]
  <2> DEFINE m == Len(s) - 1
             f == SubSeq(s, 1, m)
  <2>1. m \in Nat /\ \A i \in 1 .. m : s[i] \in S
    BY <1>1
  <2> HIDE DEF m
  <2>2. /\ f \in Seq(S)
        /\ Len(f) = IF 1 <= m THEN m - 1 + 1 ELSE 0
        /\ \A i \in 1 .. m - 1 + 1 : f[i] = s[1 + i - 1]
    BY <2>1, SubSeqProperties
  <2> HIDE DEF f
  <2>3. Len(f) = m /\ \A i \in 1 .. m : f[i] = s[i]
    BY <2>1, <2>2
  <2>4. Front(s) = f
    BY DEF Front, f, m
  <2> QED
    BY <2>2, <2>3, <2>4 DEF m
<1>3. Last(s) \in S /\ Last(s) = s[Len(s)]
  BY <1>1 DEF Last
<1>4. Append(Front(s), Last(s)) = s
  <2> DEFINE t == Append(Front(s), Last(s))
  <2>1. /\ t \in Seq(S) /\ Len(t) = Len(Front(s)) + 1
        /\ \A i \in 1 .. Len(Front(s)) : t[i] = Front(s)[i]
        /\ t[Len(Front(s)) + 1] = Last(s)
    BY <1>2, <1>3, AppendProperties
  <2> HIDE DEF t
  <2>2. Len(t) = Len(s) /\ \A i \in 1 .. Len(t) : t[i] = s[i]
    BY <1>1, <1>2, <1>3, <2>1
  <2>3. t = s
    BY <2>1, <2>2, SeqEqual
  <2> QED
    BY <2>3 DEF t
<1>5. Append(Front(s), Last(s)) = Front(s) \o <<Last(s)>>
  BY <1>2, <1>3, AppendIsConcat
<1> QED
  BY <1>2, <1>3, <1>4, <1>5

\* Front and Last undo an Append.
LEMMA FrontOfAppend ==
    ASSUME NEW S, NEW s \in Seq(S), NEW e \in S
    PROVE  Front(Append(s, e)) = s
<1>1. Append(s, e) \in Seq(S) /\ Append(s, e) # <<>>
  BY AppendProperties
<1>2. /\ Front(Append(s, e)) \in Seq(S) /\ Last(Append(s, e)) \in S
      /\ Append(Front(Append(s, e)), Last(Append(s, e))) = Append(s, e)
  BY <1>1, FrontAndLast
<1> QED
  BY <1>2, AppendInjective

LEMMA Capitals ==
    ASSUME NEW n \in Names
    PROVE  ToUpper(n) \in Names
<1>1. Len(n) \in Nat /\ DOMAIN n = 1 .. Len(n) /\ \A i \in 1 .. Len(n) : n[i] \in Words
  BY LenProperties, ElementOfSeq DEF Names
<1>2. ToUpper(n) \in [1 .. Len(n) -> Words]
  BY <1>1, LabelAssumption DEF ToUpper
<1> QED
  BY <1>1, <1>2, SeqDef DEF Names

LEMMA Pairs ==
    ASSUME NEW S, NEW e \in S, NEW f \in S
    PROVE  <<e, f>> \in Seq(S) /\ Len(<<e, f>>) = 2
OBVIOUS

\* Where the labels lead is made of names.
LEMMA Context ==
    ASSUME name \in SecretNames, NEW l \in Labels
    PROVE  /\ ResolveSecretName(name, l) \in Names
           /\ ResolveContext(l) \in Seq(Names)
           /\ Len(ResolveContext(l)) \in Nat /\ Len(ResolveContext(l)) >= 2
<1>1. /\ l.path \in PathLabels \cup {None} /\ l.name \in NameLabels \cup {None}
      /\ l.project \in NameLabels \cup {None} /\ l.environment \in NameLabels \cup {None}
  BY DEF Labels
<1>2. \A n \in NameLabels \cup {None} : Given(n) => n \in Names
  BY LabelAssumption DEF Given
<1>3. ResolveSecretName(name, l) \in Names
  BY <1>1, <1>2, Capitals, NameAssumption DEF ResolveSecretName
<1> DEFINE project == IF Given(l.project) THEN l.project ELSE Workspace[1]
           environment_ == IF Given(l.environment) THEN l.environment ELSE Workspace[2]
           folder == IF Given(l.path) THEN NormalizeInfisicalSecretPath(l.path) ELSE Folder
<1>4. project \in Names /\ environment_ \in Names
  BY <1>1, <1>2, OwnWords
<1>5. folder \in Seq(Names)
  BY <1>1, OwnWords, LabelsArePaths, EmptySeq DEF NormalizeInfisicalSecretPath, Paths
<1>6. ResolveContext(l) = <<project, environment_>> \o folder
  BY DEF ResolveContext
<1> HIDE DEF project, environment_, folder
<1>7. <<project, environment_>> \in Seq(Names) /\ Len(<<project, environment_>>) = 2
  BY <1>4, Pairs
<1>8. /\ ResolveContext(l) \in Seq(Names) /\ Len(folder) \in Nat
      /\ Len(ResolveContext(l)) = 2 + Len(folder)
  BY <1>5, <1>6, <1>7, ConcatProperties, LenProperties
<1> QED
  BY <1>3, <1>8

LEMMA InfisicalPathsReadBack ==
    ASSUME name \in SecretNames, labels \in Labels
    PROVE  InfisicalRoundTrip
<1> SUFFICES ASSUME NEW s \in ServiceNames, kind = "infisical"
             PROVE  Place(kind, name, BuildSecretInfo(s)) =
                        Append(ResolveContext(labels), ResolveSecretName(name, labels))
  BY DEF InfisicalRoundTrip
<1> DEFINE context == ResolveContext(labels)
           secret == ResolveSecretName(name, labels)
           path == InfisicalPath(name, labels)
<1>1. /\ context \in Seq(Names) /\ secret \in Names
      /\ Len(context) \in Nat /\ Len(context) >= 2
  BY Context
<1>2. path = context \o <<secret>>
  BY DEF InfisicalPath
<1>3. /\ BuildSecretInfo(s).path = path /\ BuildSecretInfo(s).labels = labels
      /\ Place(kind, name, BuildSecretInfo(s)) = Append(ParseSecretPath(path), secret)
  BY DEF BuildSecretInfo, BuildSecretPath, Place, InfisicalPlace
<1> HIDE DEF context, secret, path
<1>4. path = Append(context, secret)
  BY <1>1, <1>2, AppendIsConcat
<1>5. Front(path) = context /\ Len(path) = Len(context) + 1
  BY <1>1, <1>4, FrontOfAppend, AppendProperties
<1>6. ParseSecretPath(path) = context
  BY <1>1, <1>5 DEF ParseSecretPath
<1> QED
  BY <1>3, <1>6 DEF context, secret

\* A service's name and a secret's, with "/" between them, are told apart.
LEMMA SlashedInjective ==
    ASSUME NEW s \in Names, NEW t \in Names, NEW m \in Names, NEW n \in Names,
           Slashed(s, m) = Slashed(t, n)
    PROVE  s = t /\ m = n
<1>1. /\ Len(<<m>>) = 1 /\ Len(<<n>>) = 1 /\ Len(<<s, m>>) = 2 /\ Len(<<t, n>>) = 2
      /\ <<m>>[1] = m /\ <<n>>[1] = n
      /\ <<s, m>>[1] = s /\ <<s, m>>[2] = m /\ <<t, n>>[1] = t /\ <<t, n>>[2] = n
  OBVIOUS
<1>2. CASE s = <<>> /\ t = <<>>
  BY <1>1, <1>2 DEF Slashed
<1>3. CASE s # <<>> /\ t # <<>>
  BY <1>1, <1>3 DEF Slashed
<1>4. ~(s = <<>> /\ t # <<>>) /\ ~(s # <<>> /\ t = <<>>)
  BY <1>1 DEF Slashed
<1> QED
  BY <1>2, <1>3, <1>4

LEMMA SlashedIsPath ==
    ASSUME NEW s \in Names, NEW n \in Names
    PROVE  Slashed(s, n) \in Paths
<1>1. <<n>> \in Seq(Names) /\ <<s, n>> \in Seq(Names)
  OBVIOUS
<1> QED
  BY <1>1 DEF Slashed, Paths

LEMMA PlacesAreOwn ==
    ASSUME name \in SecretNames
    PROVE  OwnPlace
<1> SUFFICES ASSUME NEW s \in ServiceNames, NEW t \in ServiceNames, NEW n \in SecretNames,
                    <<s, name>> # <<t, n>>
             PROVE  /\ KVv1Path(s, name, None) # KVv1Path(t, n, None)
                    /\ KVv2Path(s, name, None) # KVv2Path(t, n, None)
                    /\ AWSPath(s, name, None) # AWSPath(t, n, None)
  BY DEF OwnPlace
<1> DEFINE one == Slashed(s, name)
           other == Slashed(t, n)
<1>1. s \in Names /\ t \in Names /\ name \in Names /\ n \in Names
  BY NameAssumption
<1>2. one \in Seq(Names) /\ other \in Seq(Names) /\ one # other
  BY <1>1, SlashedIsPath, SlashedInjective DEF Paths
<1>3. ~Given(None)
  BY DEF Given
<1> HIDE DEF one, other
<1>4. ASSUME NEW p \in Seq(Names) PROVE p \o one # p \o other
  BY <1>2, ConcatSimplifications
<1>5. /\ KVv1Path(s, name, None) = Mount \o one
      /\ KVv1Path(t, n, None) = Mount \o other
      /\ KVv2Path(s, name, None) = (Mount \o <<Data>>) \o one
      /\ KVv2Path(t, n, None) = (Mount \o <<Data>>) \o other
      /\ AWSPath(s, name, None) = one
      /\ AWSPath(t, n, None) = other
  BY <1>3 DEF KVv1Path, KVv2Path, AWSPath, one, other
<1>6. Mount \in Seq(Names) /\ Mount \o <<Data>> \in Seq(Names)
  BY OwnWords, ConcatProperties DEF Paths
<1> QED
  BY <1>2, <1>4, <1>5, <1>6

-----------------------------------------------------------------------------
(***************************************************************************)
(* Reads.                                                                  *)
(***************************************************************************)
\* A place comes of the path and the labels.
LEMMA SamePlaces ==
    ASSUME NEW k, NEW n, NEW i, NEW j, i.path = j.path, i.labels = j.labels
    PROVE  Place(k, n, i) = Place(k, n, j)
BY DEF Place, KVPlace, AWSPlace, AzurePlace, GCPPlace, OCIPlace, InfisicalPlace

LEMMA SameReads ==
    ASSUME NEW i, NEW j, i.path = j.path, i.field = j.field, i.labels = j.labels
    PROVE  GetSecret(i) = GetSecret(j)
<1>1. Place(kind, name, i) = Place(kind, name, j)
  BY SamePlaces
<1> QED
  BY <1>1 DEF GetSecret

\* With a field's name, a read has one result at most.
LEMMA OneResult ==
    ASSUME NEW info \in Infos(kind, name), NEW v \in GetSecret(info)
    PROVE  GetSecret(info) = {v}
<1>1. info.field \in {"value", "password"}
  BY DEF Infos
<1>2. \A f, g \in Extract(info.field) : f = g
  BY <1>1 DEF Extract, ExtractFromMap
<1> QED
  BY <1>2 DEF GetSecret

\* Where an entry is read is a place of the store.
LEMMA PlacesKnown ==
    ASSUME NEW info \in Infos(kind, name), GetSecret(info) # {}
    PROVE  Place(kind, name, info) \in Places(kind, name)
<1>1. Place(kind, name, info) # None
  BY DEF GetSecret
<1> QED
  BY <1>1 DEF Places

LEMMA PathsKnown ==
    ASSUME NEW k, NEW n, NEW s \in ServiceNames, NEW l \in LabelsFor(k)
    PROVE  BuildSecretPath(k, s, n, l) \in BuiltPaths(k, n)
BY DEF BuiltPaths

LEMMA InfoType ==
    ASSUME TrackerCurrent, NEW s \in ServiceNames
    PROVE  BuildSecretInfo(s) \in Infos(kind, name)
<1>1. labels \in LabelsFor(kind)
  BY DEF TrackerCurrent
<1> DEFINE path == BuildSecretPath(kind, s, name, labels)
           field == IF labels.field = "" THEN "value" ELSE labels.field
<1>2. labels.field \in {"", "password"}
  BY <1>1 DEF LabelsFor, Labels
<1>3. path \in BuiltPaths(kind, name)
  BY <1>1, PathsKnown
<1>4. field \in {"value", "password"}
  BY <1>2
<1>5. BuildSecretInfo(s) = [path |-> path, field |-> field, labels |-> labels]
  BY DEF BuildSecretInfo
<1> HIDE DEF path, field
<1> QED
  BY <1>1, <1>3, <1>4, <1>5 DEF Infos

-----------------------------------------------------------------------------
LEMMA InitCurrent == Init => TrackerCurrent
<1> SUFFICES ASSUME Init PROVE TrackerCurrent
  OBVIOUS
<1>1. name \in SecretNames /\ labels \in LabelsFor(kind)
  BY DEF Init
<1>2. DOMAIN store = Places(kind, name)
  BY DEF Init
<1>3. ~written /\ tracker = None /\ readers = {}
  BY DEF Init
<1> QED
  BY <1>1, <1>2, <1>3 DEF TrackerCurrent

\* While nothing is written, what a read finds is what it found.
LEMMA ReadsStay ==
    ASSUME UNCHANGED <<kind, shape, name, store>>
    PROVE  GetSecret(tracker.info)' = GetSecret(tracker'.info)
BY DEF GetSecret, Extract

\* What depends on the labels, and on those who read, stays while they do.
LEMMA LabelledStay ==
    ASSUME UNCHANGED <<kind, name, labels>>
    PROVE  /\ \A s : BuildSecretInfo(s)' = BuildSecretInfo(s)
           /\ readers' = readers => (OnePath' <=> OnePath)
BY DEF BuildSecretInfo, OnePath

LEMMA GetCurrent ==
    ASSUME TrackerCurrent, NEW s \in ServiceNames, Get(s)
    PROVE  TrackerCurrent'
<1> DEFINE info == BuildSecretInfo(s)
<1>1. PICK value \in GetSecret(info) : tracker' = TrackSecret(info, value)
  BY DEF Get
<1>2. /\ UNCHANGED <<kind, shape, name, labels, store>>
      /\ readers' = readers \cup {s} /\ ~written'
      /\ relabelled' <=> relabelled /\ tracker # None
  BY DEF Get, environment
<1>3. info \in Infos(kind, name) /\ \A t : BuildSecretInfo(t)' = BuildSecretInfo(t)
  BY <1>2, InfoType, LabelledStay
<1>4. GetSecret(info) = {value}
  BY <1>1, <1>3, OneResult
<1>5. \E i \in Infos(kind, name) :
         /\ tracker' = [info |-> i, hash |-> value]
         /\ ~relabelled' => \E t \in readers' : i = BuildSecretInfo(t)
         /\ ~relabelled' /\ OnePath' => i = info
  <2>1. CASE tracker = None
    BY <1>1, <1>2, <1>3, <2>1 DEF TrackSecret
  <2>2. CASE tracker # None
    <3> DEFINE i == [tracker.info EXCEPT !.labels = info.labels]
    <3>1. tracker.info \in Infos(kind, name)
      BY <2>2 DEF TrackerCurrent
    <3>2. i \in Infos(kind, name)
      BY <1>3, <3>1 DEF Infos
    <3>3. tracker' = [info |-> i, hash |-> value]
      BY <1>1, <2>2 DEF TrackSecret
    <3>4. ASSUME ~relabelled'
          PROVE  \E t \in readers : i = BuildSecretInfo(t)
      <4>1. PICK t \in readers : tracker.info = BuildSecretInfo(t)
        BY <1>2, <2>2, <3>4 DEF TrackerCurrent
      <4>2. tracker.info.labels = labels /\ info.labels = labels
        <5>1. \A u : BuildSecretInfo(u).labels = labels
          BY DEF BuildSecretInfo
        <5> HIDE DEF info, i
        <5>2. tracker.info.labels = labels
          BY <4>1, <5>1
        <5> QED
          BY <5>1, <5>2 DEF info
      <4>3. i = tracker.info
        BY <3>1, <4>2 DEF Infos
      <4> QED
        BY <4>1, <4>3
    <3>5. ASSUME ~relabelled', OnePath' PROVE i = info
      <4>1. PICK t \in readers : i = BuildSecretInfo(t)
        BY <3>4, <3>5
      <4>2. BuildSecretPath(kind, s, name, labels) = BuildSecretPath(kind, t, name, labels)
        BY <1>2, <3>5, <4>1 DEF OnePath
      <4> QED
        BY <4>1, <4>2 DEF BuildSecretInfo
    <3> HIDE DEF i
    <3> QED
      BY <1>2, <3>2, <3>3, <3>4, <3>5
  <2> QED
    BY <2>1, <2>2
<1> HIDE DEF info
<1>6. PICK i \in Infos(kind, name) :
         /\ tracker' = [info |-> i, hash |-> value]
         /\ ~relabelled' => \E t \in readers' : i = BuildSecretInfo(t)
         /\ ~relabelled' /\ OnePath' => i = info
  BY <1>5
<1>7. tracker'.info = i /\ tracker'.hash = value
  BY <1>6
<1>8. ~relabelled' /\ OnePath' => GetSecret(tracker.info)' = {tracker'.hash}
  BY <1>2, <1>4, <1>6, <1>7, ReadsStay
<1>9. Infos(kind, name)' = Infos(kind, name) /\ Places(kind, name)' = Places(kind, name)
      /\ readers' # {} /\ readers' \subseteq ServiceNames
  BY <1>2 DEF Infos, Places, TrackerCurrent
<1> QED
  BY <1>2, <1>3, <1>6, <1>7, <1>8, <1>9 DEF TrackerCurrent

LEMMA CheckCurrent ==
    ASSUME TrackerCurrent, CheckForChange
    PROVE  TrackerCurrent' /\ (checked' = "rotated" => written \/ relabelled \/ ~OnePath)
<1>1. /\ UNCHANGED <<kind, shape, name, labels, store, readers>> /\ tracker # None
      /\ relabelled' <=> relabelled
      /\ tracker.info \in Infos(kind, name)
      /\ tracker = [info |-> tracker.info, hash |-> tracker.hash]
      /\ \A s : BuildSecretInfo(s)' = BuildSecretInfo(s)
      /\ OnePath' <=> OnePath
  BY LabelledStay DEF CheckForChange, environment, TrackerCurrent
<1>2. CASE checked' = "quiet" /\ UNCHANGED <<tracker, written>>
  <2>1. GetSecret(tracker.info)' = GetSecret(tracker.info)
    BY <1>1, <1>2, ReadsStay
  <2> QED
    BY <1>1, <1>2, <2>1 DEF TrackerCurrent
<1>3. CASE /\ \E value \in GetSecret(tracker.info) : value # tracker.hash
           /\ \E value \in GetSecret(tracker.info) : tracker' = [tracker EXCEPT !.hash = value]
  <2>1. written \/ relabelled \/ ~OnePath
    BY <1>1, <1>3 DEF TrackerCurrent
  <2>2. PICK value \in GetSecret(tracker.info) : tracker' = [tracker EXCEPT !.hash = value]
    BY <1>3
  <2>3. GetSecret(tracker.info) = {value}
    BY <1>1, <2>2, OneResult
  <2>4. /\ tracker'.info = tracker.info /\ tracker'.hash = value
        /\ tracker' = [info |-> tracker'.info, hash |-> tracker'.hash]
    BY <1>1, <2>2
  <2>5. GetSecret(tracker.info)' = {tracker'.hash}
    BY <1>1, <2>3, <2>4, ReadsStay
  <2>6. Infos(kind, name)' = Infos(kind, name) /\ Places(kind, name)' = Places(kind, name)
    BY <1>1 DEF Infos, Places
  <2> QED
    BY <1>1, <2>1, <2>4, <2>5, <2>6 DEF TrackerCurrent
<1> QED
  BY <1>2, <1>3 DEF CheckForChange

\* A write somewhere else does not change what is read here.
LEMMA WriteCurrent ==
    ASSUME TrackerCurrent, NEW place \in DOMAIN store, Write(place)
    PROVE  TrackerCurrent'
<1>1. /\ UNCHANGED <<kind, shape, name, labels, tracker, readers>>
      /\ relabelled' <=> relabelled
      /\ DOMAIN store' = DOMAIN store
      /\ \A p \in DOMAIN store : p # place => store'[p] = store[p]
      /\ \A s : BuildSecretInfo(s)' = BuildSecretInfo(s)
      /\ OnePath' <=> OnePath
  BY LabelledStay DEF Write, environment
<1>2. ASSUME readers # {}, ~relabelled, OnePath, ~written'
      PROVE  GetSecret(tracker.info)' = {tracker.hash}
  <2> DEFINE here == Place(kind, name, tracker.info)
  <2>1. ~written /\ here # place
    BY <1>2 DEF Write
  <2>2. tracker.info \in Infos(kind, name) /\ GetSecret(tracker.info) = {tracker.hash}
    BY <1>2, <2>1 DEF TrackerCurrent
  <2>3. here \in DOMAIN store
    BY <2>2, PlacesKnown DEF TrackerCurrent
  <2>4. store'[here] = store[here]
    BY <1>1, <2>1, <2>3
  <2>5. GetSecret(tracker.info)' = GetSecret(tracker.info)
    BY <1>1, <2>4 DEF GetSecret, Extract
  <2> QED
    BY <2>2, <2>5
<1>3. readers = {} => tracker = None /\ ~written'
  BY DEF Write, TrackerCurrent
<1>4. Infos(kind, name)' = Infos(kind, name) /\ Places(kind, name)' = Places(kind, name)
  BY <1>1 DEF Infos, Places
<1> QED
  BY <1>1, <1>2, <1>3, <1>4 DEF TrackerCurrent

LEMMA RelabelCurrent ==
    ASSUME TrackerCurrent, Relabel
    PROVE  TrackerCurrent'
<1>1. /\ UNCHANGED <<kind, name, store, tracker, readers, written>>
      /\ relabelled' /\ labels' \in LabelsFor(kind)
  BY DEF Relabel, environment
<1>2. Infos(kind, name)' = Infos(kind, name) /\ Places(kind, name)' = Places(kind, name)
  BY <1>1 DEF Infos, Places
<1> QED
  BY <1>1, <1>2 DEF TrackerCurrent

LEMMA RestartCurrent ==
    ASSUME TrackerCurrent, Restart
    PROVE  TrackerCurrent'
<1>1. /\ UNCHANGED <<kind, name, labels, store>>
      /\ tracker' = None /\ readers' = {} /\ ~written'
  BY DEF Restart, environment
<1> QED
  BY <1>1 DEF TrackerCurrent, Places

LEMMA StutterCurrent ==
    ASSUME TrackerCurrent, UNCHANGED vars
    PROVE  TrackerCurrent'
<1>1. /\ UNCHANGED <<kind, shape, name, labels, store, tracker, readers>>
      /\ relabelled' <=> relabelled
      /\ written' <=> written
      /\ \A s : BuildSecretInfo(s)' = BuildSecretInfo(s)
      /\ OnePath' <=> OnePath
  BY LabelledStay DEF vars
<1>2. GetSecret(tracker.info)' = GetSecret(tracker.info)
  BY <1>1, ReadsStay
<1> QED
  BY <1>1, <1>2 DEF TrackerCurrent, Infos, Places

LEMMA StepCurrent == TrackerCurrent /\ [Next]_vars => TrackerCurrent'
BY GetCurrent, CheckCurrent, WriteCurrent, RelabelCurrent, RestartCurrent, StutterCurrent DEF Next

LEMMA AlwaysCurrent == Spec => []TrackerCurrent
BY InitCurrent, StepCurrent, PTL DEF Spec

\* For every name and label: the spellings of a KV v2 path agree, Infisical reads
\* its path back as it built it, and services do not share the paths with "/".
THEOREM PathsAreSound == Spec => []PathsSound
<1>1. TrackerCurrent => PathsSound
  BY SpellingsAlwaysAgree, InfisicalPathsReadBack, PlacesAreOwn
     DEF PathsSound, TrackerCurrent, LabelsFor
<1> QED
  BY <1>1, AlwaysCurrent, PTL

\* A check by the rotation finds a change only where there is one: the entry's
\* place was written since its value was stored, or the labels changed since it was
\* made, or services read the secret under different paths (driver.go:255-264,
\* 349-366).
THEOREM ChecksAreQuiet == Spec => QuietUnlessTouched
<1>1. TrackerCurrent /\ [Next]_vars
          => [checked' = "rotated" => written \/ relabelled \/ ~OnePath]_vars
  <2> SUFFICES ASSUME TrackerCurrent, Next, checked' = "rotated"
               PROVE  written \/ relabelled \/ ~OnePath
    OBVIOUS
  <2>1. CheckForChange
    BY NoneAssumption DEF Next, Get, Write, Relabel, Restart
  <2> QED
    BY <2>1, CheckCurrent
<1> QED
  BY <1>1, AlwaysCurrent, PTL DEF Spec, QuietUnlessTouched
=============================================================================
