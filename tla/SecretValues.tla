---------------------------- MODULE SecretValues ----------------------------
(***************************************************************************)
(* From the labels of one Docker secret to the value the plugin reads, for *)
(* each provider: BuildSecretPath and GetSecret under providers/, kvpath   *)
(* and the field extraction of utils.go, with buildSecretInfo, trackSecret *)
(* and hasSecretChanged of driver.go, which read by the entry of the       *)
(* tracker what Get read by the labels.                                    *)
(*                                                                         *)
(* A name is a sequence of words, written with "-" between them, and "_"   *)
(* is any character Azure has no use for.  A path is a sequence of names,  *)
(* written with "/" between them.                                          *)
(***************************************************************************)
EXTENDS Integers, SequencesExt

CONSTANTS
    Words,          \* what names are made of
    ServiceNames, SecretNames,
    PathLabels,     \* paths a label may give; <<>> is the empty label, Root is "/"
    NameLabels,     \* names a label may give; <<>> is the empty label
    Upper,          \* a word in capitals
    Kinds,          \* providers; Vault and OpenBao are "kv1" and "kv2"
    Shapes,         \* what is stored: text, or JSON with the usual fields or others
    MaxChanges,     \* bound: the writes at the provider and the changes of labels
    None

Names == Seq(Words)
Paths == Seq(Names)

ASSUME WordAssumption == {"secret", "data", "p", "dev"} \subseteq Words
ASSUME NameAssumption == ServiceNames \cup SecretNames \subseteq Names
ASSUME PathAssumption == PathLabels \subseteq Paths
ASSUME LabelAssumption == NameLabels \subseteq Names /\ Upper \in [Words -> Words]
ASSUME NoneAssumption == None \notin Paths \cup Names /\ None # "rotated"

Mount     == << <<"secret">> >>
Data      == <<"data">>
Project   == << <<"projects">>, <<"p">>, <<"secrets">> >>
Root      == << <<>> >>

\* INFISICAL_PROJECT_ID, INFISICAL_ENVIRONMENT and INFISICAL_SECRET_PATH.
Workspace == << <<"p">>, <<"dev">> >>
Folder    == <<Data>>

Labels == [path : PathLabels \cup {None}, field : {"", "password"},
           stage : {"", "previous", "nonsense"},
           project : NameLabels \cup {None}, environment : NameLabels \cup {None},
           name : NameLabels \cup {None}]

LabelsFor(k) == {l \in Labels :
                    /\ k = "oci" \/ l.stage = ""
                    /\ k # "infisical" => {l.project, l.environment, l.name} = {None}}

VARIABLES
    kind,       \* SECRETS_PROVIDER
    shape,      \* the form of the values at the provider
    name,       \* the Docker secret
    labels,     \* its labels, which Docker lets one change
    store,      \* store[l]: the version at a place of the provider
    changes,
    tracker,    \* the entry of the tracker, or None
    readers,    \* the services whose Gets made the entry or updated it
    written,    \* where the entry is read was written since its value was stored
    relabelled, \* the labels changed since the entry was made
    checked     \* what the last step found, if it was a check

vars == <<kind, shape, name, labels, store, changes, tracker, readers, written, relabelled,
          checked>>
environment == <<kind, shape, name>>

-----------------------------------------------------------------------------
(***************************************************************************)
(* Paths.                                                                  *)
(***************************************************************************)
TrimPrefix(p, path) == IF IsStrictPrefix(p, path)
                       THEN SubSeq(path, Len(p) + 1, Len(path)) ELSE path

NormalizeV1RelativePath(path) == TrimPrefix(Mount, path)
NormalizeRelativePath(path)   == TrimPrefix(<<Data>>, TrimPrefix(Mount, path))

Given(label) == label \notin {None, <<>>}
Slashed(s, n) == IF s = <<>> THEN <<n>> ELSE <<s, n>>
Dashed(s, n)  == << s \o n >>

KVv1Path(s, n, label) ==
    Mount \o (IF Given(label) THEN NormalizeV1RelativePath(label) ELSE Slashed(s, n))
KVv2Path(s, n, label) ==
    Mount \o <<Data>> \o (IF Given(label) THEN NormalizeRelativePath(label) ELSE Slashed(s, n))

AWSPath(s, n, label) == IF label # None THEN label ELSE Slashed(s, n)

GCPPath(s, n, label) ==
    LET secret == IF label # None THEN label ELSE Dashed(s, n)
    IN  IF secret # <<>> /\ Head(secret) = Head(Project) /\ Contains(secret, Last(Project))
        THEN secret ELSE Project \o secret

\* Other characters become "-", and "-" is never doubled nor at an end.
Sanitized(word) == IF SelectSeq(word, LAMBDA w : w # "_") = <<>> THEN <<"default", "secret">>
                   ELSE SelectSeq(word, LAMBDA w : w # "_")
AzurePath(s, n, label) == IF label # None THEN label ELSE << Sanitized(s \o n) >>

OCIPath(s, n, label) == IF Given(label) THEN label ELSE Dashed(s, n)

\* Four labels of their own, each with its default; none has a "/" in it but the
\* folder.
ToUpper(n) == [i \in DOMAIN n |-> Upper[n[i]]]
NormalizeInfisicalSecretPath(path) == IF path = Root THEN <<>> ELSE path

ResolveSecretName(n, l) == IF Given(l.name) THEN l.name ELSE ToUpper(n)
ResolveContext(l) ==
    << IF Given(l.project) THEN l.project ELSE Workspace[1],
       IF Given(l.environment) THEN l.environment ELSE Workspace[2] >>
    \o (IF Given(l.path) THEN NormalizeInfisicalSecretPath(l.path) ELSE Folder)
InfisicalPath(n, l) == ResolveContext(l) \o <<ResolveSecretName(n, l)>>

BuildSecretPath(k, s, n, l) ==
    CASE k = "kv1"       -> KVv1Path(s, n, l.path)
      [] k = "kv2"       -> KVv2Path(s, n, l.path)
      [] k = "aws"       -> AWSPath(s, n, l.path)
      [] k = "gcp"       -> GCPPath(s, n, l.path)
      [] k = "azure"     -> AzurePath(s, n, l.path)
      [] k = "oci"       -> OCIPath(s, n, l.path)
      [] k = "infisical" -> InfisicalPath(n, l)

-----------------------------------------------------------------------------
(***************************************************************************)
(* Reading.  A place is where the provider looks; None: the call fails.    *)
(***************************************************************************)
\* Infisical's GetSecret takes the project, the environment and the folder back
\* out of the path, and the name from the labels again.
ParseSecretPathShort(path) == SubSeq(path, 1, 2)
ParseSecretPath(path) == IF Len(path) < 3 THEN Workspace \o Folder ELSE Front(path)

ResolveStage(stage) == CASE stage = "" -> <<"CURRENT">>
                         [] stage = "previous" -> <<"PREVIOUS">>
                         [] OTHER -> None

KVPlace(info)    == info.path
AWSPlace(info)   == info.path
AzurePlace(info) == info.path
GCPPlace(info)   == IF Contains(info.path, <<"versions">>) THEN info.path
                    ELSE info.path \o << <<"versions">>, <<"latest">> >>
OCIPlace(info)   == IF ResolveStage(info.labels.stage) = None THEN None
                    ELSE Append(info.path, ResolveStage(info.labels.stage))
InfisicalPlace(n, info) ==
    Append(ParseSecretPath(info.path), ResolveSecretName(n, info.labels))

Place(k, n, info) ==
    CASE k \in {"kv1", "kv2"} -> KVPlace(info)
      [] k = "aws"            -> AWSPlace(info)
      [] k = "gcp"            -> GCPPlace(info)
      [] k = "azure"          -> AzurePlace(info)
      [] k = "oci"            -> OCIPlace(info)
      [] k = "infisical"      -> InfisicalPlace(n, info)

Fields == [usual |-> {"value", "password"}, other |-> {"user", "pin", "tries"}, text |-> {}]
Numbers == {"tries"}
DefaultFields == <<"value", "password", "secret", "data">>

\* The fields that a read may end with, none of them if it fails.  Without a
\* field's name that is the first of the usual ones, or any string, as Go's maps
\* come.
ExtractFromMap(fields, field) ==
    LET usual == SelectSeq(DefaultFields, LAMBDA f : f \in fields)
    IN  IF field # "" THEN fields \cap {field}
        ELSE IF usual # <<>> THEN {Head(usual)} ELSE fields \ Numbers
Extract(field) ==
    IF shape # "text" THEN ExtractFromMap(Fields[shape], field)
    ELSE IF field \in {"", "value"} THEN {"text"} ELSE {}

GetSecret(info) ==
    LET place == Place(kind, name, info)
    IN  IF place = None THEN {}
        ELSE {[place |-> place, ver |-> store[place], field |-> f] : f \in Extract(info.field)}

-----------------------------------------------------------------------------
(***************************************************************************)
(* The driver.                                                             *)
(***************************************************************************)
InfoAsLabelled(s) == [path   |-> BuildSecretPath(kind, s, name, labels),
                      field  |-> labels.field,
                      labels |-> labels]
BuildSecretInfo(s) == [path   |-> BuildSecretPath(kind, s, name, labels),
                       field  |-> IF labels.field = "" THEN "value" ELSE labels.field,
                       labels |-> labels]

BuiltPaths(k, n) == {BuildSecretPath(k, s, n, l) : s \in ServiceNames, l \in LabelsFor(k)}
Infos(k, n)  == [path : BuiltPaths(k, n), field : {"value", "password"}, labels : LabelsFor(k)]
Places(k, n) == {Place(k, n, i) : i \in Infos(k, n)} \ {None}

Init == /\ kind \in Kinds
        /\ name \in SecretNames
        /\ store = [p \in Places(kind, name) |-> 0]
        /\ shape \in IF kind \in {"kv1", "kv2"} THEN Shapes \ {"text"} ELSE Shapes
        /\ labels \in LabelsFor(kind)
        /\ changes = 0
        /\ tracker = None
        /\ readers = {}
        /\ written = FALSE
        /\ relabelled = FALSE
        /\ checked = None

\* An entry that is there keeps its path and its field.
TrackSecret(info, value) ==
    IF tracker = None THEN [info |-> info, hash |-> value]
    ELSE [info |-> [tracker.info EXCEPT !.labels = info.labels], hash |-> value]

\* A Get that fails is not tracked.
Get(s) == \E value \in GetSecret(BuildSecretInfo(s)) :
             /\ tracker' = TrackSecret(BuildSecretInfo(s), value)
             /\ readers' = readers \cup {s}
             /\ written' = FALSE
             /\ relabelled' = (relabelled /\ tracker # None)
             /\ checked' = None
             /\ UNCHANGED <<environment, labels, store, changes>>

\* hasSecretChanged and, for a change, rotateSecret, which reads again.
CheckForChange ==
    /\ tracker # None
    /\ \/ /\ GetSecret(tracker.info) = {} \/ tracker.hash \in GetSecret(tracker.info)
          /\ checked' = "quiet"
          /\ UNCHANGED <<tracker, written>>
       \/ /\ \E value \in GetSecret(tracker.info) : value # tracker.hash
          /\ \E value \in GetSecret(tracker.info) : tracker' = [tracker EXCEPT !.hash = value]
          /\ written' = FALSE
          /\ checked' = "rotated"
    /\ UNCHANGED <<environment, labels, store, changes, readers, relabelled>>

Relabel == /\ labels' \in LabelsFor(kind) \ {labels}
           /\ changes < MaxChanges
           /\ changes' = changes + 1
           /\ relabelled' = TRUE
           /\ checked' = None
           /\ UNCHANGED <<environment, store, tracker, readers, written>>

Write(place) == /\ changes < MaxChanges
                /\ changes' = changes + 1
                /\ store' = [store EXCEPT ![place] = @ + 1]
                /\ written' = (readers # {} /\ (written \/ Place(kind, name, tracker.info) = place))
                /\ checked' = None
                /\ UNCHANGED <<environment, labels, tracker, readers, relabelled>>

\* The tracker is in memory only.
Restart == /\ tracker # None
           /\ tracker' = None
           /\ readers' = {}
           /\ written' = FALSE
           /\ checked' = None
           /\ UNCHANGED <<environment, labels, store, changes, relabelled>>

Next == \/ \E s \in ServiceNames : Get(s)
        \/ \E p \in DOMAIN store : Write(p)
        \/ CheckForChange \/ Relabel \/ Restart

Spec == Init /\ [][Next]_vars

-----------------------------------------------------------------------------
\* The services that have read the secret read it in one place.
OnePath == \A s, t \in readers :
    BuildSecretPath(kind, s, name, labels) = BuildSecretPath(kind, t, name, labels)

\* An entry of the tracker names a path and one field, so that the read it leads
\* to has one result: that of the first Get for as long as the labels stay.  Then
\* the value it has is that one, unless another service's Get put the value of
\* another path there, or the provider has a new one.
TrackerCurrent ==
    /\ name \in SecretNames
    /\ labels \in LabelsFor(kind)
    /\ DOMAIN store = Places(kind, name)
    /\ readers \subseteq ServiceNames
    /\ readers = {} => tracker = None /\ ~written
    /\ readers # {} =>
          /\ tracker.info \in Infos(kind, name)
          /\ tracker = [info |-> tracker.info, hash |-> tracker.hash]
          /\ ~relabelled => \E s \in readers : tracker.info = BuildSecretInfo(s)
          /\ ~relabelled /\ OnePath /\ ~written => GetSecret(tracker.info) = {tracker.hash}

\* A check finds a change, and restarts services, only when there is one: what the
\* entry reads was written since its value was stored, whatever fields the value
\* has.  There are two exceptions.  The labels changed since the entry was made,
\* which keeps the path they gave; or two services whose labels give no path have
\* the secret under paths of their own, and the Get of one stored the hash of its
\* value with the path of the other.
QuietUnlessTouched == [][checked' = "rotated" => written \/ relabelled \/ ~OnePath]_vars

\* A KV v2 secret has one path, however its label is spelt: with or without the
\* mount, with or without "data".
SpellingsAgree == \A s \in ServiceNames, l \in PathLabels :
    Given(l) /\ Head(l) \notin {Data, Head(Mount)} =>
        \A spelt \in {Mount \o l, <<Data>> \o l, Mount \o <<Data>> \o l} :
            KVv2Path(s, name, spelt) = KVv2Path(s, name, l)

\* Infisical's path is read back as it was built: project, environment and
\* folder, at any depth and each by its label or by default, and the secret's name.
InfisicalRoundTrip == kind = "infisical" => \A s \in ServiceNames :
    Place(kind, name, BuildSecretInfo(s)) =
        Append(ResolveContext(labels), ResolveSecretName(name, labels))

\* Without labels, two services never read each other's secrets where "/" comes
\* between the service's name and the secret's.  (With "-", for GCP, Azure and
\* OCI, service a with secret b-c reads what service a-b reads with secret c.)
OwnPlace == \A s, t \in ServiceNames, n \in SecretNames :
    <<s, name>> # <<t, n>> =>
        /\ KVv1Path(s, name, None) # KVv1Path(t, n, None)
        /\ KVv2Path(s, name, None) # KVv2Path(t, n, None)
        /\ AWSPath(s, name, None) # AWSPath(t, n, None)

\* The paths are as meant, for the secret's name and any label.
PathsSound == SpellingsAgree /\ InfisicalRoundTrip /\ OwnPlace
=============================================================================
