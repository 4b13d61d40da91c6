-------------------------- MODULE CommandLineProofs --------------------------
(***************************************************************************)
(* Proofs about the commands, for any number of shells, runs and updates,  *)
(* any profiles, directories, rc files and releases: the types; that a     *)
(* file which is replaced by a rename is whole at every moment; that a     *)
(* marker stays readable, and edits and searches belong to some moment of  *)
(* the command's own time; that an update replaces an older release only;  *)
(* and, from ShellHooksProofs, that the rc files keep the user's lines.    *)
(***************************************************************************)
EXTENDS CommandLine, ShellHooksProofs, TLAPS

-----------------------------------------------------------------------------
(* The versions of an update. *)

Digits(high, low) == high * Base + low

\* The digit above decides, whatever is below.
LEMMA HigherDigit ==
  ASSUME NEW x \in Nat, NEW y \in Nat, x < y, NEW r \in Nat, r < Base, NEW q \in Nat
  PROVE  Digits(x, r) < Digits(y, q)
<1>1. PICK k \in Nat : y = (x + 1) + k
  <2> y - (x + 1) \in Nat /\ y = (x + 1) + (y - (x + 1))
    OBVIOUS
  <2> QED OBVIOUS
<1>2. y * Base = x * Base + Base + k * Base
  BY <1>1, UpdateAssumption
<1>3. k * Base \in Nat /\ x * Base \in Nat
  BY UpdateAssumption
<1> QED BY <1>2, <1>3, UpdateAssumption DEF Digits

LEMMA DigitsAreANumber ==
  ASSUME NEW x \in Nat, NEW r \in Nat
  PROVE  Digits(x, r) \in Nat
  BY UpdateAssumption DEF Digits

LEMMA LowerDigit ==
  ASSUME NEW x \in Nat, NEW r \in Nat, NEW q \in Nat, r < q
  PROVE  Digits(x, r) < Digits(x, q)
<1>1. x * Base \in Nat
  BY UpdateAssumption
<1> QED BY <1>1 DEF Digits

\* The parts of a tag, missing ones being 0, are digits.
LEMMA TagsHaveParts ==
  ASSUME NEW tag \in Tags
  PROVE  /\ tag \in Seq(0 .. Base - 1)
         /\ Len(tag) \in Nat /\ 1 <= Len(tag) /\ Len(tag) <= 3
<1>1. tag \in Seq(0 .. Base - 1)
  BY UpdateAssumption
<1>2. tag # <<>>
  BY UpdateAssumption DEF LocalBuild
<1>3. Len(tag) \in Nat /\ Len(tag) # 0
  BY <1>1, <1>2
<1>4. Len(tag) <= 3
  BY UpdateAssumption
<1> QED BY <1>1, <1>3, <1>4

LEMMA PartsAreDigits ==
  ASSUME NEW tag \in Tags, NEW i \in Nat \ {0}
  PROVE  /\ Part(tag, i) \in Nat /\ Part(tag, i) < Base
         /\ i > 3 => Part(tag, i) = 0
<1> DEFINE D == 0 .. Base - 1
<1>1. /\ tag \in Seq(D) /\ Len(tag) \in Nat /\ 1 <= Len(tag) /\ Len(tag) <= 3
      /\ Base \in Nat
  BY TagsHaveParts, UpdateAssumption
<1>2. \A j \in 1 .. Len(tag) : tag[j] \in Nat /\ tag[j] < Base
  <2>1. \A j \in 1 .. Len(tag) : tag[j] \in D
    <3> HIDE DEF D
    <3> QED BY <1>1
  <2> QED BY <1>1, <2>1
<1>3. 1 \in 1 .. Len(tag) /\ 0 < Base
  BY <1>1, <1>2
<1>4. CASE i <= Len(tag)
  BY <1>1, <1>2, <1>4 DEF Part
<1>5. CASE ~(i <= Len(tag))
  BY <1>1, <1>3, <1>5 DEF Part
<1> QED BY <1>4, <1>5

\* The number that a tag stands for.
LEMMA WeightsAreNumbers ==
  ASSUME NEW tag \in Tags
  PROVE  Weight(tag) \in Nat
<1>1. /\ Part(tag, 1) \in Nat /\ Part(tag, 2) \in Nat /\ Part(tag, 3) \in Nat /\ Base \in Nat
  BY PartsAreDigits, UpdateAssumption
<1>2. Part(tag, 1) * Base \in Nat
  BY <1>1
<1>3. (Part(tag, 1) * Base + Part(tag, 2)) * Base \in Nat
  BY <1>1, <1>2
<1> QED BY <1>1, <1>3 DEF Weight

\* What Compare finds to be the older weighs less.
LEMMA OlderWeighsLess ==
  ASSUME NEW a \in Tags, NEW b \in Tags, Compare(a, b) < 0
  PROVE  Weight(a) < Weight(b)
<1> DEFINE differ == {i \in 1 .. Len(a) + Len(b) : Part(a, i) # Part(b, i)}
           first == CHOOSE i \in differ : \A j \in differ : i <= j
<1>1. /\ Len(a) \in Nat /\ 1 <= Len(a) /\ Len(a) <= 3
      /\ Len(b) \in Nat /\ 1 <= Len(b) /\ Len(b) <= 3
  BY TagsHaveParts
<1>2. differ # {} /\ Part(a, first) < Part(b, first)
  BY DEF Compare
<1>3. differ \subseteq 1 .. 3
  <2> SUFFICES ASSUME NEW i \in 1 .. Len(a) + Len(b), i > 3
               PROVE  Part(a, i) = Part(b, i)
    BY <1>1
  <2> QED BY PartsAreDigits, <1>1
<1>4. \E i \in differ : \A j \in differ : i <= j
  <2>1. CASE 1 \in differ
    BY <1>3, <2>1
  <2>2. CASE 1 \notin differ /\ 2 \in differ
    BY <1>3, <2>2
  <2>3. CASE 1 \notin differ /\ 2 \notin differ
    <3>1. differ # {}
      BY <1>2
    <3> HIDE DEF differ
    <3>2. \A i \in differ : i = 3
      BY <1>3, <2>3
    <3> QED BY <3>1, <3>2
  <2> QED BY <2>1, <2>2, <2>3
<1>5. first \in differ /\ \A j \in differ : first <= j
  <2> HIDE DEF differ
  <2> QED BY <1>4
<1>6. \A i \in 1 .. 3 : i < first => Part(a, i) = Part(b, i)
  <2> SUFFICES ASSUME NEW i \in 1 .. 3, i < first
               PROVE  Part(a, i) = Part(b, i)
    OBVIOUS
  <2>1. first \in 1 .. Len(a) + Len(b) /\ first \in 1 .. 3 /\ i \notin differ
    BY <1>3, <1>5
  <2>2. i \in 1 .. Len(a) + Len(b)
    BY <1>1, <2>1
  <2> QED BY <2>1, <2>2
<1> HIDE DEF differ, first
<1> DEFINE x(i) == Part(a, i)
           y(i) == Part(b, i)
<1>7. \A i \in 1 .. 3 : x(i) \in Nat /\ x(i) < Base /\ y(i) \in Nat /\ y(i) < Base
  BY PartsAreDigits
<1>8. first \in 1 .. 3
  BY <1>3, <1>5
<1>9. \A tag \in Tags :
        Weight(tag) = Digits(Digits(Part(tag, 1), Part(tag, 2)), Part(tag, 3))
  BY DEF Weight, Digits
<1>14. x(1) \in Nat /\ x(2) \in Nat /\ y(1) \in Nat /\ y(2) \in Nat
  BY <1>7
<1>13. /\ Digits(x(1), x(2)) \in Nat /\ Digits(y(1), y(2)) \in Nat
       /\ x(3) \in Nat /\ x(3) < Base /\ y(3) \in Nat
  BY <1>7, <1>14, DigitsAreANumber
<1>10. CASE first = 1
  <2>1. Digits(x(1), x(2)) < Digits(y(1), y(2))
    BY <1>2, <1>7, <1>10, HigherDigit
  <2> QED BY <1>9, <1>13, <2>1, HigherDigit
<1>11. CASE first = 2
  <2>1. x(1) = y(1) /\ x(2) < y(2)
    BY <1>2, <1>6, <1>11
  <2>2. Digits(x(1), x(2)) < Digits(y(1), y(2))
    BY <1>7, <2>1, LowerDigit
  <2> QED BY <1>9, <1>13, <2>2, HigherDigit
<1>12. CASE first = 3
  <2>1. x(1) = y(1) /\ x(2) = y(2) /\ x(3) < y(3)
    BY <1>2, <1>6, <1>12
  <2> QED BY <1>9, <1>13, <2>1, LowerDigit
<1> QED BY <1>8, <1>10, <1>11, <1>12

-----------------------------------------------------------------------------
(* The inductive invariant. *)

\* What an update that goes on to download has decided.
Decided(r) ==
  IF r.current = LocalBuild THEN r.force ELSE r.byPath => Compare(r.current, r.tag) < 0

\* An update whose binary no other has replaced still knows which one it is, and the
\* file it is about to install is a whole one.
UpdateInv ==
  /\ UpdateTypeOK
  /\ InstalledIsWhole
  /\ \A u \in Updates : InUpdate(u, "install") => download[u] = "whole"
  /\ \A u \in Updates \ disturbed : Running(u) => update[u].current = binary.version
  /\ \A u \in Updates :
       update[u].pc \in {"create", "download", "install"} => Decided(update[u])

\* The invariant of the updates: at first, and after each step.
LEMMA UpdateInitIsInv ==
  ASSUME UpdateInit
  PROVE  UpdateInv
<1>1. NotBegun \in [pc : {"not begun", "look up", "decide", "create", "download", "install",
                          "kept", "updated", "failed", "killed"},
                    current : Tags \cup {LocalBuild}, byPath : BOOLEAN, force : BOOLEAN,
                    tag : Tags \cup {LocalBuild}]
      /\ NotBegun.pc = "not begun"
  BY DEF NotBegun
<1>2. \A u \in Updates : update[u] = NotBegun
  BY DEF UpdateInit
<1>3. UpdateTypeOK
  BY <1>1, <1>2 DEF UpdateInit, UpdateTypeOK
<1> QED BY <1>1, <1>2, <1>3 DEF UpdateInit, UpdateInv, InstalledIsWhole, InUpdate, Running

LEMMA CompareIsANumber ==
  ASSUME NEW a, NEW b
  PROVE  Compare(a, b) \in {-1, 0, 1}
  BY DEF Compare

\* Each step of an update keeps the invariant.
LEMMA UpdateStepKeepsInv ==
  ASSUME UpdateInv, NEW u \in Updates, UpdateStep(u)
  PROVE  UpdateInv'
<1> DEFINE r == update[u]
           Version == Tags \cup {LocalBuild}
           Update == [pc : {"not begun", "look up", "decide", "create", "download", "install",
                            "kept", "updated", "failed", "killed"},
                      current : Version, byPath : BOOLEAN, force : BOOLEAN, tag : Version]
           HasTag(x) == x.pc \in {"decide", "create", "download", "install"} => x.tag \in Tags
           IsDecided(x) == x.pc \in {"create", "download", "install"} => Decided(x)
<1>1. /\ binary \in [version : Version, whole : BOOLEAN] /\ binary.whole
      /\ latest \in Tags
      /\ update \in [Updates -> Update] /\ r \in Update
      /\ \A v \in Updates : HasTag(update[v]) /\ IsDecided(update[v])
      /\ download \in [Updates -> {"absent", "torn", "whole"}]
      /\ \A v \in Updates : InUpdate(v, "install") => download[v] = "whole"
      /\ disturbed \subseteq Updates
      /\ \A v \in Updates \ disturbed : Running(v) => update[v].current = binary.version
  BY DEF UpdateInv, UpdateTypeOK, InstalledIsWhole
<1> HIDE DEF Update
\* A step that leaves the binary as it is.
<1>2. ASSUME NEW x \in Update, update' = [update EXCEPT ![u] = x], HasTag(x), IsDecided(x),
             NEW file \in {"absent", "torn", "whole"},
             download' = [download EXCEPT ![u] = file],
             x.pc = "install" => file = "whole",
             u \notin disturbed /\ x.pc \in {"look up", "decide", "create", "download", "install"}
               => x.current = binary.version,
             UNCHANGED <<binary, latest, disturbed>>
      PROVE  UpdateInv'
  <2>1. /\ update' \in [Updates -> Update] /\ update'[u] = x
        /\ \A v \in Updates \ {u} : update'[v] = update[v]
    BY <1>1, <1>2
  <2>2. /\ download' \in [Updates -> {"absent", "torn", "whole"}] /\ download'[u] = file
        /\ \A v \in Updates \ {u} : download'[v] = download[v]
    BY <1>1, <1>2
  <2>3. UpdateTypeOK'
    <3>1. \A v \in Updates : HasTag(update'[v])
      BY <1>1, <1>2, <2>1
    <3> QED BY <1>1, <1>2, <2>1, <2>2, <3>1 DEF UpdateTypeOK, Update
  <2>4. \A v \in Updates : update'[v].pc = "install" => download'[v] = "whole"
    BY <1>1, <1>2, <2>1, <2>2 DEF InUpdate
  <2>5. \A v \in Updates \ disturbed' : Running(v)' => update'[v].current = binary'.version
    BY <1>1, <1>2, <2>1 DEF Running
  <2>6. \A v \in Updates : IsDecided(update'[v])
    BY <1>1, <1>2, <2>1
  <2>7. InstalledIsWhole'
    BY <1>1, <1>2 DEF InstalledIsWhole
  <2> QED BY <2>3, <2>4, <2>5, <2>6, <2>7 DEF UpdateInv, InUpdate
<1>3. download = [download EXCEPT ![u] = download[u]]
  BY <1>1
\* A step that changes no more than where the update is.
<1>4. ASSUME NEW pc \in {"look up", "decide", "create", "download", "kept", "failed", "killed"},
             UpdateGoes(u, pc), NEW file \in {"absent", "torn", "whole"},
             download' = [download EXCEPT ![u] = file],
             pc \in {"look up", "decide", "create", "download"} => Running(u),
             pc \in {"decide", "create", "download"} => r.tag \in Tags,
             pc \in {"create", "download"} => Decided(r),
             UNCHANGED <<binary, latest, disturbed>>
      PROVE  UpdateInv'
  <2> DEFINE x == [r EXCEPT !.pc = pc]
  <2>1. /\ x \in Update /\ x.pc = pc /\ x.tag = r.tag /\ x.current = r.current
        /\ x.byPath = r.byPath /\ x.force = r.force
    BY <1>1 DEF Update
  <2>2. update' = [update EXCEPT ![u] = x]
    BY <1>1, <1>4 DEF UpdateGoes
  <2>3. HasTag(x) /\ IsDecided(x) /\ x.pc # "install"
    BY <1>4, <2>1 DEF Decided
  <2>4. u \notin disturbed /\ x.pc \in {"look up", "decide", "create", "download", "install"}
          => x.current = binary.version
    BY <1>1, <1>4, <2>1
  <2> HIDE DEF x
  <2> QED BY <1>2, <1>4, <2>1, <2>2, <2>3, <2>4
<1>5. CASE BeginUpdate(u)
  <2>1. PICK byPath \in BOOLEAN, force \in BOOLEAN :
          update' = [update EXCEPT ![u] = [NotBegun EXCEPT !.pc = "look up",
                       !.current = binary.version, !.byPath = byPath, !.force = force]]
    BY <1>5 DEF BeginUpdate
  <2> DEFINE x == [NotBegun EXCEPT !.pc = "look up", !.current = binary.version,
                                   !.byPath = byPath, !.force = force]
  <2>2. x \in Update /\ x.pc = "look up" /\ x.current = binary.version
    <3>1. binary.version \in Version
      BY <1>1
    <3> HIDE DEF Version
    <3>2. LocalBuild \in Version
      BY DEF Version
    <3> QED BY <3>1, <3>2 DEF NotBegun, Update
  <2> HIDE DEF x
  <2> QED BY <1>1, <1>2, <1>3, <1>5, <2>1, <2>2 DEF BeginUpdate, x
<1>6. CASE LookUp(u)
  <2> DEFINE x == [r EXCEPT !.pc = "decide", !.tag = latest]
  <2>1. x \in Update /\ x.pc = "decide" /\ x.tag = latest /\ x.current = r.current
    BY <1>1 DEF Update
  <2>2. update' = [update EXCEPT ![u] = x]
    BY <1>1, <1>6 DEF LookUp
  <2>3. Running(u)
    BY <1>6 DEF LookUp, Running, InUpdate
  <2> HIDE DEF x
  <2> QED BY <1>1, <1>2, <1>3, <1>6, <2>1, <2>2, <2>3 DEF LookUp
<1>7. CASE LookUpFails(u)
  BY <1>1, <1>3, <1>4, <1>7 DEF LookUpFails
<1>8. CASE Decide(u)
  <2>1. Running(u) /\ r.tag \in Tags
    BY <1>1, <1>8 DEF Decide, Running, InUpdate
  <2>2. UpdateGoes(u, "kept") \/ (UpdateGoes(u, "create") /\ Decided(r))
    BY <1>8, CompareIsANumber DEF Decide, Decided
  <2> QED BY <1>1, <1>3, <1>4, <1>8, <2>1, <2>2 DEF Decide
<1>9. CASE CreateDownload(u)
  <2>1. Running(u) /\ r.tag \in Tags /\ Decided(r)
    BY <1>1, <1>9 DEF CreateDownload, Running, InUpdate
  <2> QED BY <1>1, <1>3, <1>4, <1>9, <2>1 DEF CreateDownload
<1>10. CASE Download(u)
  <2> DEFINE x == [r EXCEPT !.pc = "install"]
  <2>1. /\ x \in Update /\ x.pc = "install" /\ x.tag = r.tag /\ x.current = r.current
        /\ x.byPath = r.byPath /\ x.force = r.force
    BY <1>1 DEF Update
  <2>2. Running(u) /\ r.tag \in Tags /\ Decided(r)
    BY <1>1, <1>10 DEF Download, Running, InUpdate
  <2>3. HasTag(x) /\ IsDecided(x)
    BY <2>1, <2>2 DEF Decided
  <2>4. update' = [update EXCEPT ![u] = x]
    BY <1>1, <1>10 DEF Download, UpdateGoes
  <2> HIDE DEF x
  <2> QED BY <1>1, <1>2, <1>10, <2>1, <2>2, <2>3, <2>4 DEF Download
<1>11. CASE DownloadFails(u)
  BY <1>1, <1>4, <1>11 DEF DownloadFails
<1>12. CASE UpdateKilled(u)
  BY <1>1, <1>4, <1>12 DEF UpdateKilled
<1>13. CASE Install(u)
  <2>1. r.pc = "install" /\ r.tag \in Tags /\ download[u] = "whole"
    BY <1>1, <1>13 DEF Install, InUpdate
  <2>2. binary' = [version |-> r.tag, whole |-> TRUE]
    BY <1>13, <2>1 DEF Install
  <2> DEFINE x == [r EXCEPT !.pc = "updated"]
  <2>3. x \in Update /\ x.pc = "updated"
    BY <1>1 DEF Update
  <2>4. /\ update' \in [Updates -> Update] /\ update'[u] = x
        /\ \A v \in Updates \ {u} : update'[v] = update[v]
    BY <1>1, <1>13, <2>3 DEF Install, UpdateGoes
  <2>5. /\ download' \in [Updates -> {"absent", "torn", "whole"}]
        /\ \A v \in Updates \ {u} : download'[v] = download[v]
    BY <1>1, <1>13 DEF Install
  <2>6. UpdateTypeOK'
    <3>1. binary' \in [version : Version, whole : BOOLEAN]
      BY <2>1, <2>2
    <3>2. disturbed' \subseteq Updates /\ latest' \in Tags
      BY <1>1, <1>13 DEF Install
    <3>3. \A v \in Updates : HasTag(update'[v])
      BY <1>1, <2>3, <2>4
    <3> QED BY <2>4, <2>5, <3>1, <3>2, <3>3 DEF UpdateTypeOK, Update
  <2>7. \A v \in Updates : update'[v].pc = "install" => download'[v] = "whole"
    BY <1>1, <2>3, <2>4, <2>5 DEF InUpdate
  <2>8. \A v \in Updates \ disturbed' : ~Running(v)'
    BY <1>13, <2>3, <2>4 DEF Install, Running
  <2>9. \A v \in Updates : IsDecided(update'[v])
    BY <1>1, <2>3, <2>4
  <2>10. InstalledIsWhole'
    BY <2>2 DEF InstalledIsWhole
  <2> QED BY <2>6, <2>7, <2>8, <2>9, <2>10 DEF UpdateInv, InUpdate
<1> QED BY <1>5, <1>6, <1>7, <1>8, <1>9, <1>10, <1>11, <1>12, <1>13 DEF UpdateStep

LEMMA UpdateNextKeepsInv ==
  ASSUME UpdateInv, UpdateNext
  PROVE  UpdateInv'
<1>1. CASE Publish
  BY <1>1 DEF Publish, UpdateInv, UpdateTypeOK, InstalledIsWhole, InUpdate, Running
<1> QED BY <1>1, UpdateStepKeepsInv DEF UpdateNext

-----------------------------------------------------------------------------
(* What is put in the place of what. *)

\* A step under the invariant replaces the binary only as NewerReplacesOlder says.
LEMMA ReplacesOlder ==
  ASSUME UpdateInv, UpdateNext, NEW u \in Updates, Replaces(u), u \notin disturbed
  PROVE  IF binary.version = LocalBuild THEN update[u].force
         ELSE update[u].byPath => Weight(binary'.version) > Weight(binary.version)
<1> DEFINE r == update[u]
<1>1. /\ r.current = binary.version /\ r.tag \in Tags /\ Decided(r)
      /\ binary.version \in Tags \cup {LocalBuild}
  BY DEF UpdateInv, UpdateTypeOK, Replaces, InUpdate, Running
<1>2. binary'.version = r.tag
  <2>1. update \in [Updates -> [pc : {"not begun", "look up", "decide", "create", "download",
                                 "install", "kept", "updated", "failed", "killed"},
                            current : Tags \cup {LocalBuild}, byPath : BOOLEAN, force : BOOLEAN,
                            tag : Tags \cup {LocalBuild}]]
    BY DEF UpdateInv, UpdateTypeOK
  <2>2. r.pc = "install" /\ update'[u].pc = "updated"
    BY DEF Replaces, InUpdate
  <2>3. PICK v \in Updates : UpdateStep(v)
    BY <2>2 DEF UpdateNext, Publish
  <2>4. v = u
    BY <2>1, <2>2, <2>3 DEF UpdateStep, BeginUpdate, LookUp, LookUpFails, Decide, CreateDownload,
       Download, DownloadFails, Install, UpdateKilled, UpdateGoes, NotBegun
  <2>5. Install(u)
    BY <2>1, <2>2, <2>3, <2>4 DEF UpdateStep, BeginUpdate, LookUp, LookUpFails, Decide,
       CreateDownload, Download, DownloadFails, UpdateKilled, UpdateGoes, InUpdate
  <2> QED BY <2>5 DEF Install
<1>3. CASE binary.version = LocalBuild
  BY <1>1, <1>3 DEF Decided
<1>4. CASE binary.version # LocalBuild /\ r.byPath
  <2>1. binary.version \in Tags /\ Compare(binary.version, r.tag) < 0
    BY <1>1, <1>4 DEF Decided
  <2>2. Weight(binary.version) < Weight(r.tag)
    BY <1>1, <2>1, OlderWeighsLess
  <2>3. Weight(binary.version) \in Nat /\ Weight(r.tag) \in Nat
    BY <1>1, <2>1, WeightsAreNumbers
  <2> QED BY <1>2, <1>4, <2>2, <2>3
<1> QED BY <1>3, <1>4

-----------------------------------------------------------------------------
(* The profile store. *)

USE StoreAssumption

\* What a command has read or made by the time a step needs it; held is what is in its
\* temporary file, which is a document before it gets the name of a profile.
CommandOK(r, held) ==
  /\ r \in Command
  /\ r.pc \in {"truncate", "fill"} => r.name \in Names
  /\ r.pc \in {"temp", "write", "rename"} => r.doc \in Document
  /\ r.pc = "load" => r.model \in Models
  /\ r.pc = "rename" => held \in Document

StoreInv ==
  /\ TypeOK
  /\ \A s \in Shells : CommandOK(cli[s], temporary[s])
  /\ ProfilesAreWhole

LEMMA DocumentsAreNotTorn == Torn \notin Document /\ Absent # Torn /\ Invalid # Torn
  BY DEF Torn, Absent, Invalid, Document

LEMMA RootIsAPlace == 0 \in Places
  BY DEF Places

\* A command that is over, or has just begun, has what it needs.
LEMMA OverIsOK ==
  ASSUME NEW what \in {"none", "done", "failed", "unwritten", "killed", "plain", "nothing",
                       "malformed"}, NEW held
  PROVE  CommandOK(Over(what), held)
<1>1. Over(what) \in Command /\ Over(what).pc = "idle"
  BY RootIsAPlace DEF Over, Idle, Command
<1> QED BY <1>1 DEF CommandOK

LEMMA FirstStatesAreOK ==
  ASSUME NEW held
  PROVE  /\ \A n \in Names, force \in BOOLEAN : CommandOK(Creation(n, force), held)
         /\ \A n \in Names, m \in Models : CommandOK(ModelChange(n, m), held)
         /\ \A n \in Names : CommandOK(Deletion(n), held)
         /\ \A n \in Names, p \in Places : CommandOK(Selection(n, p), held)
         /\ \A p \in Places : CommandOK(Unselection(p), held)
         /\ \A c \in {"launch", "run"}, p \in Places : CommandOK(Launching(c, p), held)
<1>1. ASSUME NEW n \in Names, NEW force \in BOOLEAN
      PROVE  CommandOK(Creation(n, force), held)
  BY RootIsAPlace DEF Creation, CommandOK, Command, Idle
<1>2. ASSUME NEW n \in Names, NEW m \in Models
      PROVE  CommandOK(ModelChange(n, m), held)
  BY RootIsAPlace DEF ModelChange, CommandOK, Command, Idle
<1>3. ASSUME NEW n \in Names
      PROVE  CommandOK(Deletion(n), held)
  BY RootIsAPlace DEF Deletion, CommandOK, Command, Idle
<1>4. ASSUME NEW n \in Names, NEW p \in Places
      PROVE  CommandOK(Selection(n, p), held)
  BY RootIsAPlace DEF Selection, CommandOK, Command, Idle
<1>5. ASSUME NEW p \in Places
      PROVE  CommandOK(Unselection(p), held)
  BY RootIsAPlace DEF Unselection, CommandOK, Command, Idle
<1>6. ASSUME NEW c \in {"launch", "run"}, NEW p \in Places
      PROVE  CommandOK(Launching(c, p), held)
  BY RootIsAPlace DEF Launching, CommandOK, Command, Idle
<1> QED BY <1>1, <1>2, <1>3, <1>4, <1>5, <1>6

\* A step of one command leaves the others as they are.
LEMMA OneCommandMoves ==
  ASSUME StoreInv, NEW s \in Shells, NEW r, Becomes(s, r), CommandOK(r, temporary'[s]),
         \A t \in Shells \ {s} : temporary'[t] = temporary[t]
  PROVE  /\ cli' \in [Shells -> Command]
         /\ \A t \in Shells : CommandOK(cli'[t], temporary'[t])
<1>1. /\ cli \in [Shells -> Command]
      /\ \A t \in Shells : CommandOK(cli[t], temporary[t])
  BY DEF StoreInv, TypeOK
<1>2. r \in Command
  BY DEF CommandOK
<1>3. cli' \in [Shells -> Command] /\ cli'[s] = r /\ \A t \in Shells \ {s} : cli'[t] = cli[t]
  BY <1>1, <1>2 DEF Becomes
<1> QED BY <1>1, <1>3

\* A command begins: no file changes.
LEMMA BeginKeepsStore ==
  ASSUME StoreInv, NEW s \in Shells, Begin(s)
  PROVE  StoreInv'
<1>1. UNCHANGED files
  BY DEF Begin
<1>2. \E r : Becomes(s, r) /\ CommandOK(r, temporary'[s])
  BY FirstStatesAreOK DEF Begin
<1>4. /\ cli' \in [Shells -> Command]
      /\ \A t \in Shells : CommandOK(cli'[t], temporary'[t])
  BY <1>1, <1>2, OneCommandMoves DEF files
<1>5. commands' \in [Shells -> Nat] /\ \A t \in Shells : commands'[t] <= MaxCommands[t]
  BY DEF Begin, StoreInv, TypeOK
<1> QED BY <1>1, <1>4, <1>5 DEF StoreInv, TypeOK, ProfilesAreWhole, files

\* The steps that leave every file as it is.
LEMMA ReadingKeepsStore ==
  ASSUME StoreInv, NEW s \in Shells, UNCHANGED <<files, commands>>,
         Check(s) \/ Source(s) \/ Load(s) \/ FillUnlinked(s) \/ Search(s) \/ Read(s)
  PROVE  StoreInv'
<1> DEFINE c == cli[s]
<1>1. c \in Command /\ CommandOK(c, temporary[s])
  BY DEF StoreInv, TypeOK
<1>2. ASSUME NEW r, Becomes(s, r), CommandOK(r, temporary[s])
      PROVE  StoreInv'
  <2>1. /\ cli' \in [Shells -> Command]
        /\ \A t \in Shells : CommandOK(cli'[t], temporary'[t])
    BY <1>2, OneCommandMoves DEF files
  <2> QED BY <2>1 DEF StoreInv, TypeOK, ProfilesAreWhole, files
<1>3. CASE \E what \in {"failed", "done", "plain", "nothing", "malformed"} : Reports(s, what)
  BY <1>2, <1>3, OverIsOK DEF Reports
<1>4. CASE Check(s)
  <2>1. CASE Goes(s, "source")
    <3>1. CommandOK([c EXCEPT !.pc = "source"], temporary[s])
      BY <1>1 DEF CommandOK, Command
    <3> QED BY <1>2, <2>1, <3>1 DEF Goes
  <2> QED BY <1>3, <1>4, <2>1 DEF Check
<1>5. CASE Source(s)
  <2>1. ASSUME NEW d \in Document, Becomes(s, [c EXCEPT !.pc = "temp", !.doc = d])
        PROVE  StoreInv'
    BY <1>1, <1>2, <2>1 DEF CommandOK, Command
  <2> QED BY <1>3, <1>5, <2>1 DEF Source
<1>6. CASE Load(s)
  <2> DEFINE d == [profiles[c.name] EXCEPT !.model = c.model]
             r == [c EXCEPT !.pc = "temp", !.doc = d]
  <2>1. CASE Reports(s, "failed")
    BY <1>3, <2>1
  <2>2. CASE profiles[c.name] \in Document /\ Becomes(s, r)
    <3>1. c.model \in Models
      BY <1>1, <1>6 DEF CommandOK, Load, At
    <3>2. d \in Document
      BY <2>2, <3>1 DEF Document
    <3>3. CommandOK(r, temporary[s])
      BY <1>1, <3>2 DEF CommandOK, Command
    <3> QED BY <1>2, <2>2, <3>3
  <2> QED BY <1>6, <2>1, <2>2 DEF Load
<1>7. CASE FillUnlinked(s)
  BY <1>3, <1>7 DEF FillUnlinked
<1>8. CASE Search(s)
  <2> DEFINE p == c.place
  <2>1. p \in Places /\ markers[p] \in {"absent"} \cup Unreadable \cup Names
    BY <1>1 DEF Command, StoreInv, TypeOK
  <2>2. CASE Reports(s, "plain") \/ Reports(s, "malformed") \/ Reports(s, "nothing")
    BY <1>3, <2>2
  <2>3. CASE p # 0 /\ Becomes(s, [c EXCEPT !.place = p - 1])
    <3>1. p - 1 \in Places
      BY <2>1, <2>3 DEF Places
    <3>2. CommandOK([c EXCEPT !.place = p - 1], temporary[s])
      BY <1>1, <1>8, <3>1 DEF CommandOK, Command, Search, At
    <3> QED BY <1>2, <2>3, <3>2
  <2>4. CASE markers[p] \in Names /\ Becomes(s, [c EXCEPT !.pc = "read", !.name = markers[p]])
    <3>1. ASSUME NEW n \in Names
          PROVE  [c EXCEPT !.pc = "read", !.name = n] \in {r \in Command : r.pc = "read"}
      BY <1>1 DEF Command
    <3> QED BY <1>2, <2>4, <3>1 DEF CommandOK
  <2> QED BY <1>8, <2>1, <2>2, <2>3, <2>4 DEF Search, Unresolved
<1>9. CASE Read(s)
  BY <1>3, <1>9 DEF Read
<1> QED BY <1>4, <1>5, <1>6, <1>7, <1>8, <1>9

\* The steps that change a temporary file or the one it replaces.
LEMMA WritingKeepsStore ==
  ASSUME StoreInv, NEW s \in Shells, CreateTemp(s) \/ WriteTemp(s) \/ WriteFails(s) \/ Rename(s)
  PROVE  StoreInv'
<1> DEFINE c == cli[s]
<1>1. c \in Command /\ CommandOK(c, temporary[s]) /\ temporary \in [Shells -> {Absent, Torn} \cup Document]
  BY DEF StoreInv, TypeOK
<1>2. ASSUME NEW r, Becomes(s, r), NEW file \in {Absent, Torn} \cup Document,
             CommandOK(r, file), temporary' = [temporary EXCEPT ![s] = file],
             UNCHANGED <<markers, commands>>,
             profiles' \in [Names -> {Absent, Invalid} \cup Document]
      PROVE  StoreInv'
  <2>1. /\ temporary' \in [Shells -> {Absent, Torn} \cup Document]
        /\ temporary'[s] = file
        /\ \A t \in Shells \ {s} : temporary'[t] = temporary[t]
    BY <1>1, <1>2
  <2>2. /\ cli' \in [Shells -> Command]
        /\ \A t \in Shells : CommandOK(cli'[t], temporary'[t])
    BY <1>2, <2>1, OneCommandMoves
  <2>3. TypeOK'
    BY <1>2, <2>1, <2>2 DEF StoreInv, TypeOK
  <2>4. ProfilesAreWhole'
    BY <1>2, DocumentsAreNotTorn DEF ProfilesAreWhole
  <2> QED BY <2>2, <2>3, <2>4 DEF StoreInv
<1>3. profiles \in [Names -> {Absent, Invalid} \cup Document]
  BY DEF StoreInv, TypeOK, ProfilesAreWhole
<1>4. temporary = [temporary EXCEPT ![s] = temporary[s]]
  BY <1>1
<1>5. CASE CreateTemp(s)
  <2>1. CASE temporary' = [temporary EXCEPT ![s] = Torn] /\ Goes(s, "write")
    <3>1. CommandOK([c EXCEPT !.pc = "write"], Torn)
      BY <1>1, <1>5 DEF CreateTemp, At, CommandOK, Command
    <3> QED BY <1>2, <1>3, <1>5, <2>1, <3>1 DEF CreateTemp, Goes
  <2>2. CASE UNCHANGED temporary /\ Reports(s, "failed")
    BY <1>1, <1>2, <1>3, <1>4, <1>5, <2>2, OverIsOK DEF CreateTemp, Reports
  <2> QED BY <1>5, <2>1, <2>2 DEF CreateTemp
<1>6. CASE WriteTemp(s)
  <2>1. c.doc \in Document
    BY <1>1, <1>6 DEF WriteTemp, At, CommandOK
  <2>2. CommandOK([c EXCEPT !.pc = "rename"], c.doc)
    BY <1>1, <2>1 DEF CommandOK, Command
  <2> QED BY <1>2, <1>3, <1>6, <2>1, <2>2 DEF WriteTemp, Goes
<1>7. CASE WriteFails(s)
  BY <1>2, <1>3, <1>7, OverIsOK DEF WriteFails, Reports
<1>8. CASE Rename(s)
  <2>1. temporary[s] \in Document
    BY <1>1, <1>8 DEF Rename, At, CommandOK
  <2>2. profiles' \in [Names -> {Absent, Invalid} \cup Document]
    BY <1>3, <1>8, <2>1 DEF Rename
  <2> QED BY <1>2, <1>8, <2>2, OverIsOK DEF Rename, Reports
<1> QED BY <1>5, <1>6, <1>7, <1>8

\* The steps that change a marker, or remove a file, or are taken by no command's will.
LEMMA MarkingKeepsStore ==
  ASSUME StoreInv, NEW s \in Shells,
         Delete(s) \/ Truncate(s) \/ Fill(s) \/ Unset(s) \/ Killed(s)
  PROVE  StoreInv'
<1> DEFINE c == cli[s]
<1>1. /\ c \in Command /\ CommandOK(c, temporary[s])
      /\ cli \in [Shells -> Command]
      /\ \A t \in Shells : CommandOK(cli[t], temporary[t])
      /\ temporary \in [Shells -> {Absent, Torn} \cup Document]
      /\ markers \in [Places -> {"absent"} \cup Unreadable \cup Names]
      /\ profiles \in [Names -> {Absent, Invalid} \cup Document]
  BY DEF StoreInv, TypeOK, ProfilesAreWhole
<1>2. ASSUME cli' \in [Shells -> Command],
             \A t \in Shells : CommandOK(cli'[t], temporary'[t]),
             temporary' \in [Shells -> {Absent, Torn} \cup Document],
             markers' \in [Places -> {"absent"} \cup Unreadable \cup Names],
             profiles' \in [Names -> {Absent, Invalid} \cup Document],
             UNCHANGED commands
      PROVE  StoreInv'
  <2>1. ProfilesAreWhole'
    BY <1>2, DocumentsAreNotTorn DEF ProfilesAreWhole
  <2> QED BY <1>2, <2>1 DEF StoreInv, TypeOK
<1>3. ASSUME NEW r, Becomes(s, r), CommandOK(r, temporary[s]), UNCHANGED temporary
      PROVE  /\ cli' \in [Shells -> Command]
             /\ \A t \in Shells : CommandOK(cli'[t], temporary'[t])
  BY <1>3, OneCommandMoves
<1>4. CASE Delete(s)
  <2>1. profiles' \in [Names -> {Absent, Invalid} \cup Document]
    BY <1>1, <1>4 DEF Delete
  <2>2. Reports(s, "failed") \/ Reports(s, "done")
    BY <1>4 DEF Delete
  <2> QED BY <1>1, <1>2, <1>3, <1>4, <2>1, <2>2, OverIsOK DEF Delete, Reports
<1>5. CASE Truncate(s)
  <2>1. c.name \in Names
    BY <1>1, <1>5 DEF Truncate, At, CommandOK
  <2>2. CommandOK([c EXCEPT !.pc = "fill"], temporary[s])
    BY <1>1, <2>1 DEF CommandOK, Command
  <2>3. markers' \in [Places -> {"absent"} \cup Unreadable \cup Names]
    BY <1>1, <1>5 DEF Truncate, Unreadable
  <2> QED BY <1>1, <1>2, <1>3, <1>5, <2>2, <2>3 DEF Truncate, Goes
<1>6. CASE Fill(s)
  <2>1. c.name \in Names
    BY <1>1, <1>6 DEF Fill, At, CommandOK
  <2>2. \A held \in Overlaid(c.name, markers[c.place]) : held \in Unreadable \cup Names
    BY <2>1 DEF Overlaid, Unreadable
  <2>3. markers' \in [Places -> {"absent"} \cup Unreadable \cup Names]
    BY <1>1, <1>6, <2>2 DEF Fill
  <2>4. Reports(s, "done") \/ Reports(s, "unwritten")
    BY <1>6 DEF Fill
  <2> QED BY <1>1, <1>2, <1>3, <1>6, <2>3, <2>4, OverIsOK DEF Fill, Reports
<1>7. CASE Unset(s)
  <2>1. markers' \in [Places -> {"absent"} \cup Unreadable \cup Names]
    BY <1>1, <1>7 DEF Unset
  <2>2. \A t \in Shells : CommandOK(cli'[t], temporary[t])
    <3> SUFFICES ASSUME NEW t \in Shells
                 PROVE  CommandOK(cli'[t], temporary[t])
      OBVIOUS
    <3>1. CASE cli'[t] = Over("done")
      BY <3>1, OverIsOK
    <3>2. CASE cli'[t] = [cli[t] EXCEPT !.pc = "unlinked"]
      BY <1>1, <3>2 DEF CommandOK, Command
    <3>3. CASE cli'[t] = cli[t]
      BY <1>1, <3>3
    <3> QED BY <1>7, <3>1, <3>2, <3>3 DEF Unset
  <2>3. cli' \in [Shells -> Command]
    <3>1. DOMAIN cli' = Shells /\ cli' = [t \in Shells |-> cli'[t]]
      BY <1>7 DEF Unset
    <3> QED BY <2>2, <3>1 DEF CommandOK
  <2> QED BY <1>1, <1>2, <1>7, <2>1, <2>2, <2>3 DEF Unset
<1>8. CASE Killed(s)
  <2>1. /\ temporary' \in [Shells -> {Absent, Torn} \cup Document]
        /\ \A t \in Shells \ {s} : temporary'[t] = temporary[t]
    BY <1>1, <1>8 DEF Killed
  <2>2. /\ cli' \in [Shells -> Command]
        /\ \A t \in Shells : CommandOK(cli'[t], temporary'[t])
    BY <1>8, <2>1, OneCommandMoves, OverIsOK DEF Killed, Reports
  <2> QED BY <1>1, <1>2, <1>8, <2>1, <2>2 DEF Killed
<1> QED BY <1>4, <1>5, <1>6, <1>7, <1>8

\* The command line's steps on the store, each by one of the lemmas above.
LEMMA NextKeepsStore ==
  ASSUME StoreInv, Next
  PROVE  StoreInv'
<1>1. PICK s \in Shells : Begin(s) \/ Step(s) \/ Killed(s)
  BY DEF Next
<1>2. CASE Begin(s)
  BY <1>2, BeginKeepsStore
<1>3. CASE Check(s) \/ Source(s) \/ Load(s) \/ FillUnlinked(s) \/ Search(s) \/ Read(s)
  <2>1. UNCHANGED <<files, commands>>
    BY <1>3 DEF Check, Source, Load, FillUnlinked, Search, Read
  <2> QED BY <1>3, <2>1, ReadingKeepsStore
<1>4. CASE CreateTemp(s) \/ WriteTemp(s) \/ WriteFails(s) \/ Rename(s)
  BY <1>4, WritingKeepsStore
<1>5. CASE Delete(s) \/ Truncate(s) \/ Fill(s) \/ Unset(s) \/ Killed(s)
  BY <1>5, MarkingKeepsStore
<1> QED BY <1>1, <1>2, <1>3, <1>4, <1>5 DEF Step

\* What is there at first.
LEMMA InitIsStoreInv ==
  ASSUME Init
  PROVE  StoreInv
<1>1. TypeOK
  <2>1. Idle \in Command
    BY RootIsAPlace DEF Idle, Command
  <2>2. /\ profiles \in [Names -> {Absent, Invalid, Torn} \cup Document]
        /\ markers \in [Places -> {"absent"} \cup Unreadable \cup Names]
    BY DEF Init
  <2>3. commands \in [Shells -> Nat] /\ \A s \in Shells : commands[s] <= MaxCommands[s]
    BY DEF Init
  <2>4. cli \in [Shells -> Command] /\ temporary \in [Shells -> {Absent, Torn} \cup Document]
    BY <2>1 DEF Init
  <2> QED BY <2>2, <2>3, <2>4 DEF TypeOK
<1>2. \A s \in Shells : CommandOK(cli[s], temporary[s])
  BY RootIsAPlace DEF Init, CommandOK, Idle, Command
<1>3. ProfilesAreWhole
  BY DocumentsAreNotTorn DEF Init, ProfilesAreWhole
<1> QED BY <1>1, <1>2, <1>3 DEF StoreInv

-----------------------------------------------------------------------------
(* The invariant of the three parts. *)

CommandInv == StoreInv /\ HooksTypeOK /\ UpdateInv

\* A step of one part leaves the others' invariants alone.
LEMMA CommandInvHolds == CommandSpec => []CommandInv
<1>1. CommandInit => CommandInv
  BY InitIsStoreInv, HooksInitIsTyped, UpdateInitIsInv DEF CommandInit, CommandInv
<1>2. CommandInv /\ [CommandNext]_commandVars => CommandInv'
  <2> SUFFICES ASSUME CommandInv, [CommandNext]_commandVars
               PROVE  CommandInv'
    OBVIOUS
  <2>1. ASSUME UNCHANGED vars
        PROVE  StoreInv'
    BY <2>1 DEF CommandInv, StoreInv, TypeOK, ProfilesAreWhole, vars
  <2>2. ASSUME UNCHANGED hooksVars
        PROVE  HooksTypeOK'
    BY <2>2 DEF CommandInv, HooksTypeOK, hooksVars
  <2>3. ASSUME UNCHANGED updateVars
        PROVE  UpdateInv'
    BY <2>3 DEF CommandInv, UpdateInv, UpdateTypeOK, InstalledIsWhole, InUpdate, Running, updateVars
  <2>4. CASE UNCHANGED commandVars
    BY <2>1, <2>2, <2>3, <2>4 DEF CommandInv, commandVars
  <2>5. CASE Next /\ UNCHANGED <<hooksVars, updateVars>>
    BY <2>2, <2>3, <2>5, NextKeepsStore DEF CommandInv
  <2>6. CASE HooksNext /\ UNCHANGED <<vars, updateVars>>
    BY <2>1, <2>3, <2>6, HooksNextIsTyped DEF CommandInv
  <2>7. CASE UpdateNext /\ UNCHANGED <<vars, hooksVars>>
    BY <2>1, <2>2, <2>7, UpdateNextKeepsInv DEF CommandInv
  <2> QED BY <2>4, <2>5, <2>6, <2>7 DEF CommandNext
<1> QED BY <1>1, <1>2, PTL DEF CommandSpec

\* The variables have their types, however many shells, runs and updates there are: in
\* particular no part of a file is ever in a command's memory (setProfileModel and
\* buildClaudeCommand read whole files), and no run looks past the last rc file.
THEOREM CommandsAreTyped == CommandSpec => []CommandTypes
<1>1. CommandInv => CommandTypes
  BY DEF CommandInv, StoreInv, UpdateInv, CommandTypes
<1> QED BY <1>1, CommandInvHolds, PTL

\* A profile is all of what some command wrote, or not there, and the installed binary is
\* a whole release, whatever fails half way, whichever process is killed and however many
\* commands and updates run at once (writeProfileFile, replaceBinary).
THEOREM RenamedFilesAreWhole == CommandSpec => []ReplacedFilesAreWhole
<1>1. CommandInv => ReplacedFilesAreWhole
  BY DEF CommandInv, StoreInv, UpdateInv, ReplacedFilesAreWhole
<1> QED BY <1>1, CommandInvHolds, PTL

\* However releases are published and withdrawn, an update that no other one overtakes puts
\* a newer release in the place of the one it runs, and replaces a local build only when
\* that is asked for (updateCLI, compareVersions).
THEOREM UpdatesReplaceOlder == CommandSpec => NewerReplacesOlder
<1> DEFINE A == \A u \in Updates :
                  Replaces(u) /\ u \notin disturbed =>
                    IF binary.version = LocalBuild THEN update[u].force
                    ELSE update[u].byPath => Weight(binary'.version) > Weight(binary.version)
<1>1. CommandInv /\ [CommandNext]_commandVars => [A]_updateVars
  <2> SUFFICES ASSUME CommandInv, [CommandNext]_commandVars, ~UNCHANGED updateVars
               PROVE  A
    OBVIOUS
  <2>1. UpdateNext
    BY DEF CommandNext, commandVars
  <2> QED BY <2>1, ReplacesOlder DEF CommandInv
<1> QED BY <1>1, CommandInvHolds, PTL DEF CommandSpec, NewerReplacesOlder

-----------------------------------------------------------------------------
(* What the profile commands know of the past. *)

\* A command that is to change a profile has looked at what it held since it began; held
\* is what it held at any time since, file what is in the temporary file.
EffectKnown(r, held, file) ==
  /\ r.pc # "idle" => r.report = "none"
  /\ r.cmd \in {"create", "model"} => r.name \in Names
  /\ r.pc \in {"check", "source"} => r.cmd = "create"
  /\ r.pc = "load" => r.cmd = "model"
  /\ r.cmd = "create" /\ r.pc \in {"source", "temp", "write", "rename"} =>
       r.force \/ Absent \in held
  /\ r.cmd = "model" /\ r.pc \in {"temp", "write", "rename"} =>
       \E d \in held \cap Document : r.doc = [d EXCEPT !.model = r.model]
  /\ r.pc = "rename" => file = r.doc

\* The places a search has passed, and the markers as they were when it did.
Passed(r) == r.place + 1 .. r.from

AsPassed(m, r) == [q \in Places |-> IF q \in Passed(r) THEN "absent" ELSE m[q]]

\* Unless two markers changed, those it passed and that did not change are still not there,
\* and with the others as they were it would have found at some moment what it will find.
SearchKnown(r, m, since) ==
  r.pc = "search" =>
    /\ r.place <= r.from
    /\ \/ \E p, q \in since.touched : p # q
       \/ /\ \A q \in Passed(r) \ since.touched : m[q] = "absent"
          /\ Resolved(AsPassed(m, r), r.from) \in since.answers

Filling(s, p) == At(s, "fill") /\ cli[s].place = p

\* A marker that cannot be read is about to be written by the one command that emptied it.
MarkersKnown ==
  history.interrupted \/
    \A p \in Places \ history.crossed :
      /\ \A s \in Shells : Filling(s, p) =>
           markers[p] = "empty" /\ \A t \in Shells : Filling(t, p) => s = t
      /\ markers[p] \in Unreadable => \E s \in Shells : Filling(s, p)

PastInv ==
  /\ MarkersKnown
  /\ \A s \in Shells : /\ EffectKnown(cli[s], history.since[s].contents, temporary[s])
                       /\ SearchKnown(cli[s], markers, history.since[s])

\* A search by itself ends at the nearest marker that is there.
LEMMA ResolvedAt ==
  ASSUME NEW m, NEW from \in Nat, NEW p \in 0 .. from, m[p] # "absent",
         \A q \in p + 1 .. from : m[q] = "absent"
  PROVE  Resolved(m, from) = IF m[p] \in Names THEN m[p] ELSE "malformed"
<1> DEFINE set == {q \in 0 .. from : m[q] # "absent"}
           last == CHOOSE q \in set : \A r \in set : r <= q
<1>1. p \in set /\ \A r \in set : r <= p
  OBVIOUS
<1>2. last \in set /\ \A r \in set : r <= last
  <2> HIDE DEF set
  <2> QED BY <1>1
<1>3. last = p
  <2>1. last <= p /\ p <= last /\ last \in Nat
    BY <1>1, <1>2
  <2> HIDE DEF last
  <2> QED BY <2>1
<1>4. set # {}
  BY <1>1
<1>5. Resolved(m, from) = IF m[last] \in Names THEN m[last] ELSE "malformed"
  <2> HIDE DEF set
  <2> QED BY <1>4 DEF Resolved, set
<1> QED BY <1>3, <1>5

\* Or at the root, if there is none.
LEMMA ResolvedNowhere ==
  ASSUME NEW m, NEW from, \A q \in 0 .. from : m[q] = "absent"
  PROVE  Resolved(m, from) = "nothing"
BY DEF Resolved

\* Only unset changes the step another command is at.
LEMMA OthersStay ==
  ASSUME StoreInv, NEW s \in Shells, Begin(s) \/ Step(s) \/ Killed(s), NEW t \in Shells \ {s}
  PROVE  /\ temporary'[t] = temporary[t]
         /\ \/ cli'[t] = cli[t]
            \/ At(t, "fill") /\ cli'[t] = [cli[t] EXCEPT !.pc = "unlinked"]
<1>1. cli \in [Shells -> Command] /\ temporary \in [Shells -> {Absent, Torn} \cup Document]
  BY DEF StoreInv, TypeOK
<1>2. ASSUME NEW r, Becomes(s, r)
      PROVE  cli'[t] = cli[t]
  BY <1>1, <1>2 DEF Becomes
<1>3. CASE Unset(s)
  BY <1>1, <1>3 DEF Unset
<1>4. CASE ~Unset(s)
  <2>1. cli'[t] = cli[t]
    <3>1. \E r : Becomes(s, r)
      BY <1>4 DEF Begin, Step, Killed, Check, Source, Load, CreateTemp, WriteTemp, WriteFails,
                  Rename, Delete, Truncate, Fill, FillUnlinked, Search, Read, Goes, Reports,
                  Unresolved
    <3> QED BY <1>2, <3>1
  <2>2. temporary'[t] = temporary[t]
    BY <1>1, <1>4 DEF Begin, Step, Killed, Check, Source, Load, CreateTemp, WriteTemp, WriteFails,
                  Rename, Delete, Truncate, Fill, FillUnlinked, Search, Read, files
  <2> QED BY <2>1, <2>2
<1> QED BY <1>3, <1>4

\* What the others have passed stays so, unless the marker that changed is one of those
\* they have passed, which is noted.
LEMMA OthersKnow ==
  ASSUME StoreInv, StoreInv', PastInv, NEW s \in Shells, Begin(s) \/ Step(s) \/ Killed(s), Remember,
         NEW t \in Shells \ {s}
  PROVE  /\ EffectKnown(cli'[t], history'.since[t].contents, temporary'[t])
         /\ SearchKnown(cli'[t], markers', history'.since[t])
<1> DEFINE r == cli[t]
           old == history.since[t]
           new == history'.since[t]
<1>1. r \in Command /\ EffectKnown(r, old.contents, temporary[t]) /\ SearchKnown(r, markers, old)
  BY DEF StoreInv, TypeOK, PastInv
<1>2. new = IF cli'[t].pc = "idle" THEN NothingYet ELSE Since(t)
  BY DEF Remember
<1>3. temporary'[t] = temporary[t]
  BY OthersStay
<1>4. CASE cli'[t] = [r EXCEPT !.pc = "unlinked"]
  <2>1. /\ cli'[t].pc = "unlinked" /\ cli'[t].cmd = r.cmd /\ cli'[t].name = r.name
        /\ cli'[t].report = r.report
    BY <1>1, <1>4 DEF Command
  <2>2. CASE r.pc = "fill"
    BY <1>1, <2>1, <2>2 DEF EffectKnown, SearchKnown
  <2>3. CASE r.pc # "fill"
    <3>1. cli'[t] = cli[t]
      BY <2>3, OthersStay DEF At
    <3> QED BY <1>1, <2>1, <3>1 DEF EffectKnown, SearchKnown
  <2> QED BY <2>2, <2>3
<1>5. CASE cli'[t] = r /\ r.pc = "idle"
  BY <1>1, <1>5 DEF EffectKnown, SearchKnown
<1>6. CASE cli'[t] = r /\ r.pc # "idle"
  <2>1. /\ old.contents \subseteq new.contents
        /\ new.touched = old.touched \cup {p \in Places : r.pc = "search" /\ markers'[p] # markers[p]}
        /\ new.answers = old.answers \cup (IF r.pc = "search" THEN {Resolved(markers', r.from)} ELSE {})
    BY <1>2, <1>6 DEF Since, At
  <2>2. EffectKnown(cli'[t], new.contents, temporary'[t])
    BY <1>1, <1>3, <1>6, <2>1 DEF EffectKnown
  <2>3. ASSUME r.pc = "search", ~\E p, q \in new.touched : p # q
        PROVE  /\ \A q \in Passed(r) \ new.touched : markers'[q] = "absent"
               /\ Resolved(AsPassed(markers', r), r.from) \in new.answers
    <3>1. /\ \A q \in Passed(r) \ old.touched : markers[q] = "absent"
          /\ Resolved(AsPassed(markers, r), r.from) \in old.answers
      BY <1>1, <2>1, <2>3 DEF SearchKnown
    <3>2. r.from \in Places /\ r.place \in Places /\ Passed(r) \subseteq Places
      BY <1>1 DEF Command, Places, Passed
    <3>3. \A q \in Passed(r) \ new.touched : markers'[q] = "absent"
      BY <2>1, <2>3, <3>1, <3>2
    <3>4. markers' = [q \in Places |-> markers'[q]]
      BY DEF StoreInv, TypeOK
    <3>5. CASE Passed(r) \cap new.touched = {}
      <4>1. AsPassed(markers', r) = markers'
        BY <3>3, <3>4, <3>5 DEF AsPassed
      <4> QED BY <2>1, <2>3, <3>3, <4>1
    <3>6. CASE Passed(r) \cap new.touched # {}
      <4>1. \A q \in Places \ Passed(r) : markers'[q] = markers[q]
        BY <2>1, <2>3, <3>6
      <4>2. AsPassed(markers', r) = AsPassed(markers, r)
        BY <4>1 DEF AsPassed
      <4> QED BY <2>1, <3>1, <3>3, <4>2
    <3> QED BY <3>5, <3>6
  <2>4. SearchKnown(cli'[t], markers', new)
    <3> HIDE DEF new
    <3> QED BY <1>1, <1>6, <2>3 DEF SearchKnown
  <2> QED BY <2>2, <2>4
<1> QED BY <1>4, <1>5, <1>6, OthersStay

\* A command that is over knows nothing.
LEMMA OverKnows ==
  ASSUME NEW what, NEW held, NEW file, NEW m, NEW since
  PROVE  EffectKnown(Over(what), held, file) /\ SearchKnown(Over(what), m, since)
BY DEF Over, Idle, EffectKnown, SearchKnown

\* A command that begins knows nothing yet and needs nothing.
LEMMA FirstStatesKnow ==
  ASSUME NEW held, NEW file
  PROVE  /\ \A n \in Names, force \in BOOLEAN : EffectKnown(Creation(n, force), held, file)
         /\ \A n \in Names, m \in Models : EffectKnown(ModelChange(n, m), held, file)
         /\ \A n \in Names : EffectKnown(Deletion(n), held, file)
         /\ \A n \in Names, p \in Places : EffectKnown(Selection(n, p), held, file)
         /\ \A p \in Places : EffectKnown(Unselection(p), held, file)
         /\ \A c \in {"launch", "run"}, p \in Places : EffectKnown(Launching(c, p), held, file)
<1>1. ASSUME NEW n \in Names, NEW force \in BOOLEAN
      PROVE  EffectKnown(Creation(n, force), held, file)
  BY DEF Creation, EffectKnown, Idle
<1>2. ASSUME NEW n \in Names, NEW m \in Models
      PROVE  EffectKnown(ModelChange(n, m), held, file)
  BY DEF ModelChange, EffectKnown, Idle
<1>3. ASSUME NEW n \in Names
      PROVE  EffectKnown(Deletion(n), held, file)
  BY DEF Deletion, EffectKnown, Idle
<1>4. ASSUME NEW n \in Names, NEW p \in Places
      PROVE  EffectKnown(Selection(n, p), held, file)
  BY DEF Selection, EffectKnown, Idle
<1>5. ASSUME NEW p \in Places
      PROVE  EffectKnown(Unselection(p), held, file)
  BY DEF Unselection, EffectKnown, Idle
<1>6. ASSUME NEW c \in {"launch", "run"}, NEW p \in Places
      PROVE  EffectKnown(Launching(c, p), held, file)
  BY DEF Launching, EffectKnown, Idle
<1> QED BY <1>1, <1>2, <1>3, <1>4, <1>5, <1>6

\* Only a launch searches, and it begins where it was started.
LEMMA OnlyLaunchesSearch ==
  /\ \A n \in Names, force \in BOOLEAN : Creation(n, force).pc # "search"
  /\ \A n \in Names, m \in Models : ModelChange(n, m).pc # "search"
  /\ \A n \in Names : Deletion(n).pc # "search"
  /\ \A n \in Names, p \in Places : Selection(n, p).pc # "search"
  /\ \A p \in Places : Unselection(p).pc # "search"
  /\ \A c \in {"launch", "run"}, p \in Places :
       Launching(c, p).pc = "search" /\ Launching(c, p).place = p /\ Launching(c, p).from = p
BY DEF Creation, ModelChange, Deletion, Selection, Unselection, Launching, Idle

LEMMA BeginnerKnows ==
  ASSUME StoreInv, PastInv, NEW s \in Shells, Begin(s), Remember
  PROVE  /\ EffectKnown(cli'[s], history'.since[s].contents, temporary'[s])
         /\ SearchKnown(cli'[s], markers', history'.since[s])
<1> DEFINE new == history'.since[s]
<1>1. cli \in [Shells -> Command] /\ UNCHANGED files
  BY DEF Begin, StoreInv, TypeOK
<1>2. \A r : Becomes(s, r) => cli'[s] = r
  BY <1>1 DEF Becomes
<1>3. EffectKnown(cli'[s], new.contents, temporary'[s])
  <2>1. \E r : Becomes(s, r) /\ EffectKnown(r, new.contents, temporary'[s])
    <3> DEFINE held == new.contents
               file == temporary'[s]
    <3> HIDE DEF held, file
    <3>1. \E r : Becomes(s, r) /\ EffectKnown(r, held, file)
      BY FirstStatesKnow DEF Begin
    <3> QED BY <3>1 DEF held, file
  <2> QED BY <1>2, <2>1
<1>4. ASSUME NEW p \in Places, cli'[s].pc = "search", cli'[s].place = p, cli'[s].from = p
      PROVE  SearchKnown(cli'[s], markers', new)
  <2>1. new = Since(s) /\ At(s, "idle")
    BY <1>4 DEF Remember, Begin
  <2>2. new.answers = {Resolved(markers', p)} /\ new.touched = {}
    BY <1>4, <2>1 DEF Since, NothingYet
  <2>3. Passed(cli'[s]) = {} /\ p <= p
    BY <1>4 DEF Passed, Places
  <2>4. AsPassed(markers', cli'[s]) = markers'
    BY <1>1, <2>3 DEF AsPassed, StoreInv, TypeOK, files
  <2> HIDE DEF new
  <2> QED BY <1>4, <2>2, <2>3, <2>4 DEF SearchKnown
<1>5. SearchKnown(cli'[s], markers', new)
  <2>1. \/ cli'[s].pc # "search"
        \/ \E p \in Places : cli'[s].pc = "search" /\ cli'[s].place = p /\ cli'[s].from = p
    BY <1>2, OnlyLaunchesSearch DEF Begin
  <2>2. cli'[s].pc # "search" => SearchKnown(cli'[s], markers', new)
    BY DEF SearchKnown
  <2> QED BY <1>4, <2>1, <2>2
<1> QED BY <1>3, <1>5

\* A search that goes on, past a marker that is not there.
LEMMA SearchGoesOn ==
  ASSUME StoreInv, PastInv, NEW s \in Shells, Search(s), Remember,
         cli[s].place # 0, markers[cli[s].place] = "absent",
         Becomes(s, [cli[s] EXCEPT !.place = cli[s].place - 1])
  PROVE  /\ EffectKnown(cli'[s], history'.since[s].contents, temporary'[s])
         /\ SearchKnown(cli'[s], markers', history'.since[s])
<1> DEFINE r == cli[s]
           p == r.place
           old == history.since[s]
           new == history'.since[s]
<1>1. /\ r \in Command /\ cli \in [Shells -> Command] /\ r.pc = "search"
      /\ EffectKnown(r, old.contents, temporary[s]) /\ SearchKnown(r, markers, old)
      /\ UNCHANGED files
  BY DEF StoreInv, TypeOK, PastInv, Search, At
<1>2. cli'[s] = [r EXCEPT !.place = p - 1]
  BY <1>1 DEF Becomes
<1>3. /\ cli'[s].pc = "search" /\ cli'[s].from = r.from /\ cli'[s].place = p - 1
      /\ cli'[s].cmd = r.cmd /\ cli'[s].name = r.name /\ cli'[s].report = r.report
  BY <1>1, <1>2 DEF Command
<1>4. r.from \in Nat /\ p \in Nat /\ p \in Places /\ p # 0
  BY <1>1 DEF Command, Places
<1>5. new = Since(s)
  BY <1>3 DEF Remember
<1>6. new.touched = old.touched /\ old.answers \subseteq new.answers
  BY <1>1, <1>5 DEF Since, At, files
<1>7. EffectKnown(cli'[s], new.contents, temporary'[s])
  BY <1>1, <1>3 DEF EffectKnown
<1>8. p <= r.from /\ p - 1 <= r.from /\ Passed(cli'[s]) = Passed(r) \cup {p}
  BY <1>1, <1>3, <1>4 DEF Passed, SearchKnown
<1>9. AsPassed(markers', cli'[s]) = AsPassed(markers, r)
  BY <1>1, <1>8 DEF AsPassed, files
<1>10. SearchKnown(cli'[s], markers', new)
  <2> HIDE DEF new, old
  <2> QED BY <1>1, <1>3, <1>6, <1>8, <1>9 DEF SearchKnown, files
<1> QED BY <1>7, <1>10

\* A command that goes on with what it has.
LEMMA GoesOnKnowing ==
  ASSUME NEW r, NEW x, NEW held, NEW more, NEW file, NEW next, EffectKnown(r, held, file),
         held \subseteq more, r.pc # "idle", x.pc \in {"source", "write", "rename", "fill"},
         x.cmd = r.cmd, x.name = r.name, x.report = r.report, x.force = r.force,
         x.doc = r.doc, x.model = r.model,
         x.pc = "source" => r.cmd = "create" /\ Absent \in more,
         x.pc \in {"write", "rename"} => r.pc \in {"temp", "write"},
         x.pc = "rename" => next = r.doc
  PROVE  EffectKnown(x, more, next)
BY DEF EffectKnown

\* What a command knows after a step of its own.
LEMMA ActorKnows ==
  ASSUME StoreInv, StoreInv', PastInv, NEW s \in Shells, Step(s) \/ Killed(s), Remember
  PROVE  /\ EffectKnown(cli'[s], history'.since[s].contents, temporary'[s])
         /\ SearchKnown(cli'[s], markers', history'.since[s])
<1> DEFINE r == cli[s]
           old == history.since[s]
           new == history'.since[s]
<1>1. /\ r \in Command /\ cli \in [Shells -> Command] /\ temporary \in [Shells -> {Absent, Torn} \cup Document]
      /\ EffectKnown(r, old.contents, temporary[s]) /\ SearchKnown(r, markers, old)
      /\ CommandOK(r, temporary[s])
  BY DEF StoreInv, TypeOK, PastInv
<1>2. \A x : Becomes(s, x) => cli'[s] = x
  BY <1>1 DEF Becomes
<1>3. ASSUME NEW what, cli'[s] = Over(what)
      PROVE  /\ EffectKnown(cli'[s], new.contents, temporary'[s])
             /\ SearchKnown(cli'[s], markers', new)
  BY <1>3, OverKnows
<1>4. CASE \E what : cli'[s] = Over(what)
  BY <1>3, <1>4
<1>5. ASSUME r.pc # "idle", cli'[s].pc # "idle"
      PROVE  /\ old.contents \subseteq new.contents
             /\ r.cmd \in {"create", "model"} => profiles'[r.name] \in new.contents
  <2>1. new = Since(s)
    BY <1>5 DEF Remember
  <2> QED BY <1>5, <2>1 DEF Since, At
<1>6. ASSUME NEW pc \in {"source", "write", "rename", "fill"}, cli'[s] = [r EXCEPT !.pc = pc]
      PROVE  /\ cli'[s].pc = pc /\ cli'[s].cmd = r.cmd /\ cli'[s].name = r.name
             /\ cli'[s].report = r.report /\ cli'[s].force = r.force
             /\ cli'[s].doc = r.doc /\ cli'[s].model = r.model
             /\ SearchKnown(cli'[s], markers', new)
  BY <1>1, <1>6 DEF Command, SearchKnown
<1>17. ASSUME NEW pc \in {"source", "write", "rename", "fill"}, cli'[s] = [r EXCEPT !.pc = pc],
              r.pc # "idle",
              pc = "source" => r.cmd = "create" /\ Absent \in new.contents,
              pc \in {"write", "rename"} => r.pc \in {"temp", "write"},
              pc = "rename" => temporary'[s] = r.doc
      PROVE  /\ EffectKnown(cli'[s], new.contents, temporary'[s])
             /\ SearchKnown(cli'[s], markers', new)
  <2>1. /\ cli'[s].pc = pc /\ cli'[s].cmd = r.cmd /\ cli'[s].name = r.name
        /\ cli'[s].report = r.report /\ cli'[s].force = r.force
        /\ cli'[s].doc = r.doc /\ cli'[s].model = r.model
        /\ SearchKnown(cli'[s], markers', new)
    BY <1>6, <1>17
  <2>2. old.contents \subseteq new.contents
    BY <1>5, <1>17, <2>1
  <2> DEFINE x == cli'[s]
             held == old.contents
             more == new.contents
             file == temporary[s]
             next == temporary'[s]
  <2>3. /\ EffectKnown(r, held, file) /\ held \subseteq more /\ r.pc # "idle"
        /\ x.pc \in {"source", "write", "rename", "fill"}
        /\ x.cmd = r.cmd /\ x.name = r.name /\ x.report = r.report /\ x.force = r.force
        /\ x.doc = r.doc /\ x.model = r.model
        /\ x.pc = "source" => r.cmd = "create" /\ Absent \in more
        /\ x.pc \in {"write", "rename"} => r.pc \in {"temp", "write"}
        /\ x.pc = "rename" => next = r.doc
    BY <1>1, <1>17, <2>1, <2>2
  <2>4. EffectKnown(x, more, next)
    <3> HIDE DEF x, held, more, file, next, r
    <3> QED BY <2>3, GoesOnKnowing
  <2> QED BY <2>1, <2>4
<1>7. CASE Check(s)
  <2>1. CASE profiles[r.name] = Absent /\ Goes(s, "source")
    <3>1. r.pc = "check" /\ cli'[s] = [r EXCEPT !.pc = "source"] /\ profiles' = profiles
      BY <1>2, <1>7, <2>1 DEF Check, At, Goes, files
    <3>2. r.cmd = "create" /\ Absent \in new.contents
      BY <1>1, <1>5, <1>6, <2>1, <3>1 DEF EffectKnown
    <3> QED BY <1>17, <3>1, <3>2
  <2> QED BY <1>2, <1>4, <1>7, <2>1 DEF Check, Reports
<1>8. CASE Source(s)
  <2>1. ASSUME NEW d \in Document, Becomes(s, [r EXCEPT !.pc = "temp", !.doc = d])
        PROVE  /\ EffectKnown(cli'[s], new.contents, temporary'[s])
               /\ SearchKnown(cli'[s], markers', new)
    <3>1. r.pc = "source" /\ r.cmd = "create"
      BY <1>1, <1>8 DEF Source, At, EffectKnown
    <3>2. /\ cli'[s].pc = "temp" /\ cli'[s].cmd = r.cmd /\ cli'[s].name = r.name
          /\ cli'[s].report = r.report /\ cli'[s].force = r.force
      <4> DEFINE x == cli'[s]
      <4>1. r \in Command /\ x = [r EXCEPT !.pc = "temp", !.doc = d]
        BY <1>1, <1>2, <2>1
      <4>2. /\ x.pc = "temp" /\ x.doc = d /\ x.cmd = r.cmd /\ x.name = r.name
            /\ x.report = r.report /\ x.force = r.force /\ x.model = r.model
        <5> HIDE DEF x, r
        <5> QED BY <4>1 DEF Command
      <4> QED BY <4>2
    <3>3. old.contents \subseteq new.contents
      BY <1>5, <3>1, <3>2
    <3> HIDE DEF new
    <3> QED BY <1>1, <3>1, <3>2, <3>3 DEF EffectKnown, SearchKnown
  <2> QED BY <1>2, <1>4, <1>8, <2>1 DEF Source, Reports
<1>9. CASE Load(s)
  <2> DEFINE d == profiles[r.name]
             e == [d EXCEPT !.model = r.model]
  <2>1. CASE d \in Document /\ Becomes(s, [r EXCEPT !.pc = "temp", !.doc = e])
    <3>1. r.pc = "load" /\ r.cmd = "model" /\ profiles' = profiles
      BY <1>1, <1>9 DEF Load, At, EffectKnown, files
    <3>2. /\ cli'[s].pc = "temp" /\ cli'[s].cmd = r.cmd /\ cli'[s].name = r.name
          /\ cli'[s].report = r.report /\ cli'[s].model = r.model /\ cli'[s].doc = e
      <4> DEFINE x == cli'[s]
      <4>1. r \in Command /\ x = [r EXCEPT !.pc = "temp", !.doc = e]
        BY <1>1, <1>2, <2>1
      <4>2. /\ x.pc = "temp" /\ x.doc = e /\ x.cmd = r.cmd /\ x.name = r.name
            /\ x.report = r.report /\ x.force = r.force /\ x.model = r.model
        <5> HIDE DEF e, x, r
        <5> QED BY <4>1 DEF Command
      <4> QED BY <4>2
    <3>3. d \in new.contents
      BY <1>5, <3>1, <3>2
    <3>4. r.report = "none" /\ r.name \in Names
      BY <1>1, <3>1 DEF EffectKnown
    <3> DEFINE x == cli'[s]
               more == new.contents
    <3>5. /\ x.pc = "temp" /\ x.report = "none" /\ x.name \in Names /\ x.cmd = "model"
          /\ d \in more \cap Document /\ x.doc = [d EXCEPT !.model = x.model]
      BY <2>1, <3>1, <3>2, <3>3, <3>4
    <3>6. EffectKnown(x, more, temporary'[s]) /\ SearchKnown(x, markers', new)
      <4> HIDE DEF x, more, d, new
      <4> QED BY <3>5 DEF EffectKnown, SearchKnown
    <3> QED BY <3>6
  <2> QED BY <1>2, <1>4, <1>9, <2>1 DEF Load, Reports
<1>10. CASE CreateTemp(s)
  <2>1. CASE Goes(s, "write")
    <3>1. r.pc = "temp" /\ cli'[s] = [r EXCEPT !.pc = "write"]
      BY <1>2, <1>10, <2>1 DEF CreateTemp, At, Goes
    <3> QED BY <1>17, <3>1
  <2> QED BY <1>2, <1>4, <1>10, <2>1 DEF CreateTemp, Reports
<1>11. CASE WriteTemp(s)
  <2>1. r.pc = "write" /\ cli'[s] = [r EXCEPT !.pc = "rename"] /\ temporary'[s] = r.doc
    BY <1>1, <1>2, <1>11 DEF WriteTemp, At, Goes
  <2> QED BY <1>17, <2>1
<1>12. CASE WriteFails(s) \/ Rename(s) \/ Delete(s) \/ FillUnlinked(s) \/ Read(s) \/ Killed(s)
  <2>1. \E what : Reports(s, what)
    BY <1>12 DEF WriteFails, Rename, Delete, FillUnlinked, Read, Killed
  <2> QED BY <1>2, <1>4, <2>1 DEF Reports
<1>13. CASE Truncate(s)
  <2>1. r.pc = "truncate" /\ cli'[s] = [r EXCEPT !.pc = "fill"]
    BY <1>2, <1>13 DEF Truncate, At, Goes
  <2> QED BY <1>17, <2>1
<1>14. CASE Fill(s)
  BY <1>2, <1>4, <1>14 DEF Fill, Reports
<1>15. CASE Unset(s)
  <2>1. cli'[s] = Over("done")
    BY <1>15 DEF Unset
  <2> QED BY <1>4, <2>1
<1>16. CASE Search(s)
  <2> DEFINE p == r.place
  <2>1. p \in Places /\ markers[p] \in {"absent"} \cup Unreadable \cup Names /\ r.pc = "search"
    BY <1>1, <1>16 DEF Command, StoreInv, TypeOK, Search, At
  <2>2. CASE \E what : Reports(s, what)
    BY <1>2, <1>4, <2>2 DEF Reports
  <2>3. CASE markers[p] = "absent" /\ p # 0 /\ Becomes(s, [r EXCEPT !.place = p - 1])
    BY <1>16, <2>3, SearchGoesOn
  <2>4. CASE markers[p] \in Names /\ Becomes(s, [r EXCEPT !.pc = "read", !.name = markers[p]])
    <3>1. /\ cli'[s].pc = "read" /\ cli'[s].cmd = r.cmd /\ cli'[s].name \in Names
          /\ cli'[s].report = r.report
      BY <1>1, <1>2, <2>4 DEF Command
    <3> HIDE DEF new
    <3> QED BY <1>1, <2>1, <3>1 DEF EffectKnown, SearchKnown
  <2> QED BY <1>16, <2>1, <2>2, <2>3, <2>4 DEF Search, Unresolved
<1> QED BY <1>7, <1>8, <1>9, <1>10, <1>11, <1>12, <1>13, <1>14, <1>15, <1>16 DEF Step

\* The steps that neither begin nor end the writing of a marker.
Quiet(s) ==
  \/ Begin(s) \/ Check(s) \/ Source(s) \/ Load(s) \/ CreateTemp(s) \/ WriteTemp(s)
  \/ WriteFails(s) \/ Rename(s) \/ Delete(s) \/ FillUnlinked(s) \/ Search(s) \/ Read(s)

\* A step that neither writes a marker nor begins or ends a write of one.
LEMMA QuietForMarkers ==
  ASSUME StoreInv, NEW s \in Shells, Quiet(s)
  PROVE  /\ markers' = markers
         /\ cli[s].pc # "fill" /\ cli'[s].pc # "fill"
         /\ \A t \in Shells \ {s} : cli'[t] = cli[t]
<1>1. cli \in [Shells -> Command] /\ cli[s] \in Command
  BY DEF StoreInv, TypeOK
<1>2. markers' = markers
  BY DEF Quiet, Begin, Check, Source, Load, CreateTemp, WriteTemp, WriteFails, Rename, Delete,
         FillUnlinked, Search, Read, files
<1>3. cli[s].pc # "fill"
  BY DEF Quiet, Begin, Check, Source, Load, CreateTemp, WriteTemp, WriteFails, Rename, Delete,
         FillUnlinked, Search, Read, At
<1>4. ASSUME NEW r, Becomes(s, r), r.pc # "fill"
      PROVE  cli'[s].pc # "fill" /\ \A t \in Shells \ {s} : cli'[t] = cli[t]
  BY <1>1, <1>4 DEF Becomes
<1>5. \E r : Becomes(s, r) /\ r.pc # "fill"
  <2>1. CASE Begin(s)
    <3>1. /\ \A n \in Names, force \in BOOLEAN : Creation(n, force).pc # "fill"
          /\ \A n \in Names, m \in Models : ModelChange(n, m).pc # "fill"
          /\ \A n \in Names : Deletion(n).pc # "fill"
          /\ \A n \in Names, p \in Places : Selection(n, p).pc # "fill"
          /\ \A p \in Places : Unselection(p).pc # "fill"
          /\ \A c \in {"launch", "run"}, p \in Places : Launching(c, p).pc # "fill"
      BY DEF Creation, ModelChange, Deletion, Selection, Unselection, Launching, Idle
    <3> QED BY <2>1, <3>1 DEF Begin
  <2>2. CASE \E what : Reports(s, what)
    <3>1. \A what : Over(what).pc # "fill"
      BY DEF Over, Idle
    <3> QED BY <2>2, <3>1 DEF Reports
  <2>3. CASE \E pc \in {"source", "write", "rename"} : Goes(s, pc)
    <3>1. \A pc \in {"source", "write", "rename"} : [cli[s] EXCEPT !.pc = pc].pc # "fill"
      BY <1>1 DEF Command
    <3> QED BY <2>3, <3>1 DEF Goes
  <2>4. ASSUME NEW d, Becomes(s, [cli[s] EXCEPT !.pc = "temp", !.doc = d])
        PROVE  \E r : Becomes(s, r) /\ r.pc # "fill"
    <3>1. [cli[s] EXCEPT !.pc = "temp", !.doc = d].pc = "temp"
      BY <1>1 DEF Command
    <3> QED BY <2>4, <3>1
  <2>5. CASE Search(s)
    <3>1. \A n : [cli[s] EXCEPT !.pc = "read", !.name = n].pc = "read"
      BY <1>1 DEF Command
    <3>2. \A p : [cli[s] EXCEPT !.place = p].pc = cli[s].pc
      BY <1>1 DEF Command
    <3>3. \/ \E n : Becomes(s, [cli[s] EXCEPT !.pc = "read", !.name = n])
          \/ \E p : Becomes(s, [cli[s] EXCEPT !.place = p])
          \/ \E what : Reports(s, what)
      BY <2>5 DEF Search, Unresolved
    <3> QED BY <1>3, <2>2, <3>1, <3>2, <3>3
  <2>6. CASE Source(s) \/ Load(s)
    BY <2>2, <2>4, <2>6 DEF Source, Load
  <2>7. CASE Check(s) \/ CreateTemp(s) \/ WriteTemp(s)
    BY <2>2, <2>3, <2>7 DEF Check, CreateTemp, WriteTemp
  <2>8. CASE WriteFails(s) \/ Rename(s) \/ Delete(s) \/ FillUnlinked(s) \/ Read(s)
    BY <2>2, <2>8 DEF WriteFails, Rename, Delete, FillUnlinked, Read
  <2> QED BY <2>1, <2>5, <2>6, <2>7, <2>8 DEF Quiet
<1> QED BY <1>2, <1>3, <1>4, <1>5

\* The steps that do.
LEMMA MarkersStayKnown ==
  ASSUME StoreInv, PastInv, NEW s \in Shells, Begin(s) \/ Step(s) \/ Killed(s), Remember
  PROVE  MarkersKnown'
<1> SUFFICES ASSUME ~history'.interrupted, NEW p \in Places \ history'.crossed
             PROVE  /\ \A t \in Shells : Filling(t, p)' =>
                         markers'[p] = "empty" /\ \A u \in Shells : Filling(u, p)' => t = u
                    /\ markers'[p] \in Unreadable => \E t \in Shells : Filling(t, p)'
  BY DEF MarkersKnown
<1>1. /\ cli \in [Shells -> Command] /\ cli[s] \in Command /\ cli[s].place \in Places
      /\ markers \in [Places -> {"absent"} \cup Unreadable \cup Names]
  BY DEF StoreInv, TypeOK, Command
<1>2. /\ ~history.interrupted /\ p \notin history.crossed
      /\ At(s, "idle") \/ cli'[s].report \notin {"killed", "unwritten"}
  BY DEF Remember
<1>3. \A t, u \in Shells : Filling(t, p)' /\ Filling(u, p)' => t = u
  BY DEF Remember, Filling, At
<1>4. /\ \A t \in Shells : Filling(t, p) =>
           markers[p] = "empty" /\ \A u \in Shells : Filling(u, p) => t = u
      /\ markers[p] \in Unreadable => \E t \in Shells : Filling(t, p)
  BY <1>2 DEF PastInv, MarkersKnown
<1>5. ASSUME markers'[p] = markers[p], \A t \in Shells : Filling(t, p)' <=> Filling(t, p)
      PROVE  /\ \A t \in Shells : Filling(t, p)' => markers'[p] = "empty"
             /\ markers'[p] \in Unreadable => \E t \in Shells : Filling(t, p)'
  BY <1>4, <1>5
<1>6. CASE Quiet(s)
  BY <1>3, <1>5, <1>6, QuietForMarkers DEF Filling, At
<1>7. ASSUME NEW r, Becomes(s, r)
      PROVE  cli'[s] = r /\ \A t \in Shells \ {s} : cli'[t] = cli[t]
  BY <1>1, <1>7 DEF Becomes
<1>8. CASE Truncate(s)
  <2>1. /\ cli[s].pc = "truncate" /\ markers' = [markers EXCEPT ![cli[s].place] = "empty"]
        /\ cli'[s] = [cli[s] EXCEPT !.pc = "fill"]
        /\ \A t \in Shells \ {s} : cli'[t] = cli[t]
    BY <1>7, <1>8 DEF Truncate, At, Goes
  <2>2. cli'[s].pc = "fill" /\ cli'[s].place = cli[s].place
    BY <1>1, <2>1 DEF Command
  <2>3. CASE cli[s].place = p
    BY <1>1, <1>3, <2>1, <2>2, <2>3 DEF Filling, At
  <2>4. CASE cli[s].place # p
    BY <1>1, <1>3, <1>5, <2>1, <2>2, <2>4 DEF Filling, At
  <2> QED BY <2>3, <2>4
<1>9. CASE Fill(s)
  <2>1. cli'[s] = Over("done") /\ \A t \in Shells \ {s} : cli'[t] = cli[t]
    <3>1. Over("unwritten").report = "unwritten" /\ ~At(s, "idle")
      BY <1>9 DEF Over, Idle, Fill, At
    <3> QED BY <1>2, <1>7, <1>9, <3>1 DEF Fill, Reports
  <2>2. cli'[s].pc # "fill" /\ cli[s].pc = "fill" /\ Over("done").report = "done"
    BY <1>9, <2>1 DEF Over, Idle, Fill, At
  <2>3. \E held \in Overlaid(cli[s].name, markers[cli[s].place]) :
          markers' = [markers EXCEPT ![cli[s].place] = held]
    BY <1>7, <1>9, <2>1 DEF Fill, Reports, Over, Idle
  <2>4. CASE cli[s].place = p
    <3>1. markers[p] = "empty" /\ \A t \in Shells : Filling(t, p) => t = s
      BY <1>4, <2>2, <2>4 DEF Filling, At
    <3>2. "empty" \notin Names
      BY DEF Unreadable
    <3>3. Overlaid(cli[s].name, markers[p]) = {cli[s].name}
      BY <3>1, <3>2 DEF Overlaid
    <3>4. cli[s].name \in Names
      BY <2>2 DEF StoreInv, CommandOK
    <3>5. markers'[p] \in Names
      BY <1>1, <2>3, <2>4, <3>3, <3>4
    <3>6. \A t \in Shells : ~Filling(t, p)'
      BY <2>1, <2>2, <3>1 DEF Filling, At
    <3> QED BY <3>5, <3>6
  <2>5. CASE cli[s].place # p
    BY <1>1, <1>3, <1>5, <2>1, <2>2, <2>3, <2>5 DEF Filling, At
  <2> QED BY <2>4, <2>5
<1>10. CASE Unset(s)
  <2>1. /\ markers' = [markers EXCEPT ![cli[s].place] = "absent"]
        /\ cli'[s] = Over("done") /\ cli[s].pc = "unset"
        /\ \A t \in Shells \ {s} :
             IF At(t, "fill") /\ cli[t].place = cli[s].place
             THEN cli'[t] = [cli[t] EXCEPT !.pc = "unlinked"]
             ELSE cli'[t] = cli[t]
    BY <1>10 DEF Unset, At
  <2>2. cli'[s].pc # "fill"
    BY <2>1 DEF Over, Idle
  <2>3. \A t \in Shells : [cli[t] EXCEPT !.pc = "unlinked"].pc = "unlinked"
    BY <1>1 DEF Command
  <2>4. CASE cli[s].place = p
    <3>1. markers'[p] = "absent" /\ "absent" \notin Unreadable
      BY <1>1, <2>1, <2>4 DEF Unreadable
    <3>2. \A t \in Shells : ~Filling(t, p)'
      BY <2>1, <2>2, <2>3, <2>4 DEF Filling, At
    <3> QED BY <3>1, <3>2
  <2>5. CASE cli[s].place # p
    <3>1. \A t \in Shells : Filling(t, p)' <=> Filling(t, p)
      BY <2>1, <2>2, <2>3, <2>5 DEF Filling, At
    <3> QED BY <1>1, <1>3, <1>5, <2>1, <2>5, <3>1
  <2> QED BY <2>4, <2>5
<1>11. CASE Killed(s)
  <2>1. ~At(s, "idle") /\ cli'[s] = Over("killed")
    BY <1>7, <1>11 DEF Killed, Reports
  <2> QED BY <1>2, <2>1 DEF Over, Idle
<1> QED BY <1>6, <1>8, <1>9, <1>10, <1>11 DEF Step, Quiet

\* Each step, for all commands.
LEMMA PastHolds ==
  ASSUME StoreInv, StoreInv', PastInv, Next
  PROVE  PastInv'
<1>1. PICK s \in Shells : Begin(s) \/ Step(s) \/ Killed(s)
  BY DEF Next
<1>2. Remember
  BY DEF Next
<1>3. MarkersKnown'
  BY <1>1, <1>2, MarkersStayKnown
<1>4. ASSUME NEW t \in Shells
      PROVE  /\ EffectKnown(cli'[t], history'.since[t].contents, temporary'[t])
             /\ SearchKnown(cli'[t], markers', history'.since[t])
  <2>1. CASE t # s
    BY <1>1, <1>2, <2>1, OthersKnow
  <2>2. CASE t = s /\ Begin(s)
    BY <1>2, <2>2, BeginnerKnows
  <2>3. CASE t = s /\ (Step(s) \/ Killed(s))
    BY <1>2, <2>3, ActorKnows
  <2> QED BY <1>1, <2>1, <2>2, <2>3
<1> QED BY <1>3, <1>4 DEF PastInv

LEMMA InitIsPastInv ==
  ASSUME Init
  PROVE  PastInv
<1>1. /\ \A p \in Places : markers[p] \notin Unreadable
      /\ \A s \in Shells : cli[s] = Idle
  BY DEF Init, Unreadable
<1>2. Idle.pc = "idle" /\ Idle.cmd = "none"
  BY DEF Idle
<1>3. MarkersKnown
  BY <1>1, <1>2 DEF MarkersKnown, Filling, At
<1>4. \A s \in Shells : /\ EffectKnown(cli[s], history.since[s].contents, temporary[s])
                        /\ SearchKnown(cli[s], markers, history.since[s])
  BY <1>1, <1>2 DEF EffectKnown, SearchKnown
<1> QED BY <1>3, <1>4 DEF PastInv

LEMMA PastInvHolds == CommandSpec => [](StoreInv /\ PastInv)
<1>1. CommandInit => PastInv
  BY InitIsPastInv DEF CommandInit
<1>2. CommandInv /\ CommandInv' /\ PastInv /\ [CommandNext]_commandVars => PastInv'
  <2> SUFFICES ASSUME CommandInv, CommandInv', PastInv, [CommandNext]_commandVars
               PROVE  PastInv'
    OBVIOUS
  <2>1. CASE Next
    BY <2>1, PastHolds DEF CommandInv
  <2>2. CASE UNCHANGED vars
    BY <2>2 DEF PastInv, MarkersKnown, Filling, At, vars
  <2> QED BY <2>1, <2>2 DEF CommandNext, commandVars
<1>3. CommandInv => StoreInv
  BY DEF CommandInv
<1> QED BY <1>1, <1>2, <1>3, CommandInvHolds, PTL DEF CommandSpec

\* When no command runs, none was interrupted and no two wrote a marker at once, it is one
\* name, however many commands there were before, whatever the lengths of the names and
\* whoever removed the marker while it was written (setLocalProfile, setGlobalProfile).
THEOREM MarkersStayReadable == CommandSpec => []MarkersAreReadable
<1>1. StoreInv /\ PastInv => MarkersAreReadable
  BY DEF PastInv, MarkersKnown, MarkersAreReadable, Filling, At
<1> QED BY <1>1, PastInvHolds, PTL

\* A create without --force replaces nothing that was there all the time, and a change of
\* the model puts its model into what the profile held at some moment since it began
\* (profileCreate, setProfileModel).
THEOREM EffectsAreTimely == CommandSpec => EffectsAreOfTheirTime
<1>1. ASSUME StoreInv, PastInv, [CommandNext]_commandVars, NEW s \in Shells,
             cli[s].pc = "rename", cli'[s].report = "done"
      PROVE  EffectIsOfItsTime(s)
  <2> DEFINE r == cli[s]
  <2>1. /\ EffectKnown(r, history.since[s].contents, temporary[s])
        /\ cli \in [Shells -> Command]
        /\ profiles \in [Names -> {Absent, Invalid, Torn} \cup Document]
    BY <1>1 DEF PastInv, StoreInv, TypeOK
  <2>2. r.report = "none" /\ temporary[s] = r.doc
    BY <1>1, <2>1 DEF EffectKnown
  <2>3. r.cmd = "create" => r.force \/ Absent \in history.since[s].contents
    BY <1>1, <2>1 DEF EffectKnown
  <2>4. ASSUME r.cmd = "model"
        PROVE  \E d \in history.since[s].contents \cap Document :
                 profiles'[r.name] = [d EXCEPT !.model = r.model]
    <3>1. r.name \in Names
      BY <2>1, <2>4 DEF EffectKnown
    <3>2. PICK d \in history.since[s].contents \cap Document :
            r.doc = [d EXCEPT !.model = r.model]
      BY <1>1, <2>1, <2>4 DEF EffectKnown
    <3>3. cli' # cli
      BY <1>1, <2>2
    <3>4. PICK t \in Shells : Begin(t) \/ Step(t) \/ Killed(t)
      BY <1>1, <3>3 DEF CommandNext, commandVars, vars, Next
    <3>5. t = s
      BY <1>1, <2>2, <3>4, OthersStay DEF At
    <3>6. Rename(s)
      <4>1. WriteFails(s) \/ Rename(s) \/ Killed(s)
        BY <1>1, <3>4, <3>5 DEF Begin, Step, Check, Source, Load, CreateTemp, WriteTemp, Delete,
                                Truncate, Fill, FillUnlinked, Unset, Search, Read, At
      <4>2. ASSUME NEW what \in {"failed", "killed"}, Reports(s, what)
            PROVE  FALSE
        <5>1. cli'[s] = Over(what)
          BY <2>1, <4>2 DEF Reports, Becomes
        <5>2. Over(what).report = what
          BY DEF Over, Idle
        <5> QED BY <1>1, <4>2, <5>1, <5>2
      <4> QED BY <4>1, <4>2 DEF WriteFails, Killed
    <3>7. profiles'[r.name] = temporary[s]
      BY <2>1, <3>1, <3>6 DEF Rename
    <3> QED BY <2>2, <3>2, <3>7
  <2> QED BY <1>1, <2>3, <2>4 DEF EffectIsOfItsTime
<1>2. StoreInv /\ PastInv /\ [CommandNext]_commandVars => \A s \in Shells : EffectIsOfItsTime(s)
  BY <1>1 DEF EffectIsOfItsTime
<1>3. StoreInv /\ PastInv /\ [CommandNext]_commandVars =>
        [\A s \in Shells : EffectIsOfItsTime(s)]_vars
  BY <1>2
<1> QED BY <1>3, PastInvHolds, PTL DEF CommandSpec, EffectsAreOfTheirTime

\* Unless two markers change while it looks, a search finds what it would have found at
\* once at some moment since it began, however deep it starts (findLocalProfile,
\* findGlobalProfile).
THEOREM SearchesResolve == CommandSpec => ResolvesAtOnePoint
<1>1. ASSUME StoreInv, PastInv, [CommandNext]_commandVars, NEW s \in Shells,
             ~\E p, q \in history.since[s].touched : p # q, cli[s].pc = "search",
             cli'[s].pc # "search",
             (IF cli'[s].pc = "read" THEN cli'[s].name ELSE cli'[s].report) # "killed"
      PROVE  \E a \in history.since[s].answers :
               (IF cli'[s].pc = "read" THEN cli'[s].name ELSE cli'[s].report) =
                 IF a \notin Names /\ cli[s].cmd = "run" THEN "plain" ELSE a
  <2> DEFINE r == cli[s]
             p == r.place
             m == AsPassed(markers, r)
  <2>1. /\ SearchKnown(r, markers, history.since[s]) /\ r \in Command
        /\ cli \in [Shells -> Command]
        /\ markers \in [Places -> {"absent"} \cup Unreadable \cup Names]
    BY <1>1 DEF PastInv, StoreInv, TypeOK
  <2>2. p <= r.from /\ Resolved(m, r.from) \in history.since[s].answers
    BY <1>1, <2>1 DEF SearchKnown
  <2>3. p \in Places /\ r.from \in Places /\ p \in Nat /\ r.from \in Nat /\ p \in 0 .. r.from
    BY <2>1, <2>2 DEF Command, Places
  <2>4. m[p] = markers[p] /\ \A q \in p + 1 .. r.from : m[q] = "absent"
    BY <2>3 DEF AsPassed, Passed, Places
  <2>5. Search(s)
    <3>1. cli' # cli
      BY <1>1
    <3>2. PICK t \in Shells : Begin(t) \/ Step(t) \/ Killed(t)
      BY <1>1, <3>1 DEF CommandNext, commandVars, vars, Next
    <3>3. t = s
      BY <1>1, <3>2, OthersStay DEF At
    <3>4. Search(s) \/ Killed(s)
      BY <1>1, <3>2, <3>3 DEF Begin, Step, Check, Source, Load, CreateTemp, WriteTemp, WriteFails,
                              Rename, Delete, Truncate, Fill, FillUnlinked, Unset, Read, At
    <3>5. ASSUME Killed(s) PROVE FALSE
      <4>1. cli'[s] = Over("killed")
        BY <2>1, <3>5 DEF Killed, Reports, Becomes
      <4> QED BY <1>1, <4>1 DEF Over, Idle
    <3> QED BY <3>4, <3>5
  <2>6. \A x : Becomes(s, x) => cli'[s] = x
    BY <2>1 DEF Becomes
  <2>7. ASSUME NEW why \in {"malformed", "nothing"}, Unresolved(s, why), Resolved(m, r.from) = why
        PROVE  \E a \in history.since[s].answers :
                 (IF cli'[s].pc = "read" THEN cli'[s].name ELSE cli'[s].report) =
                   IF a \notin Names /\ r.cmd = "run" THEN "plain" ELSE a
    <3>1. \A what : Over(what).pc # "read" /\ Over(what).report = what
      BY DEF Over, Idle
    <3>2. cli'[s] = Over(IF r.cmd = "run" THEN "plain" ELSE why)
      BY <2>6, <2>7 DEF Unresolved, Reports
    <3>3. why \notin Names
      BY <2>7
    <3> HIDE DEF m
    <3> QED BY <2>2, <2>7, <3>1, <3>2, <3>3
  <2>8. CASE markers[p] \in Unreadable
    <3>1. Unresolved(s, "malformed")
      BY <2>5, <2>8 DEF Search, Unreadable
    <3>2. markers[p] # "absent" /\ markers[p] \notin Names
      BY <2>8 DEF Unreadable
    <3>3. Resolved(m, r.from) = "malformed"
      <4> HIDE DEF m, p, r
      <4> QED BY <2>3, <2>4, <3>2, ResolvedAt
    <3> QED BY <2>7, <3>1, <3>3
  <2>9. CASE markers[p] = "absent"
    <3>1. "absent" \notin Unreadable
      BY DEF Unreadable
    <3>2. p = 0
      <4>1. ASSUME Becomes(s, [r EXCEPT !.place = p - 1]) PROVE FALSE
        <5>1. cli'[s] = [r EXCEPT !.place = p - 1]
          BY <2>6, <4>1
        <5>2. cli'[s].pc = r.pc
          BY <2>1, <5>1 DEF Command
        <5> QED BY <1>1, <5>2
      <4> QED BY <2>5, <2>9, <3>1, <4>1 DEF Search
    <3>3. Unresolved(s, "nothing")
      BY <2>5, <2>9, <3>1, <3>2 DEF Search
    <3>4. \A q \in 0 .. r.from : m[q] = "absent"
      <4> HIDE DEF m, r
      <4>1. \A q \in 0 .. r.from : q = 0 \/ q \in 1 .. r.from
        BY <2>3
      <4> QED BY <2>4, <2>9, <3>2, <4>1
    <3>5. Resolved(m, r.from) = "nothing"
      BY <3>4, ResolvedNowhere
    <3> QED BY <2>7, <3>3, <3>5
  <2>10. CASE markers[p] \in Names
    <3>1. markers[p] \notin Unreadable /\ markers[p] # "absent"
      BY <2>10
    <3>2. cli'[s] = [r EXCEPT !.pc = "read", !.name = markers[p]]
      BY <2>5, <2>6, <3>1 DEF Search
    <3>3. cli'[s].pc = "read" /\ cli'[s].name = markers[p]
      BY <2>1, <3>2 DEF Command
    <3>4. Resolved(m, r.from) = markers[p]
      <4> HIDE DEF m, p, r
      <4> QED BY <2>3, <2>4, <2>10, <3>1, ResolvedAt
    <3> HIDE DEF m
    <3> QED BY <2>2, <2>10, <3>3, <3>4
  <2> QED BY <2>1, <2>3, <2>8, <2>9, <2>10
<1>2. StoreInv /\ PastInv /\ [CommandNext]_commandVars =>
        \A s \in Shells : \/ \E p, q \in history.since[s].touched : p # q
                          \/ SearchAnswers(s)
  BY <1>1 DEF SearchAnswers, At
<1>3. StoreInv /\ PastInv /\ [CommandNext]_commandVars =>
        [\A s \in Shells : \/ \E p, q \in history.since[s].touched : p # q
                           \/ SearchAnswers(s)]_vars
  BY <1>2
<1> QED BY <1>3, PastInvHolds, PTL DEF CommandSpec, ResolvesAtOnePoint

-----------------------------------------------------------------------------
(* The rc files. *)

\* The invariants of the rc files hold of the commands side by side.
LEMMA LinesHold == CommandSpec => [](LinesTyped /\ UserInv /\ OnceInv)
<1>1. CommandInit => LinesTyped /\ UserInv /\ OnceInv
  BY HooksInitIsTyped, HooksInitIsInv DEF CommandInit
<1>2. CommandInv' /\ (LinesTyped /\ UserInv /\ OnceInv) /\ [CommandNext]_commandVars
        => (LinesTyped /\ UserInv /\ OnceInv)'
  <2> SUFFICES ASSUME CommandInv', LinesTyped, UserInv, OnceInv, [CommandNext]_commandVars
               PROVE  LinesTyped' /\ UserInv' /\ OnceInv'
    OBVIOUS
  <2>1. HooksTypeOK'
    BY DEF CommandInv
  <2>2. CASE HooksNext
    BY <2>1, <2>2, HooksNextKeeps
  <2>3. CASE UNCHANGED hooksVars
    <3>1. rc' = rc /\ run' = run /\ own' = own /\ past' = past
      BY <2>3 DEF hooksVars
    <3>2. LinesTyped'
      BY <2>1, <3>1 DEF LinesTyped
    <3>3. UserInv'
      BY <3>1 DEF UserInv, Emptied, HeldBy
    <3>4. OnceInv'
      BY <3>1 DEF OnceInv, Emptied, HeldBy, Hooked
    <3> QED BY <3>2, <3>3, <3>4
  <2> QED BY <2>2, <2>3 DEF CommandNext, commandVars
<1> QED BY <1>1, <1>2, CommandInvHolds, PTL DEF CommandSpec

\* Whatever is installed and uninstalled, by however many runs, and wherever the user
\* writes in between, the user's lines are there, in order (installShellHooks, uninstallCLI).
THEOREM UsersLinesStay == CommandSpec => []UserLinesSurvive
<1>1. UserInv => UserLinesSurvive
  BY UserLinesAreThere
<1> QED BY <1>1, LinesHold, PTL

\* A file that has no two hooks to begin with never gets a second one, unless two runs of
\* init look before either writes (installShellHooks).
THEOREM HooksStaySingle ==
  ASSUME OneAtFirst
  PROVE  CommandSpec => []HooksOnce
<1>1. OnceInv => HooksOnce
  BY OneHook
<1> QED BY <1>1, LinesHold, PTL

\* An uninstall gives back the lines that init found, if nobody wrote in between, whatever
\* they are and however many files there are (uninstallCLI).
THEOREM UninstallsRestore == CommandSpec => UninstallRestores
<1> DEFINE A == \A r \in Runs :
                  LET f == run[r].file
                  IN  /\ InRun(r, "rewrite") /\ run'[r].pc # "rewrite"
                      /\ ~past'.lost /\ ~past.overlapped /\ ~past.edited[f]
                      => rc'[f].lines = Restored(past.origin[f])
<1>1. CommandInv' /\ (LinesTyped /\ UserInv /\ OnceInv) /\ [CommandNext]_commandVars => [A]_hooksVars
  <2> SUFFICES ASSUME CommandInv', LinesTyped, UserInv, OnceInv, [CommandNext]_commandVars,
                      ~UNCHANGED hooksVars
               PROVE  A
    OBVIOUS
  <2>1. HooksNext /\ HooksTypeOK'
    BY DEF CommandNext, commandVars, CommandInv
  <2> QED BY <2>1, UninstallGivesBack
<1> QED BY <1>1, LinesHold, CommandInvHolds, PTL DEF CommandSpec, UninstallRestores
==============================================================================
