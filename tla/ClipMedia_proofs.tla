--------------------------- MODULE ClipMedia_proofs ---------------------------
(***************************************************************************)
(* Proof that the clipboard history never loses the media of an item, nor  *)
(* of a deletion that can still be undone, in an ordinary environment.     *)
(***************************************************************************)
EXTENDS ClipHistory_proofs

IInv == TypeOK /\ IndexSound /\ EveryWindowHasTimer /\ MediaInv

(***************************************************************************)
(* Media paths                                                             *)
(***************************************************************************)

\* The media of an item are filed under its hash, so items with different
\* hashes share no file.
LEMMA MediaDisjoint ==
  ASSUME NEW x, NEW y, x.hash # y.hash
  PROVE  MediaOf(x) \cap MediaOf(y) = {}
BY DEF MediaOf

\* Items that agree on content and hash have the same media.
LEMMA MediaSame ==
  ASSUME NEW x, NEW y, x.hash = y.hash, x.content = y.content
  PROVE  MediaOf(x) = MediaOf(y)
BY DEF MediaOf

\* What shares its fingerprint with a content that is alone is that content.
LEMMA SameContent ==
  ASSUME NEW x, NEW y, Named(x), Named(y), x.hash = y.hash,
         Alone(x.content), y.content \in Contents
  PROVE  x.content = y.content
BY DEF Alone, Named

\* Only images have media, and images are alone; a file goes by the hash of
\* its item.
LEMMA ImageHash ==
  ASSUME ImagesAlone, NEW x, NEW p \in MediaOf(x)
  PROVE  x.content \in Images /\ Alone(x.content) /\ p[1] = x.hash
BY DEF ImagesAlone, MediaOf

\* The items of the tables are well formed.
LEMMA ItemsTyped ==
  ASSUME TypeOK
  PROVE  /\ \A i \in Live : i \in ClipIds /\ clips[i] \in Item
                            /\ clips[i].content \in Contents /\ clips[i].hash \in Hashes
         /\ \A i \in ClipIds : undo[i] # None =>
              undo[i] \in Item /\ undo[i].content \in Contents /\ undo[i].hash \in Hashes
         /\ rec.pc # "idle" => rec.content \in Contents /\ rec.hash \in Hashes
BY NoneAssumption DEF TypeOK, Live, Item, Idle

\* The hash index tells a live item whose content is alone from every other.
LEMMA HashesDiffer ==
  ASSUME TypeOK, AllNamed, IndexComplete, NEW i \in Live, NEW j \in Live, i # j,
         Alone(clips[i].content)
  PROVE  clips[i].hash # clips[j].hash
<1> SUFFICES ASSUME clips[i].hash = clips[j].hash PROVE FALSE
  OBVIOUS
<1>1. clips[i].content = clips[j].content
  BY ItemsTyped, SameContent DEF AllNamed
<1>2. QED
  BY <1>1 DEF IndexComplete

\* The hash under which anything is about to be saved belongs to no live item
\* whose content is alone.
LEMMA AloneKeepsHash ==
  ASSUME TypeOK, AllNamed, IndexComplete, NEW x, Named(x), x.content \in Contents,
         Alone(x.content) => byHash[x.hash] = None,
         NEW i \in Live, Alone(clips[i].content)
  PROVE  clips[i].hash # x.hash
<1> SUFFICES ASSUME clips[i].hash = x.hash PROVE FALSE
  OBVIOUS
<1>1. clips[i].content = x.content
  BY SameContent DEF AllNamed
<1>2. QED
  BY <1>1, NoneAssumption DEF IndexComplete, Live

\* Removing files that no live item and no open window needs harms nobody.
LEMMA RemovalHarmless ==
  ASSUME IInv, NEW paths, RemoveMedia(paths),
         paths \cap Referenced = {},
         \A i \in ClipIds : Open(i) => paths \cap MediaOf(undo[i]) = {}
  PROVE  /\ \A i \in Live : \A p \in MediaOf(clips[i]) : files'[p] = clips[i].content
         /\ \A i \in ClipIds : Open(i) => \A p \in MediaOf(undo[i]) : files'[p] = undo[i].content
         /\ \A p \in Paths : files'[p] # None => files'[p] \in Images /\ p[1] = Primary[files'[p]]
<1> USE DEF IInv
<1>1. \A p \in Paths \ paths : files'[p] = files[p]
  BY RemoveMediaType
<1>2. ASSUME NEW i \in Live, NEW p \in MediaOf(clips[i])
      PROVE  files'[p] = clips[i].content
  <2>1. p \in Paths
    BY <1>2, ItemsTyped, MediaOfType
  <2>2. p \notin paths
    BY <1>2 DEF Referenced
  <2>3. files[p] = clips[i].content
    BY <1>2 DEF MediaInv, LiveMediaIntact, Intact
  <2>4. QED
    BY <1>1, <2>1, <2>2, <2>3
<1>3. ASSUME NEW i \in ClipIds, Open(i), NEW p \in MediaOf(undo[i])
      PROVE  files'[p] = undo[i].content
  <2>1. p \in Paths
    BY <1>3, ItemsTyped, MediaOfType DEF Open
  <2>2. files[p] = undo[i].content
    BY <1>3 DEF MediaInv, PendingRestorable, Intact, Open
  <2>3. QED
    BY <1>1, <1>3, <2>1, <2>2
<1>4. \A p \in Paths : files'[p] # None => files'[p] \in Images /\ p[1] = Primary[files'[p]]
  BY RemoveMediaType DEF MediaInv, AllNamed, Existing
<1>5. QED
  BY <1>2, <1>3, <1>4

(***************************************************************************)
(* Steps that leave the tables, the files and the windows as they are      *)
(***************************************************************************)

\* A step that closes notifications, ages nothing and leaves the tables and the
\* files alone keeps the media safe.
LEMMA QuietStep ==
  ASSUME IInv, UNCHANGED <<clips, files, pending, nextToken>>,
         byHash' = byHash \/ (IndexComplete' /\ rec'.pc = "idle"),
         \A i \in ClipIds : undo'[i] = undo[i] \/ undo'[i] = None,
         settled' \subseteq settled,
         scan'.pc = scan.pc \/ scan.pc # "done",
         rec' = rec \/ rec'.pc = "idle"
  PROVE  MediaInv'
<1> USE DEF IInv, MediaInv
<1>1. /\ Live' = Live
      /\ Existing' = Existing
      /\ Referenced' = Referenced
  BY DEF Live, Existing, Referenced, MediaOf
<1>2. IndexComplete'
  BY <1>1 DEF IndexComplete
<1>3. AllNamed'
  BY <1>1 DEF AllNamed, Named
<1>4. RecordInv'
  <2>1. CASE rec'.pc = "idle"
    BY <2>1 DEF RecordInv
  <2>2. CASE rec' = rec /\ byHash' = byHash
    BY <2>2 DEF RecordInv, Named, Intact, MediaOf
  <2>3. QED
    BY <2>1, <2>2
<1>5. WindowInv'
  BY <1>1 DEF WindowInv, MediaOf
<1>6. CoverInv'
  BY <1>1 DEF CoverInv, Open, ContainsPath, MediaOf
<1>7. SettledInv'
  BY <1>1 DEF SettledInv, Open
<1>8. LiveMediaIntact'
  BY <1>1 DEF LiveMediaIntact, Intact, MediaOf
<1>9. PendingRestorable'
  BY DEF PendingRestorable, Intact, MediaOf
<1>10. QED
  BY <1>2, <1>3, <1>4, <1>5, <1>6, <1>7, <1>8, <1>9

(***************************************************************************)
(* Capture                                                                 *)
(***************************************************************************)

\* Touching an item moves no item, and takes the index entry only from items
\* that are not alone.
LEMMA TouchKeepsAlone ==
  ASSUME IInv, NEW i \in Live, Save(i, clips[i])
  PROVE  clips' = clips /\ IndexComplete'
<1> USE DEF IInv, MediaInv
<1>1. clips' = clips
  BY TouchKeepsIndex
<1>2. byHash' = [byHash EXCEPT ![clips[i].hash] = i]
  BY DEF Save
<1>3. ASSUME NEW j \in Live, Alone(clips[j].content)
      PROVE  byHash'[clips[j].hash] = j
  <2>1. byHash[clips[j].hash] = j /\ clips[j].hash \in Hashes
    BY <1>3, ItemsTyped DEF IndexComplete
  <2>2. j # i => clips[j].hash # clips[i].hash
    BY <1>3, HashesDiffer
  <2>3. QED
    BY <1>2, <2>1, <2>2 DEF TypeOK
<1>4. QED
  BY <1>1, <1>3 DEF IndexComplete, Live

\* Capturing known content again keeps the media safe.
LEMMA TouchMedia ==
  ASSUME IInv, NEW c \in Contents, CaptureTouch(c)
  PROVE  MediaInv'
<1> USE NoneAssumption, ContentAssumption
<1>1. PICK h \in Hashes : byHash[h] # None /\ Save(byHash[h], clips[byHash[h]])
  BY DEF CaptureTouch, HashOwnerMatches
<1>2. byHash[h] \in Live
  BY <1>1 DEF IInv, IndexSound
<1>3. clips' = clips /\ IndexComplete'
  BY <1>1, <1>2, TouchKeepsAlone
<1>4. QED
  BY <1>3, QuietStep DEF CaptureTouch, LockFree

\* Copying an item keeps the media safe.
LEMMA CopyMedia ==
  ASSUME IInv, NEW i \in ClipIds, Copy(i)
  PROVE  MediaInv'
<1>1. clips' = clips /\ IndexComplete'
  BY TouchKeepsAlone DEF Copy
<1>2. QED
  BY <1>1, QuietStep DEF Copy, LockFree

\* Without read faults the first fingerprint of a content that is alone is
\* never taken: its owner would be the content that is being captured.
LEMMA BeginMedia ==
  ASSUME IInv, ImagesAlone, Hazards = {}, NEW c \in Contents, CaptureBegin(c)
  PROVE  MediaInv'
<1> USE NoneAssumption, ContentAssumption DEF IInv, MediaInv
<1>1. Alone(c) => byHash[Primary[c]] = None
  <2> SUFFICES ASSUME Alone(c), byHash[Primary[c]] # None PROVE FALSE
    OBVIOUS
  <2> DEFINE i == byHash[Primary[c]]
  <2>1. i \in Live /\ clips[i].hash = Primary[c]
    BY DEF IndexSound
  <2>2. clips[i].content = c
    <3>1. Named(clips[i]) /\ clips[i].content \in Contents
      BY <2>1, ItemsTyped DEF AllNamed
    <3>2. QED
      BY <2>1, <3>1 DEF Alone, Named
  <2>3. PICK r \in HashReadings(Primary[c]) : ~HashOwnerMatches(Primary[c], c, r)
    BY DEF CaptureBegin
  <2>4. CASE c \in Images
    <3>1. <<Primary[c], "img">> \in MediaOf(clips[i])
      BY <2>1, <2>2, <2>4 DEF MediaOf
    <3>2. files[<<Primary[c], "img">>] = c
      BY <2>1, <2>2, <3>1 DEF LiveMediaIntact, Intact
    <3>3. r = TRUE
      BY <2>3, <3>2 DEF HashReadings, Readings
    <3>4. QED
      BY <2>1, <2>2, <2>3, <2>4, <3>2, <3>3 DEF HashOwnerMatches, PayloadMatches, ImageFile
  <2>5. CASE c \notin Images
    BY <2>2, <2>3, <2>5 DEF HashOwnerMatches, PayloadMatches
  <2>6. QED
    BY <2>4, <2>5
<1> DEFINE h == IF byHash[Primary[c]] = None THEN Primary[c] ELSE Secondary[c]
<1>2. rec' = [pc |-> IF c \in Images THEN "full" ELSE "save", content |-> c, hash |-> h]
  BY DEF CaptureBegin
<1>3. UNCHANGED <<clips, byHash, files, pending, nextToken, undo, settled, scan>>
  BY DEF CaptureBegin
<1>4. RecordInv'
  <2>1. Named(rec)'
    BY <1>1, <1>2 DEF Named
  <2>4. Alone(rec'.content) => byHash'[rec'.hash] = None
    BY <1>1, <1>2, <1>3
  <2>2. c \notin Images => Intact(rec)'
    BY <1>2 DEF Intact, MediaOf
  <2>3. QED
    BY <1>2, <2>1, <2>2, <2>4 DEF RecordInv
<1>5. /\ IndexComplete' /\ AllNamed' /\ WindowInv' /\ CoverInv' /\ SettledInv'
      /\ LiveMediaIntact' /\ PendingRestorable'
  <2>1. Live' = Live /\ Existing' = Existing /\ Referenced' = Referenced
    BY <1>3 DEF Live, Existing, Referenced, MediaOf
  <2>2. IndexComplete' /\ AllNamed'
    BY <1>3, <2>1 DEF IndexComplete, AllNamed, Named
  <2>3. WindowInv' /\ CoverInv'
    BY <1>3, <2>1 DEF WindowInv, CoverInv, Open, ContainsPath, MediaOf
  <2>4. SettledInv' /\ LiveMediaIntact' /\ PendingRestorable'
    BY <1>3, <2>1 DEF SettledInv, LiveMediaIntact, PendingRestorable, Open, Intact, MediaOf
  <2>5. QED
    BY <2>2, <2>3, <2>4
<1>6. QED
  BY <1>4, <1>5

\* Steps that only touch files and record().
LEMMA FileStep ==
  ASSUME IInv,
         UNCHANGED <<clips, byHash, pending, nextToken, undo, settled>>,
         scan'.pc = scan.pc \/ scan.pc # "done",
         \A p \in Paths : files'[p] # None => files'[p] \in Images /\ p[1] = Primary[files'[p]],
         \A i \in Live : \A p \in MediaOf(clips[i]) : files'[p] = clips[i].content,
         \A i \in ClipIds : Open(i) => \A p \in MediaOf(undo[i]) : files'[p] = undo[i].content,
         RecordInv'
  PROVE  MediaInv'
<1> USE DEF IInv, MediaInv
<1>1. Live' = Live /\ Referenced' = Referenced
  BY DEF Live, Referenced, MediaOf
<1>2. IndexComplete'
  BY <1>1 DEF IndexComplete
<1>3. AllNamed'
  BY <1>1 DEF AllNamed, Named, Existing
<1>4. WindowInv' /\ CoverInv'
  BY <1>1 DEF WindowInv, CoverInv, Open, ContainsPath, MediaOf
<1>5. SettledInv'
  BY <1>1 DEF SettledInv, Open
<1>6. LiveMediaIntact'
  BY <1>1 DEF LiveMediaIntact, Intact, MediaOf
<1>7. PendingRestorable'
  BY DEF PendingRestorable, Intact, MediaOf, Open
<1>8. QED
  BY <1>2, <1>3, <1>4, <1>5, <1>6, <1>7

\* persist() fills in what is missing and replaces nothing, and a file that
\* is already there under the fingerprint holds the content captured.
LEMMA PersistHarmless ==
  ASSUME IInv, ImagesAlone, rec.pc \in {"full", "thumb"},
         NEW kind \in {"img", "thumb"}, PersistMedia(<<rec.hash, kind>>, rec.content)
  PROVE  /\ \A p \in Paths : files[p] # None => files'[p] = files[p]
         /\ files'[<<rec.hash, kind>>] = rec.content
         /\ \A p \in Paths : files'[p] # None => files'[p] \in Images /\ p[1] = Primary[files'[p]]
         /\ \A i \in Live : \A p \in MediaOf(clips[i]) : files'[p] = clips[i].content
         /\ \A i \in ClipIds : Open(i) => \A p \in MediaOf(undo[i]) : files'[p] = undo[i].content
<1> USE NoneAssumption, ContentAssumption DEF IInv, MediaInv
<1> DEFINE q == <<rec.hash, kind>>
<1>1. /\ rec.content \in Images /\ rec.content \in Contents /\ Alone(rec.content)
      /\ rec.hash = Primary[rec.content] /\ q \in Paths
  BY ItemsTyped DEF RecordInv, Named, Paths, ImagesAlone
<1>2. files[q] # None => files[q] = rec.content
  BY <1>1 DEF AllNamed, Existing, Alone, TypeOK
<1>3. /\ \A p \in Paths \ {q} : files'[p] = files[p]
      /\ files'[q] = rec.content
  BY <1>1, <1>2, PersistMediaType
<1>4. \A p \in Paths : files[p] # None => files'[p] = files[p]
  BY <1>2, <1>3
<1>5. \A p \in Paths : files'[p] # None => files'[p] \in Images /\ p[1] = Primary[files'[p]]
  BY <1>1, <1>3 DEF AllNamed, Existing
<1>6. ASSUME NEW i \in Live, NEW p \in MediaOf(clips[i])
      PROVE  files'[p] = clips[i].content
  <2>1. p \in Paths /\ clips[i].content # None
    BY <1>6, ItemsTyped, MediaOfType
  <2>2. files[p] = clips[i].content
    BY <1>6 DEF LiveMediaIntact, Intact
  <2>3. QED
    BY <1>4, <2>1, <2>2
<1>7. ASSUME NEW i \in ClipIds, Open(i), NEW p \in MediaOf(undo[i])
      PROVE  files'[p] = undo[i].content
  <2>1. p \in Paths /\ undo[i].content # None
    BY <1>7, ItemsTyped, MediaOfType DEF Open
  <2>2. files[p] = undo[i].content
    BY <1>7 DEF PendingRestorable, Intact, Open
  <2>3. QED
    BY <1>4, <2>1, <2>2
<1>8. QED
  BY <1>3, <1>4, <1>5, <1>6, <1>7

\* Writing the full image keeps the media safe: its hash is nobody's yet.
LEMMA PersistFullMedia ==
  ASSUME IInv, ImagesAlone, PersistFull
  PROVE  MediaInv'
<1>1. PersistMedia(<<rec.hash, "img">>, rec.content) /\ rec.pc = "full"
  BY DEF PersistFull
<1>2. rec' = [rec EXCEPT !.pc = "thumb"]
  BY DEF PersistFull
<1>3. /\ rec'.pc = "thumb" /\ rec'.hash = rec.hash /\ rec'.content = rec.content
  BY <1>1, <1>2 DEF IInv, TypeOK, Idle
<1>4. files'[<<rec.hash, "img">>] = rec.content
  BY <1>1, PersistHarmless
<1>5. RecordInv'
  BY <1>1, <1>3, <1>4 DEF IInv, MediaInv, RecordInv, Named, PersistFull
<1>6. QED
  BY <1>1, <1>5, PersistHarmless, FileStep DEF PersistFull

\* Writing the thumbnail keeps the media safe.
LEMMA PersistThumbMedia ==
  ASSUME IInv, ImagesAlone, PersistThumb
  PROVE  MediaInv'
<1> USE NoneAssumption DEF IInv, MediaInv
<1>1. PersistMedia(<<rec.hash, "thumb">>, rec.content) /\ rec.pc = "thumb"
  BY DEF PersistThumb
<1>2. rec' = [rec EXCEPT !.pc = "save"]
  BY DEF PersistThumb
<1>3. /\ rec'.pc = "save" /\ rec'.hash = rec.hash /\ rec'.content = rec.content
  BY <1>1, <1>2 DEF TypeOK, Idle
<1>4. files'[<<rec.hash, "thumb">>] = rec.content
  BY <1>1, PersistHarmless
<1>5. files'[<<rec.hash, "img">>] = rec.content
  <2>1. files[<<rec.hash, "img">>] = rec.content /\ rec.content \in Contents /\ rec.hash \in Hashes
    BY <1>1, ItemsTyped DEF RecordInv
  <2>2. <<rec.hash, "img">> \in Paths
    BY <2>1 DEF Paths
  <2>3. QED
    BY <1>1, <2>1, <2>2, PersistHarmless
<1>6. Intact(rec)'
  BY <1>3, <1>4, <1>5 DEF Intact, MediaOf
<1>7. RecordInv'
  BY <1>1, <1>3, <1>6 DEF RecordInv, Named, PersistThumb
<1>8. QED
  BY <1>1, <1>7, PersistHarmless, FileStep DEF PersistThumb

\* The rollback only takes files that no item and no open window has: the
\* captured hash belongs to nobody, and the windows' own paths are spared.
LEMMA CaptureFailsMedia ==
  ASSUME IInv, ImagesAlone, CaptureFails
  PROVE  MediaInv'
<1> USE DEF IInv, MediaInv
<1>1. RecordInv' /\ rec.pc # "idle"
  BY DEF CaptureFails, RecordInv, Idle
<1>2. CASE rec.pc = "full"
  BY <1>2, QuietStep DEF CaptureFails, Idle
<1>3. CASE rec.pc # "full"
  <2>1. RemoveMedia(Staged)
    BY <1>3 DEF CaptureFails
  <2>2. \A p \in Staged : p[1] = rec.hash /\ ~ContainsPath(pending, p)
    BY DEF Staged, MediaOf
  <2>3. Staged \cap Referenced = {}
    <3>1. ASSUME NEW i \in Live, NEW p \in MediaOf(clips[i]) PROVE p[1] # rec.hash
      <4> SUFFICES ASSUME p[1] = rec.hash PROVE FALSE
        OBVIOUS
      <4>1. clips[i].hash = rec.hash /\ Alone(clips[i].content)
        BY <3>1, ImageHash
      <4>2. QED
        BY <1>1, <4>1, ItemsTyped, AloneKeepsHash DEF RecordInv
    <3>2. QED
      BY <2>2, <3>1 DEF Referenced
  <2>4. \A i \in ClipIds : Open(i) => Staged \cap MediaOf(undo[i]) = {}
    BY <2>2, <2>3 DEF CoverInv
  <2>5. QED
    BY <1>1, <2>1, <2>3, <2>4, RemovalHarmless, FileStep DEF CaptureFails
<1>4. QED
  BY <1>2, <1>3

\* The new item owns a hash that was free, and what prune() takes was last
\* used before every open window, so no window counts on its media.
LEMMA CaptureSaveMedia ==
  ASSUME IInv, ImagesAlone, NEW i \in ClipIds, CaptureSave(i)
  PROVE  MediaInv'
<1> USE NoneAssumption DEF IInv, MediaInv
<1> DEFINE item == [content |-> rec.content, hash |-> rec.hash]
<1>1. PICK overAge \in SUBSET (settled \ {i}), doomed \in SUBSET Live :
        /\ doomed \subseteq overAge
        /\ clips' = TableWithout([clips EXCEPT ![i] = item], doomed)
        /\ byHash' = IndexWithout([byHash EXCEPT ![item.hash] = i], doomed)
        /\ pending' = Protect(pending, MediaOf(item))
        /\ settled' = (settled \ {i}) \ doomed
        /\ RemoveMedia(UNION {MediaOf(clips[j]) : j \in doomed})
  BY DEF CaptureSave
<1> DEFINE gone == UNION {MediaOf(clips[j]) : j \in doomed}
<1>2. /\ rec.pc = "save" /\ Fresh(i)
      /\ undo' = undo /\ nextToken' = nextToken /\ scan' = scan /\ rec'.pc = "idle"
  BY DEF CaptureSave, Idle
<1>3. /\ rec.content \in Contents /\ rec.hash \in Hashes
      /\ Alone(rec.content) => byHash[rec.hash] = None
      /\ Named(rec) /\ Intact(rec) /\ item \in Item
  BY <1>2, ItemsTyped DEF RecordInv, Item
<1>4. i \notin Live /\ i \notin doomed /\ undo[i] = None /\ pending[i] = None
  BY <1>2 DEF Fresh, Live
<1>5. /\ Live' = (Live \ doomed) \cup {i}
      /\ clips'[i] = item
      /\ \A j \in Live \ doomed : clips'[j] = clips[j]
  BY <1>1, <1>3, <1>4 DEF TableWithout, Live, TypeOK
<1>6. \A j \in Live : Alone(clips[j].content) => clips[j].hash # rec.hash
  BY <1>3, AloneKeepsHash
<1>7. Referenced \ gone \subseteq Referenced' /\ MediaOf(item) \subseteq Referenced'
  BY <1>5 DEF Referenced, MediaOf
<1>8. Referenced' \subseteq Referenced \cup MediaOf(item)
  BY <1>5 DEF Referenced, MediaOf
<1>9. \A j \in ClipIds : Open(j) => gone \cap MediaOf(undo[j]) = {}
  BY <1>1, MediaDisjoint DEF SettledInv
<1>10. ASSUME NEW j \in Live \ doomed
       PROVE  gone \cap MediaOf(clips[j]) = {}
  <2>1. ASSUME NEW k \in doomed PROVE MediaOf(clips[k]) \cap MediaOf(clips[j]) = {}
    BY <2>1, ImageHash, HashesDiffer, MediaDisjoint
  <2>2. QED
    BY <2>1
<1>11. gone \cap MediaOf(item) = {}
  <2>1. ASSUME NEW k \in doomed PROVE MediaOf(clips[k]) \cap MediaOf(item) = {}
    BY <1>6, <2>1, ImageHash, MediaDisjoint
  <2>2. QED
    BY <2>1
<1>12. \A p \in Paths \ gone : files'[p] = files[p]
  BY <1>1, RemoveMediaType
<1>13. /\ pending' \in [ClipIds -> Window \cup {None}]
       /\ \A j \in ClipIds : (pending'[j] = None) <=> (pending[j] = None)
       /\ \A j \in ClipIds : pending[j] # None =>
            /\ pending'[j].token = pending[j].token
            /\ pending'[j].paths = pending[j].paths \ MediaOf(item)
  BY <1>1, ProtectType DEF TypeOK
<1>14. IndexComplete'
  <2>1. byHash'[item.hash] = i
    BY <1>1, <1>3, <1>4 DEF IndexWithout, TypeOK
  <2>2. ASSUME NEW j \in Live \ doomed, Alone(clips[j].content)
        PROVE  byHash'[clips[j].hash] = j
    <3>1. byHash[clips[j].hash] = j /\ clips[j].hash \in Hashes /\ clips[j].hash # item.hash
      BY <1>6, <2>2, ItemsTyped DEF IndexComplete
    <3>2. QED
      BY <1>1, <3>1 DEF IndexWithout, TypeOK
  <2>3. QED
    BY <1>5, <2>1, <2>2 DEF IndexComplete
<1>15. AllNamed'
  <2>1. \A p \in Existing' : files'[p] \in Images /\ p[1] = Primary[files'[p]]
    BY <1>1, RemoveMediaType DEF AllNamed, Existing
  <2>2. \A j \in Live' : Named(clips[j])'
    BY <1>3, <1>5 DEF AllNamed, Named
  <2>3. \A j \in ClipIds : undo'[j] # None => Named(undo[j])'
    BY <1>2 DEF AllNamed, Named
  <2>4. QED
    BY <2>1, <2>2, <2>3 DEF AllNamed
<1>16. RecordInv'
  BY <1>2 DEF RecordInv
<1>17. WindowInv'
  <2> SUFFICES ASSUME NEW j \in ClipIds, pending'[j] # None
               PROVE  /\ j \notin Live'
                      /\ pending'[j].token <= nextToken'
                      /\ \A k \in ClipIds : pending'[k] # None
                           /\ pending'[k].token = pending'[j].token => j = k
                      /\ pending'[j].paths \cap Referenced' = {}
                      /\ undo'[j] # None => undo'[j].content \in Images /\ pending'[j].paths \subseteq MediaOf(undo[j])'
                      /\ scan'.pc = "done"
    BY DEF WindowInv
  <2>1. /\ pending[j] # None /\ j # i /\ pending'[j].token = pending[j].token
        /\ pending'[j].paths = pending[j].paths \ MediaOf(item)
    BY <1>4, <1>13
  <2>2. j \notin Live' /\ pending'[j].token <= nextToken' /\ scan'.pc = "done"
    BY <1>2, <1>5, <2>1 DEF WindowInv
  <2>3. \A k \in ClipIds : pending'[k] # None
          /\ pending'[k].token = pending'[j].token => j = k
    BY <1>13, <2>1 DEF WindowInv
  <2>4. pending'[j].paths \cap Referenced' = {}
    BY <1>8, <2>1 DEF WindowInv
  <2>5. undo'[j] # None => undo'[j].content \in Images /\ pending'[j].paths \subseteq MediaOf(undo[j])'
    BY <1>2, <2>1 DEF WindowInv, MediaOf
  <2>6. QED
    BY <2>2, <2>3, <2>4, <2>5
<1>18. \A j \in ClipIds : Open(j)' => Open(j) /\ MediaOf(undo[j])' = MediaOf(undo[j])
  BY <1>2, <1>13 DEF Open, MediaOf
<1>19. CoverInv'
  <2> SUFFICES ASSUME NEW j \in ClipIds, Open(j)', NEW p \in MediaOf(undo[j])
               PROVE  /\ p \in Referenced' \/ ContainsPath(pending, p)'
                      /\ \A k \in ClipIds : pending'[k] # None /\ p \in pending'[k].paths =>
                           pending'[j].token <= pending'[k].token
    BY <1>18 DEF CoverInv
  <2>1. Open(j)
    BY <1>18
  <2>2. p \in Referenced => p \in Referenced'
    BY <1>7, <1>9, <2>1
  <2>3. ContainsPath(pending, p) => p \in Referenced' \/ ContainsPath(pending, p)'
    BY <1>7, <1>13 DEF ContainsPath
  <2>4. \A k \in ClipIds : pending'[k] # None /\ p \in pending'[k].paths =>
          pending'[j].token <= pending'[k].token
    BY <1>13, <2>1 DEF CoverInv, Open
  <2>5. QED
    BY <2>1, <2>2, <2>3, <2>4 DEF CoverInv
<1>20. SettledInv'
  BY <1>1, <1>2, <1>5, <1>18 DEF SettledInv
<1>21. LiveMediaIntact'
  <2>1. ASSUME NEW j \in Live \ doomed, NEW p \in MediaOf(clips[j])
        PROVE  files'[p] = clips[j].content
    <3>1. p \in Paths
      BY <2>1, ItemsTyped, MediaOfType
    <3>2. QED
      BY <1>10, <1>12, <2>1, <3>1 DEF LiveMediaIntact, Intact
  <2>2. ASSUME NEW p \in MediaOf(item)
        PROVE  files'[p] = item.content
    <3>1. p \in MediaOf(rec) /\ p \in Paths
      BY <1>3, <2>2, MediaSame, MediaOfType
    <3>2. QED
      BY <1>3, <1>11, <1>12, <2>2, <3>1 DEF Intact
  <2>3. QED
    BY <1>5, <2>1, <2>2 DEF LiveMediaIntact, Intact, MediaOf
<1>22. PendingRestorable'
  <2> SUFFICES ASSUME NEW j \in ClipIds, Open(j)', NEW p \in MediaOf(undo[j])
               PROVE  files'[p] = undo[j].content
    BY <1>2, <1>18 DEF PendingRestorable, Intact, Open
  <2>1. Open(j) /\ p \in Paths
    BY <1>18, ItemsTyped, MediaOfType DEF Open
  <2>2. QED
    BY <1>9, <1>12, <2>1 DEF PendingRestorable, Intact, Open
<1>23. QED
  BY <1>14, <1>15, <1>16, <1>17, <1>19, <1>20, <1>21, <1>22

(***************************************************************************)
(* The user                                                                *)
(***************************************************************************)

\* The window opened by a deletion takes over the media of the item, and no
\* other item or window has a claim on them.
LEMMA DeleteMedia ==
  ASSUME IInv, ImagesAlone, Hazards = {}, NEW i \in ClipIds, Delete(i)
  PROVE  MediaInv'
<1> USE NoneAssumption DEF IInv, MediaInv
<1> DEFINE media == MediaOf(clips[i])
           opened == [token |-> nextToken + 1, paths |-> media]
<1>1. /\ i \in Live /\ scan.pc = "done" /\ LockFree
      /\ clips' = TableWithout(clips, {i})
      /\ byHash' = IndexWithout(byHash, {i})
      /\ undo' = [undo EXCEPT ![i] = clips[i]]
      /\ settled' = settled \ {i}
      /\ UNCHANGED <<files, rec, scan>>
  BY DEF Delete
<1>2. \/ media = {} /\ UNCHANGED <<pending, nextToken>>
      \/ /\ media # {}
         /\ nextToken' = nextToken + 1
         /\ pending' = [pending EXCEPT ![i] = opened]
  BY DEF Delete
<1>3. pending[i] = None
  BY <1>1 DEF WindowInv
<1>4. /\ Live' = Live \ {i}
      /\ clips'[i] = None
      /\ \A j \in Live \ {i} : clips'[j] = clips[j]
  BY <1>1 DEF TableWithout, Live, TypeOK
<1>5. /\ undo'[i] = clips[i]
      /\ \A j \in ClipIds \ {i} : undo'[j] = undo[j]
  BY <1>1 DEF TypeOK
<1>6. clips[i].content \in Images => \A j \in Live \ {i} : clips[j].hash # clips[i].hash
  BY <1>1, HashesDiffer DEF ImagesAlone
<1>7. /\ Referenced' \subseteq Referenced
      /\ Referenced \subseteq Referenced' \cup media
      /\ Referenced' \cap media = {}
      /\ media \subseteq Referenced
  <2>1. \A j \in Live \ {i} : MediaOf(clips[j])' = MediaOf(clips[j])
    BY <1>4 DEF MediaOf
  <2>2. \A j \in Live \ {i} : MediaOf(clips[j]) \cap media = {}
    <3>1. CASE clips[i].content \in Images
      BY <1>6, <3>1, MediaDisjoint
    <3>2. CASE clips[i].content \notin Images
      BY <3>2 DEF MediaOf
    <3>3. QED
      BY <3>1, <3>2
  <2>3. Referenced' = UNION {MediaOf(clips[j]) : j \in Live \ {i}}
    BY <1>4, <2>1 DEF Referenced
  <2>4. QED
    BY <1>1, <2>2, <2>3 DEF Referenced
<1>8. IndexComplete'
  <2>1. ASSUME NEW j \in Live \ {i}, Alone(clips[j].content)
        PROVE  byHash'[clips[j].hash] = j
    <3>1. byHash[clips[j].hash] = j /\ clips[j].hash \in Hashes
      BY <2>1, ItemsTyped DEF IndexComplete
    <3>2. QED
      BY <1>1, <2>1, <3>1 DEF IndexWithout
  <2>2. QED
    BY <1>4, <2>1 DEF IndexComplete
<1>9. AllNamed'
  <2>1. \A j \in Live' : Named(clips[j])'
    BY <1>4 DEF AllNamed, Named
  <2>2. \A j \in ClipIds : undo'[j] # None => Named(undo[j])'
    BY <1>1, <1>5 DEF AllNamed, Named
  <2>3. \A p \in Existing' : files'[p] \in Images /\ p[1] = Primary[files'[p]]
    BY <1>1 DEF AllNamed, Existing
  <2>4. QED
    BY <2>1, <2>2, <2>3 DEF AllNamed
<1>10. RecordInv'
  BY <1>1 DEF RecordInv, LockFree
<1>11. \A j \in ClipIds \ {i} : pending'[j] = pending[j]
  BY <1>2 DEF TypeOK
<1>12. ASSUME pending'[i] # None
       PROVE  /\ pending'[i] = opened /\ nextToken' = nextToken + 1
              /\ clips[i].content \in Images
  <2>1. media # {}
    BY <1>2, <1>3, <1>12
  <2>2. QED
    BY <1>2, <1>3, <1>12, <2>1 DEF TypeOK, MediaOf
<1>13. nextToken \in Nat /\ \A j \in ClipIds : pending[j] # None =>
         pending[j].token \in Nat /\ pending[j].token <= nextToken
  BY DEF TypeOK, Window, WindowInv
<1>14. nextToken' \in Nat /\ nextToken <= nextToken'
  BY <1>2, <1>13
<1>15. WindowInv'
  <2> SUFFICES ASSUME NEW j \in ClipIds, pending'[j] # None
               PROVE  /\ j \notin Live'
                      /\ pending'[j].token <= nextToken'
                      /\ \A k \in ClipIds : pending'[k] # None
                           /\ pending'[k].token = pending'[j].token => j = k
                      /\ pending'[j].paths \cap Referenced' = {}
                      /\ undo'[j] # None => undo'[j].content \in Images /\ pending'[j].paths \subseteq MediaOf(undo[j])'
                      /\ scan'.pc = "done"
    BY DEF WindowInv
  <2>1. scan'.pc = "done"
    BY <1>1
  <2>2. CASE j = i
    <3>1. pending'[j] = opened /\ nextToken' = nextToken + 1
      BY <1>12, <2>2
    <3>2. \A k \in ClipIds : pending'[k] # None /\ pending'[k].token = pending'[j].token => j = k
      BY <1>11, <1>13, <2>2, <3>1
    <3>3. MediaOf(undo[j])' = media /\ undo'[j].content \in Images
      BY <1>5, <1>12, <2>2 DEF MediaOf
    <3>4. QED
      BY <1>4, <1>7, <1>13, <2>1, <2>2, <3>1, <3>2, <3>3
  <2>3. CASE j # i
    <3>1. pending'[j] = pending[j] /\ undo'[j] = undo[j]
      BY <1>5, <1>11, <2>3
    <3>2. j \notin Live' /\ pending'[j].token <= nextToken'
      BY <1>4, <1>13, <1>14, <3>1 DEF WindowInv
    <3>3. \A k \in ClipIds : pending'[k] # None /\ pending'[k].token = pending'[j].token => j = k
      BY <1>11, <1>12, <1>13, <3>1 DEF WindowInv
    <3>4. pending'[j].paths \cap Referenced' = {}
      BY <1>7, <3>1 DEF WindowInv
    <3>5. undo'[j] # None => undo'[j].content \in Images /\ pending'[j].paths \subseteq MediaOf(undo[j])'
      BY <3>1 DEF WindowInv, MediaOf
    <3>6. QED
      BY <2>1, <3>2, <3>3, <3>4, <3>5
  <2>4. QED
    BY <2>2, <2>3
<1>16. CoverInv'
  <2> SUFFICES ASSUME NEW j \in ClipIds, Open(j)', NEW p \in MediaOf(undo[j])'
               PROVE  /\ p \in Referenced' \/ ContainsPath(pending, p)'
                      /\ \A k \in ClipIds : pending'[k] # None /\ p \in pending'[k].paths =>
                           pending'[j].token <= pending'[k].token
    BY DEF CoverInv
  <2>1. p \in media => ContainsPath(pending, p)'
    <3>1. opened \in Window
      <4>1. media \subseteq Paths
        BY <1>1, ItemsTyped, MediaOfType
      <4>2. QED
        BY <1>13, <4>1 DEF Window
    <3>2. p \in media => pending'[i] = opened
      BY <1>2 DEF TypeOK
    <3>3. QED
      BY <3>1, <3>2 DEF ContainsPath
  <2>2. CASE j = i
    <3>1. p \in media
      BY <1>5, <2>2 DEF MediaOf
    <3>2. \A k \in ClipIds \ {i} : pending'[k] # None => p \notin pending'[k].paths
      BY <1>7, <1>11, <3>1 DEF WindowInv
    <3>3. pending'[i].token \in Nat
      BY <1>12, <1>13, <2>2 DEF Open
    <3>4. QED
      BY <2>1, <2>2, <3>1, <3>2, <3>3
  <2>3. CASE j # i
    <3>1. pending'[j] = pending[j] /\ undo'[j] = undo[j] /\ Open(j)
      BY <1>5, <1>11, <2>3 DEF Open
    <3>2. p \in MediaOf(undo[j])
      BY <3>1 DEF MediaOf
    <3>3. p \in Referenced \/ ContainsPath(pending, p)
      BY <3>1, <3>2 DEF CoverInv
    <3>4. ContainsPath(pending, p) => ContainsPath(pending, p)'
      BY <1>3, <1>11 DEF ContainsPath
    <3>5. ASSUME NEW k \in ClipIds, pending'[k] # None, p \in pending'[k].paths
          PROVE  pending'[j].token <= pending'[k].token
      <4>1. CASE k = i
        BY <1>12, <1>13, <3>1, <3>5, <4>1 DEF Open
      <4>2. CASE k # i
        BY <1>11, <3>1, <3>2, <3>5, <4>2 DEF CoverInv
      <4>3. QED
        BY <4>1, <4>2
    <3>6. QED
      BY <1>7, <2>1, <3>3, <3>4, <3>5
  <2>4. QED
    BY <2>2, <2>3
<1>17. SettledInv'
  <2>1. settled' \subseteq Live'
    BY <1>1, <1>4 DEF SettledInv
  <2>2. ASSUME NEW j \in settled', NEW k \in ClipIds, Open(k)'
        PROVE  clips'[j].hash # undo'[k].hash
    <3>1. j \in Live \ {i} /\ j \in settled /\ clips'[j] = clips[j]
      BY <1>1, <1>4 DEF SettledInv
    <3>2. CASE k = i
      BY <1>5, <1>6, <1>12, <2>2, <3>1, <3>2 DEF Open
    <3>3. CASE k # i
      BY <1>5, <1>11, <2>2, <3>1, <3>3 DEF SettledInv, Open
    <3>4. QED
      BY <3>2, <3>3
  <2>3. QED
    BY <2>1, <2>2 DEF SettledInv
<1>18. LiveMediaIntact'
  <2>1. \A j \in Live \ {i} : Intact(clips[j])' <=> Intact(clips[j])
    BY <1>1, <1>4 DEF Intact, MediaOf
  <2>2. QED
    BY <1>4, <2>1 DEF LiveMediaIntact
<1>19. PendingRestorable'
  <2>1. Intact(undo[i])'
    BY <1>1, <1>5 DEF LiveMediaIntact, Intact, MediaOf
  <2>2. \A j \in ClipIds \ {i} : Open(j)' => Intact(undo[j])'
    BY <1>1, <1>5, <1>11 DEF PendingRestorable, Open, Intact, MediaOf
  <2>3. QED
    BY <2>1, <2>2 DEF PendingRestorable, Open
<1>20. QED
  BY <1>8, <1>9, <1>10, <1>15, <1>16, <1>17, <1>18, <1>19

\* A step that takes one deletion's window away, and its media out of the
\* other windows, once those media are in the history (again).
LEMMA RestoreStep ==
  ASSUME IInv, LockFree, NEW i \in ClipIds, undo[i] # None,
         pending' = Protect(Without(pending, i), MediaOf(undo[i])),
         UNCHANGED <<files, nextToken, settled, rec, scan>>,
         UndoClicked(i),
         IndexComplete', LiveMediaIntact',
         \A j \in Live' : Named(clips[j])',
         Live \subseteq Live', Live' \subseteq Live \cup {i},
         \A j \in Live : clips'[j] = clips[j],
         Referenced \subseteq Referenced', MediaOf(undo[i]) \subseteq Referenced',
         Referenced' \subseteq Referenced \cup MediaOf(undo[i])
  PROVE  MediaInv'
<1> USE NoneAssumption DEF IInv, MediaInv
<1>1. \A j \in ClipIds : undo'[j] = undo[j] \/ undo'[j] = None
  BY DEF UndoClicked, TypeOK
<1>2. ASSUME NEW j \in ClipIds, pending'[j] # None
      PROVE  /\ j # i /\ pending[j] # None /\ pending'[j].token = pending[j].token
             /\ pending'[j].paths = pending[j].paths \ MediaOf(undo[i])
  <2>1. Without(pending, i) \in [ClipIds -> Window \cup {None}]
    BY WithoutType DEF TypeOK
  <2>2. /\ Without(pending, i)[j] # None
        /\ pending'[j].token = Without(pending, i)[j].token
        /\ pending'[j].paths = Without(pending, i)[j].paths \ MediaOf(undo[i])
    BY <1>2, <2>1, ProtectType
  <2>3. j # i /\ Without(pending, i)[j] = pending[j]
    BY <2>2, WithoutType DEF TypeOK
  <2>4. QED
    BY <2>2, <2>3
<1>3. ASSUME NEW k \in ClipIds \ {i}, pending[k] # None
      PROVE  pending'[k] # None /\ pending'[k].paths = pending[k].paths \ MediaOf(undo[i])
  <2>1. Without(pending, i) \in [ClipIds -> Window \cup {None}]
    BY WithoutType DEF TypeOK
  <2>2. Without(pending, i)[k] = pending[k]
    BY WithoutType DEF TypeOK
  <2>3. QED
    BY <1>3, <2>1, <2>2, ProtectType
<1>4. ASSUME NEW j \in ClipIds, Open(j)'
      PROVE  j # i /\ Open(j) /\ undo'[j] = undo[j] /\ MediaOf(undo[j])' = MediaOf(undo[j])
             /\ pending'[j].token = pending[j].token
  <2>1. undo'[j] = undo[j] /\ pending'[j] # None
    BY <1>1, <1>4 DEF Open
  <2>2. QED
    BY <1>2, <1>4, <2>1 DEF Open, MediaOf
<1>5. AllNamed'
  <2>1. \A j \in ClipIds : undo'[j] # None => Named(undo[j])'
    BY <1>1 DEF AllNamed, Named
  <2>2. \A p \in Existing' : files'[p] \in Images /\ p[1] = Primary[files'[p]]
    BY DEF AllNamed, Existing
  <2>3. QED
    BY <2>1, <2>2 DEF AllNamed
<1>6. RecordInv'
  BY DEF RecordInv, LockFree
<1>7. WindowInv'
  <2> SUFFICES ASSUME NEW j \in ClipIds, pending'[j] # None
               PROVE  /\ j \notin Live'
                      /\ pending'[j].token <= nextToken'
                      /\ \A k \in ClipIds : pending'[k] # None
                           /\ pending'[k].token = pending'[j].token => j = k
                      /\ pending'[j].paths \cap Referenced' = {}
                      /\ undo'[j] # None => undo'[j].content \in Images /\ pending'[j].paths \subseteq MediaOf(undo[j])'
                      /\ scan'.pc = "done"
    BY DEF WindowInv
  <2>1. /\ j # i /\ pending[j] # None /\ pending'[j].token = pending[j].token
        /\ pending'[j].paths = pending[j].paths \ MediaOf(undo[i])
    BY <1>2
  <2>2. j \notin Live' /\ pending'[j].token <= nextToken' /\ scan'.pc = "done"
    BY <2>1 DEF WindowInv
  <2>3. \A k \in ClipIds : pending'[k] # None
          /\ pending'[k].token = pending'[j].token => j = k
    BY <1>2, <2>1 DEF WindowInv
  <2>4. pending'[j].paths \cap Referenced' = {}
    BY <2>1 DEF WindowInv
  <2>5. undo'[j] # None => undo'[j].content \in Images /\ pending'[j].paths \subseteq MediaOf(undo[j])'
    BY <1>1, <2>1 DEF WindowInv, MediaOf
  <2>6. QED
    BY <2>2, <2>3, <2>4, <2>5
<1>8. CoverInv'
  <2> SUFFICES ASSUME NEW j \in ClipIds, Open(j)', NEW p \in MediaOf(undo[j])
               PROVE  /\ p \in Referenced' \/ ContainsPath(pending, p)'
                      /\ \A k \in ClipIds : pending'[k] # None /\ p \in pending'[k].paths =>
                           pending'[j].token <= pending'[k].token
    BY <1>4 DEF CoverInv
  <2>1. Open(j) /\ pending'[j].token = pending[j].token
    BY <1>4
  <2>2. ASSUME ContainsPath(pending, p), p \notin MediaOf(undo[i])
        PROVE  ContainsPath(pending, p)'
    <3>1. PICK k \in ClipIds : pending[k] # None /\ p \in pending[k].paths
      BY <2>2 DEF ContainsPath
    <3>2. k # i
      BY <2>2, <3>1 DEF WindowInv
    <3>3. QED
      BY <1>3, <2>2, <3>1, <3>2 DEF ContainsPath
  <2>3. \A k \in ClipIds : pending'[k] # None /\ p \in pending'[k].paths =>
          pending'[j].token <= pending'[k].token
    BY <1>2, <2>1 DEF CoverInv, Open
  <2>4. QED
    BY <2>1, <2>2, <2>3 DEF CoverInv
<1>9. SettledInv'
  BY <1>4 DEF SettledInv
<1>10. PendingRestorable'
  BY <1>4 DEF PendingRestorable, Intact, Open
<1>11. QED
  BY <1>5, <1>6, <1>7, <1>8, <1>9, <1>10

\* The recaptured duplicate is the same content under the same fingerprint,
\* so the media stay in the history through it.
LEMMA RestoreDuplicateMedia ==
  ASSUME IInv, ImagesAlone, NEW i \in ClipIds, RestoreDuplicate(i)
  PROVE  MediaInv'
<1> USE NoneAssumption DEF IInv, MediaInv
<1>1. /\ LockFree /\ undo[i] # None /\ UndoClicked(i) /\ i \notin Live
      /\ pending' = Protect(Without(pending, i), MediaOf(undo[i]))
      /\ UNCHANGED <<clips, byHash, files, nextToken, settled, rec, scan>>
  BY DEF RestoreDuplicate, UndoClicked
<1> DEFINE d == byHash[undo[i].hash]
<1>2. undo[i].hash \in Hashes /\ undo[i].content \in Contents
  BY <1>1, ItemsTyped
<1>3. d \in Live /\ clips[d].hash = undo[i].hash
  BY <1>2 DEF RestoreDuplicate, Duplicate, IndexSound
<1>4. undo[i].content \in Images => clips[d].content = undo[i].content
  <2>1. Named(clips[d]) /\ Named(undo[i]) /\ clips[d].content \in Contents
    BY <1>1, <1>3, ItemsTyped DEF AllNamed
  <2>2. QED
    BY <1>2, <1>3, <2>1, SameContent DEF ImagesAlone
<1>5. MediaOf(undo[i]) \subseteq Referenced
  <2>1. CASE undo[i].content \in Images
    BY <1>3, <1>4, <2>1, MediaSame DEF Referenced
  <2>2. CASE undo[i].content \notin Images
    BY <2>2 DEF MediaOf
  <2>3. QED
    BY <2>1, <2>2
<1>6. Live' = Live /\ Referenced' = Referenced
  BY <1>1 DEF Live, Referenced, MediaOf
<1>7. IndexComplete' /\ LiveMediaIntact' /\ \A j \in Live' : Named(clips[j])'
  BY <1>1, <1>6 DEF IndexComplete, LiveMediaIntact, Intact, MediaOf, AllNamed, Named
<1>8. QED
  BY <1>1, <1>5, <1>6, <1>7, RestoreStep

\* Undoing brings the item back with its media, and if its content is alone
\* its hash was free: an owner would be the same payload, a duplicate.
LEMMA RestoreSaveMedia ==
  ASSUME IInv, ImagesAlone, NEW i \in ClipIds, RestoreSave(i)
  PROVE  MediaInv'
<1> USE NoneAssumption DEF IInv, MediaInv
<1>1. /\ LockFree /\ undo[i] # None /\ UndoClicked(i) /\ i \notin Live
      /\ Restorable(i) /\ ~Duplicate(i)
      /\ clips' = [clips EXCEPT ![i] = undo[i]]
      /\ byHash' = [byHash EXCEPT ![undo[i].hash] = i]
      /\ pending' = Protect(Without(pending, i), MediaOf(undo[i]))
      /\ UNCHANGED <<files, nextToken, settled, rec, scan>>
  BY DEF RestoreSave, UndoClicked, Save
<1> DEFINE d == byHash[undo[i].hash]
<1>2. undo[i].hash \in Hashes /\ undo[i].content \in Contents /\ Named(undo[i])
  BY <1>1, ItemsTyped DEF AllNamed
<1>3. Alone(undo[i].content) => d = None
  <2> SUFFICES ASSUME Alone(undo[i].content), d # None PROVE FALSE
    OBVIOUS
  <2>1. d \in Live /\ clips[d].hash = undo[i].hash
    BY <1>2 DEF IndexSound
  <2>2. clips[d].content = undo[i].content
    <3>1. Named(clips[d]) /\ clips[d].content \in Contents
      BY <2>1, ItemsTyped DEF AllNamed
    <3>2. QED
      BY <1>2, <2>1, <3>1, SameContent
  <2>3. QED
    BY <1>1, <2>1, <2>2 DEF Duplicate, SharePayload
<1>4. /\ Live' = Live \cup {i}
      /\ clips'[i] = undo[i]
      /\ \A j \in Live : clips'[j] = clips[j]
  BY <1>1 DEF Live, TypeOK
<1>5. Referenced' = Referenced \cup MediaOf(undo[i])
  <2>1. MediaOf(clips[i])' = MediaOf(undo[i])
    BY <1>4 DEF MediaOf
  <2>2. \A j \in Live : MediaOf(clips[j])' = MediaOf(clips[j])
    BY <1>4 DEF MediaOf
  <2>3. QED
    BY <1>4, <2>1, <2>2 DEF Referenced
<1>6. IndexComplete'
  <2>1. byHash'[undo[i].hash] = i
    BY <1>1, <1>2 DEF TypeOK
  <2>2. ASSUME NEW j \in Live, Alone(clips[j].content) PROVE byHash'[clips[j].hash] = j
    <3>1. byHash[clips[j].hash] = j /\ clips[j].hash # undo[i].hash
      BY <1>2, <1>3, <2>2, AloneKeepsHash DEF IndexComplete
    <3>2. QED
      BY <1>1, <3>1, ItemsTyped DEF TypeOK
  <2>3. QED
    BY <1>4, <2>1, <2>2 DEF IndexComplete
<1>7. LiveMediaIntact'
  <2>1. Intact(undo[i])
    BY <1>1 DEF Restorable, PendingRestorable, Intact
  <2>2. Intact(clips[i])'
    BY <1>1, <1>4, <2>1 DEF Intact, MediaOf
  <2>3. \A j \in Live : Intact(clips[j])'
    BY <1>1, <1>4 DEF LiveMediaIntact, Intact, MediaOf
  <2>4. QED
    BY <1>4, <2>2, <2>3 DEF LiveMediaIntact
<1>8. \A j \in Live' : Named(clips[j])'
  BY <1>2, <1>4 DEF AllNamed, Named
<1>9. QED
  BY <1>1, <1>4, <1>5, <1>6, <1>7, <1>8, RestoreStep

(***************************************************************************)
(* The timers, the scan and the rest                                       *)
(***************************************************************************)

\* Timers run in the order of their tokens, so the window that is closed is
\* the oldest one, and no younger window counts on its paths.
LEMMA FinalizeMedia ==
  ASSUME IInv, Hazards = {}, NEW t \in timers, Finalize(t)
  PROVE  MediaInv'
<1> USE NoneAssumption DEF IInv, MediaInv
<1> DEFINE i == t.id
<1>1. /\ i \in ClipIds /\ t.token \in Nat /\ t = [id |-> i, token |-> t.token]
  BY DEF TypeOK
<1>2. /\ LockFree /\ \A u \in timers : t.token <= u.token
      /\ UNCHANGED <<clips, byHash, nextToken, undo, settled, rec, scan>>
  BY DEF Finalize, InTurn
<1>3. CASE ~(pending[i] # None /\ pending[i].token = t.token)
  BY <1>2, <1>3, QuietStep DEF Finalize
<1>4. CASE pending[i] # None /\ pending[i].token = t.token
  <2> DEFINE paths == pending[i].paths
  <2>1. pending' = Without(pending, i) /\ RemoveMedia(paths)
    BY <1>4 DEF Finalize
  <2>2. /\ pending'[i] = None
        /\ \A j \in ClipIds \ {i} : pending'[j] = pending[j]
    BY <1>1, <2>1, WithoutType DEF TypeOK
  <2>3. \A j \in ClipIds : pending[j] # None => t.token <= pending[j].token
    BY <1>2 DEF EveryWindowHasTimer
  <2>4. ASSUME NEW j \in ClipIds \ {i}, Open(j)
        PROVE  paths \cap MediaOf(undo[j]) = {}
    <3> SUFFICES ASSUME NEW p \in MediaOf(undo[j]), p \in paths PROVE FALSE
      OBVIOUS
    <3>1. pending[j].token <= pending[i].token
      BY <1>1, <1>4, <2>4 DEF CoverInv
    <3>2. pending[j].token = pending[i].token
      <4>1. pending[j].token \in Nat
        BY <2>4 DEF Open, TypeOK, Window
      <4>2. QED
        BY <1>1, <1>4, <2>3, <2>4, <3>1, <4>1 DEF Open
    <3>3. QED
      BY <1>1, <1>4, <2>4, <3>2 DEF WindowInv, Open
  <2>5. paths \cap Referenced = {}
    BY <1>1, <1>4 DEF WindowInv
  <2>6. \A p \in Paths \ paths : files'[p] = files[p]
    BY <2>1, RemoveMediaType
  <2>7. Live' = Live /\ Referenced' = Referenced
    BY <1>2 DEF Live, Referenced, MediaOf
  <2>8. ASSUME NEW j \in ClipIds, Open(j)'
        PROVE  j # i /\ Open(j) /\ pending'[j] = pending[j]
    BY <1>2, <2>2, <2>8 DEF Open
  <2>9. IndexComplete' /\ RecordInv'
    BY <1>2, <2>7 DEF IndexComplete, RecordInv, LockFree
  <2>10. AllNamed'
    <3>1. \A p \in Existing' : files'[p] \in Images /\ p[1] = Primary[files'[p]]
      BY <2>1, RemoveMediaType DEF AllNamed, Existing
    <3>2. QED
      BY <1>2, <2>7, <3>1 DEF AllNamed, Named
  <2>11. WindowInv'
    BY <1>2, <2>2, <2>7 DEF WindowInv, MediaOf
  <2>12. CoverInv'
    <3> SUFFICES ASSUME NEW j \in ClipIds, Open(j)', NEW p \in MediaOf(undo[j])
                 PROVE  /\ p \in Referenced' \/ ContainsPath(pending, p)'
                        /\ \A k \in ClipIds : pending'[k] # None /\ p \in pending'[k].paths =>
                             pending'[j].token <= pending'[k].token
      BY <1>2 DEF CoverInv, MediaOf
    <3>1. j # i /\ Open(j) /\ pending'[j] = pending[j] /\ p \notin paths
      BY <2>4, <2>8
    <3>2. ContainsPath(pending, p) => ContainsPath(pending, p)'
      BY <2>2, <3>1 DEF ContainsPath
    <3>3. \A k \in ClipIds : pending'[k] # None /\ p \in pending'[k].paths =>
            pending'[j].token <= pending'[k].token
      BY <2>2, <3>1 DEF CoverInv
    <3>4. QED
      BY <2>7, <3>1, <3>2, <3>3 DEF CoverInv
  <2>13. SettledInv'
    BY <1>2, <2>7, <2>8 DEF SettledInv
  <2>14. LiveMediaIntact'
    <3>1. ASSUME NEW j \in Live, NEW p \in MediaOf(clips[j])
          PROVE  files'[p] = clips[j].content
      <4>1. p \in Paths /\ p \notin paths
        BY <2>5, <3>1, ItemsTyped, MediaOfType DEF Referenced
      <4>2. QED
        BY <2>6, <3>1, <4>1 DEF LiveMediaIntact, Intact
    <3>2. QED
      BY <1>2, <2>7, <3>1 DEF LiveMediaIntact, Intact, MediaOf
  <2>15. PendingRestorable'
    <3>1. ASSUME NEW j \in ClipIds, Open(j)', NEW p \in MediaOf(undo[j])
          PROVE  files'[p] = undo[j].content
      <4>1. j # i /\ Open(j)
        BY <2>8, <3>1
      <4>2. p \in Paths /\ p \notin paths
        BY <2>4, <3>1, <4>1, ItemsTyped, MediaOfType DEF Open
      <4>3. QED
        BY <2>6, <3>1, <4>1, <4>2 DEF PendingRestorable, Intact, Open
    <3>2. QED
      BY <1>2, <3>1 DEF PendingRestorable, Intact, Open, MediaOf
  <2>16. QED
    BY <2>9, <2>10, <2>11, <2>12, <2>13, <2>14, <2>15
<1>5. QED
  BY <1>3, <1>4

\* Clearing the history leaves nothing that could lose its media.
LEMMA ClearMedia ==
  ASSUME IInv, Clear
  PROVE  MediaInv'
<1> USE NoneAssumption DEF IInv, MediaInv
<1>1. Live' = {} /\ \A i \in ClipIds : pending'[i] = None
  BY DEF Clear, Live
<1>2. AllNamed'
  <2>1. \A p \in Existing' : files'[p] \in Images /\ p[1] = Primary[files'[p]]
    BY RemoveMediaType DEF Clear, AllNamed, Existing
  <2>2. QED
    BY <1>1, <2>1 DEF Clear, AllNamed, Named
<1>3. RecordInv'
  BY DEF Clear, RecordInv, LockFree
<1>4. IndexComplete' /\ LiveMediaIntact'
  BY <1>1 DEF IndexComplete, LiveMediaIntact
<1>5. WindowInv' /\ CoverInv' /\ PendingRestorable'
  BY <1>1 DEF WindowInv, CoverInv, Open, PendingRestorable
<1>6. SettledInv'
  BY DEF Clear, SettledInv
<1>7. QED
  BY <1>2, <1>3, <1>4, <1>5, <1>6

\* While the scan is under way no window is open, so the files without an
\* item are nobody's.
LEMMA ScanRemoveMedia ==
  ASSUME IInv, ScanRemove
  PROVE  MediaInv'
<1> USE DEF IInv, MediaInv
<1>1. RemoveMedia(scan.listed \ Referenced)
  BY DEF ScanRemove
<1>2. \A i \in ClipIds : ~Open(i)
  BY DEF ScanRemove, WindowInv, Open
<1>3. RecordInv'
  BY DEF ScanRemove, RecordInv, LockFree
<1>4. QED
  BY <1>1, <1>2, <1>3, RemovalHarmless, FileStep DEF ScanRemove

\* Items that become old share nothing with a window, as none is open.
LEMMA TimePassesMedia ==
  ASSUME IInv, TimePasses
  PROVE  MediaInv'
<1> USE DEF IInv, MediaInv
<1>1. \A i \in ClipIds : undo[i] = None /\ undo'[i] = None
  BY DEF TimePasses
<1>2. UNCHANGED <<clips, byHash, files, pending, nextToken, undo, rec, scan>>
  BY DEF TimePasses
<1>3. Live' = Live /\ Referenced' = Referenced /\ settled' = Live
  BY <1>2 DEF TimePasses, Live, Referenced, MediaOf
<1>4. IndexComplete' /\ RecordInv' /\ AllNamed'
  BY <1>2, <1>3 DEF IndexComplete, RecordInv, AllNamed, Named, Intact, MediaOf, Existing
<1>5. WindowInv'
  BY <1>2, <1>3 DEF WindowInv, MediaOf
<1>6. CoverInv' /\ SettledInv' /\ PendingRestorable'
  BY <1>1, <1>3 DEF CoverInv, SettledInv, PendingRestorable, Open
<1>7. LiveMediaIntact'
  BY <1>2, <1>3 DEF LiveMediaIntact, Intact, MediaOf
<1>8. QED
  BY <1>4, <1>5, <1>6, <1>7

\* After a crash anywhere the tables and the files still fit: media are
\* written before their item is, and removed after it.
LEMMA CrashMedia ==
  ASSUME IInv, Crash
  PROVE  MediaInv'
<1> USE DEF IInv, MediaInv
<1>1. /\ UNCHANGED <<clips, byHash, files, settled>>
      /\ rec' = Idle
      /\ \A i \in ClipIds : pending'[i] = None /\ undo'[i] = None
  BY DEF Crash
<1>2. Live' = Live /\ Referenced' = Referenced /\ Existing' = Existing
  BY <1>1 DEF Live, Referenced, MediaOf, Existing
<1>3. IndexComplete' /\ AllNamed' /\ RecordInv'
  BY <1>1, <1>2 DEF IndexComplete, AllNamed, Named, RecordInv, Idle
<1>4. WindowInv' /\ CoverInv' /\ SettledInv' /\ PendingRestorable'
  BY <1>1, <1>2 DEF WindowInv, CoverInv, SettledInv, PendingRestorable, Open
<1>5. LiveMediaIntact'
  BY <1>1, <1>2 DEF LiveMediaIntact, Intact, MediaOf
<1>6. QED
  BY <1>3, <1>4, <1>5

(***************************************************************************)
(* The inductive invariant and what it gives                               *)
(***************************************************************************)

\* The media are safe to begin with.
LEMMA InitMedia == Init => MediaInv
BY DEF Init, MediaInv, IndexComplete, AllNamed, RecordInv, WindowInv, CoverInv,
       SettledInv, LiveMediaIntact, PendingRestorable, Live, Existing, Open, Idle

\* Every step keeps the media safe, in an ordinary environment.
LEMMA NextMedia ==
  ASSUME ImagesAlone, Hazards = {}, IInv, [Next]_vars
  PROVE  MediaInv'
<1>1. ASSUME NEW i \in ClipIds, RestoreAgain(i)
      PROVE  MediaInv'
  BY <1>1, QuietStep DEF RestoreAgain, UndoClicked, IInv, TypeOK
<1>2. ASSUME NEW i \in ClipIds, RestoreFails(i)
      PROVE  MediaInv'
  <2>1. pending' = pending
    BY <1>2, PutBackIsIdentity DEF RestoreFails, IInv, TypeOK
  <2>2. QED
    BY <1>2, <2>1, QuietStep DEF RestoreFails, UndoClicked, IInv, TypeOK
<1>3. ASSUME NEW i \in ClipIds, UndoExpires(i)
      PROVE  MediaInv'
  BY <1>3, QuietStep DEF UndoExpires, IInv, TypeOK
<1>4. CASE Preload \/ ScanList \/ UNCHANGED vars
  BY <1>4, QuietStep DEF Preload, ScanList, vars
<1>5. ASSUME NEW c \in Contents, CaptureTouch(c) \/ CaptureBegin(c)
      PROVE  MediaInv'
  BY <1>5, TouchMedia, BeginMedia
<1>6. CASE PersistFull \/ PersistThumb \/ CaptureFails
  BY <1>6, PersistFullMedia, PersistThumbMedia, CaptureFailsMedia
<1>7. ASSUME NEW i \in ClipIds, CaptureSave(i) \/ Copy(i) \/ Delete(i)
      PROVE  MediaInv'
  BY <1>7, CaptureSaveMedia, CopyMedia, DeleteMedia
<1>8. ASSUME NEW i \in ClipIds, RestoreDuplicate(i) \/ RestoreSave(i)
      PROVE  MediaInv'
  BY <1>8, RestoreDuplicateMedia, RestoreSaveMedia
<1>9. ASSUME NEW t \in timers, Finalize(t)
      PROVE  MediaInv'
  BY <1>9, FinalizeMedia
<1>10. CASE Clear \/ ScanRemove \/ TimePasses \/ Crash
  BY <1>10, ClearMedia, ScanRemoveMedia, TimePassesMedia, CrashMedia
<1>11. QED
  BY <1>1, <1>2, <1>3, <1>4, <1>5, <1>6, <1>7, <1>8, <1>9, <1>10 DEF Next

\* If no image shares its fingerprint with another content, and in an ordinary
\* environment, the inductive invariant holds in every reachable state. Texts
\* and files may have one fingerprint, and rich text beside it or not.
THEOREM MediaInvariant ==
  ASSUME ImagesAlone, Hazards = {}
  PROVE  Spec => []MediaInv
<1>1. TypeOK /\ IndexSound /\ EveryWindowHasTimer /\ MediaInv /\ [Next]_vars => MediaInv'
  BY NextMedia DEF IInv
<1>2. QED
  BY <1>1, InitMedia, TypeCorrect, IndexCorrect, TimersCorrect, PTL DEF Spec

\* No item of the history loses its media, through crashes, failed captures,
\* failed removals, undone and finalised deletions, pruning and the scan.
THEOREM LiveMediaSafe ==
  ASSUME ImagesAlone, Hazards = {}
  PROVE  Spec => []LiveMediaIntact
<1>1. MediaInv => LiveMediaIntact
  BY DEF MediaInv
<1>2. QED
  BY <1>1, MediaInvariant, PTL

\* A deletion whose undo window is open can be undone completely.
THEOREM UndoSafe ==
  ASSUME ImagesAlone, Hazards = {}
  PROVE  Spec => []PendingRestorable
<1>1. MediaInv => PendingRestorable
  BY DEF MediaInv
<1>2. QED
  BY <1>1, MediaInvariant, PTL

\* Every item whose content is alone is the one its hash finds.
THEOREM IndexFindsEveryItem ==
  ASSUME ImagesAlone, Hazards = {}
  PROVE  Spec => []IndexComplete
<1>1. MediaInv => IndexComplete
  BY DEF MediaInv
<1>2. QED
  BY <1>1, MediaInvariant, PTL

\* The history never holds a content that is alone twice.
THEOREM NoDuplicates ==
  ASSUME ImagesAlone, Hazards = {}
  PROVE  Spec => []UniqueContent
<1>1. MediaInv => UniqueContent
  <2> SUFFICES ASSUME MediaInv, NEW i \in Live, NEW j \in Live,
                      clips[i].content = clips[j].content, Alone(clips[i].content)
               PROVE  i = j
    BY DEF UniqueContent
  <2>1. clips[i].hash = clips[j].hash
    BY DEF MediaInv, AllNamed, Named
  <2>2. QED
    BY <2>1 DEF MediaInv, IndexComplete
<1>2. QED
  BY <1>1, MediaInvariant, PTL

=============================================================================
