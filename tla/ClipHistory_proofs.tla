------------------------- MODULE ClipHistory_proofs -------------------------
(***************************************************************************)
(* Proofs about ClipHistory, for all contents, fingerprints and bounds.    *)
(***************************************************************************)
EXTENDS ClipHistory, TLAPS

(***************************************************************************)
(* Types of the helpers                                                    *)
(***************************************************************************)

\* The media of an item are paths under its hash.
LEMMA MediaOfType ==
  ASSUME NEW item, item.hash \in Hashes
  PROVE  MediaOf(item) \subseteq Paths
BY DEF MediaOf, Paths

\* protect_paths keeps every window open, under its token, with fewer paths.
LEMMA ProtectType ==
  ASSUME NEW win \in [ClipIds -> Window \cup {None}], NEW paths
  PROVE  /\ Protect(win, paths) \in [ClipIds -> Window \cup {None}]
         /\ \A i \in ClipIds : (Protect(win, paths)[i] = None) <=> (win[i] = None)
         /\ \A i \in ClipIds : win[i] # None =>
              /\ Protect(win, paths)[i].token = win[i].token
              /\ Protect(win, paths)[i].paths = win[i].paths \ paths
<1> USE NoneAssumption
<1>1. ASSUME NEW i \in ClipIds, win[i] # None
      PROVE  [token |-> win[i].token, paths |-> win[i].paths \ paths] \in Window
  BY <1>1 DEF Window
<1>2. QED
  BY <1>1 DEF Protect

\* A window that is taken leaves the others alone.
LEMMA WithoutType ==
  ASSUME NEW win \in [ClipIds -> Window \cup {None}], NEW i \in ClipIds
  PROVE  /\ Without(win, i) \in [ClipIds -> Window \cup {None}]
         /\ Without(win, i)[i] = None
         /\ \A j \in ClipIds \ {i} : Without(win, i)[j] = win[j]
BY DEF Without

\* put_back undoes take_for_restore.
LEMMA PutBackIsIdentity ==
  ASSUME NEW win \in [ClipIds -> Window \cup {None}], NEW i \in ClipIds
  PROVE  PutBack(Without(win, i), i, win[i]) = win
BY DEF PutBack, Without

\* Deleting rows leaves tables of the same type.
LEMMA TablesType ==
  ASSUME NEW table \in [ClipIds -> Item \cup {None}],
         NEW index \in [Hashes -> ClipIds \cup {None}], NEW gone
  PROVE  /\ TableWithout(table, gone) \in [ClipIds -> Item \cup {None}]
         /\ IndexWithout(index, gone) \in [Hashes -> ClipIds \cup {None}]
BY DEF TableWithout, IndexWithout

\* Removing media changes no file but those named, and creates none.
LEMMA RemoveMediaType ==
  ASSUME TypeOK, NEW paths, RemoveMedia(paths)
  PROVE  /\ files' \in [Paths -> Contents \cup {None}]
         /\ \A p \in Paths : files'[p] # None => files'[p] = files[p]
         /\ \A p \in Paths \ paths : files'[p] = files[p]
BY DEF TypeOK, RemoveMedia

\* Persisting creates one file and keeps one that is there.
LEMMA PersistMediaType ==
  ASSUME TypeOK, NEW q \in Paths, NEW c \in Contents, PersistMedia(q, c)
  PROVE  /\ files' \in [Paths -> Contents \cup {None}]
         /\ \A p \in Paths \ {q} : files'[p] = files[p]
         /\ files'[q] = IF files[q] = None THEN c ELSE files[q]
BY DEF TypeOK, PersistMedia

\* The cache gains at most the item that was used.
LEMMA CacheUpsertType ==
  ASSUME NEW i, NEW overAge, CacheUpsert(i, overAge)
  PROVE  cache' \subseteq (cache \cup {i}) \ overAge
BY DEF CacheUpsert

(***************************************************************************)
(* Type correctness                                                        *)
(***************************************************************************)

\* The initial state has the type.
LEMMA InitType == Init => TypeOK
<1> SUFFICES ASSUME Init PROVE TypeOK
  OBVIOUS
<1>1. scan \in [pc : {"todo", "listed", "done"}, listed : SUBSET Paths]
  BY DEF Init, NewScan
<1>2. timers \subseteq [id : ClipIds, token : Nat]
  BY DEF Init
<1>3. pending \in [ClipIds -> Window \cup {None}]
  BY DEF Init
<1>4. QED
  BY <1>1, <1>2, <1>3 DEF Init, TypeOK

\* Every step keeps the type.
LEMMA NextType ==
  ASSUME TypeOK, [Next]_vars
  PROVE  TypeOK'
<1> USE NoneAssumption, ContentAssumption
<1>1. ASSUME NEW c \in Contents, CaptureTouch(c)
      PROVE  TypeOK'
  <2>1. PICK h \in {Primary[c], Secondary[c]} :
          /\ byHash[h] # None
          /\ Save(byHash[h], clips[byHash[h]])
          /\ \E overAge : CacheUpsert(byHash[h], overAge)
    BY <1>1 DEF CaptureTouch, HashOwnerMatches
  <2>2. h \in Hashes /\ byHash[h] \in ClipIds
    BY <2>1 DEF TypeOK
  <2>3. clips' = clips
    BY <2>1, <2>2 DEF Save, TypeOK
  <2>4. byHash' \in [Hashes -> ClipIds \cup {None}]
    BY <2>1, <2>2 DEF Save, TypeOK
  <2>5. cache' \subseteq ClipIds
    BY <2>1, <2>2, CacheUpsertType DEF TypeOK
  <2>6. settled' \subseteq ClipIds
    BY <1>1 DEF CaptureTouch, TypeOK
  <2>7. QED
    BY <1>1, <2>3, <2>4, <2>5, <2>6 DEF CaptureTouch, TypeOK
<1>2. ASSUME NEW c \in Contents, CaptureBegin(c)
      PROVE  TypeOK'
  BY <1>2 DEF CaptureBegin, TypeOK
<1>3. CASE PersistFull
  <2>1. rec.pc = "full" /\ rec # Idle
    BY <1>3 DEF PersistFull, Idle
  <2>2. rec.content \in Contents /\ rec.hash \in Hashes
    BY <2>1 DEF TypeOK
  <2>3. files' \in [Paths -> Contents \cup {None}]
    BY <1>3, <2>2, PersistMediaType DEF PersistFull, Paths
  <2>4. rec' \in [pc : {"full", "thumb", "save"}, content : Contents, hash : Hashes]
    BY <1>3, <2>1 DEF PersistFull, TypeOK
  <2>5. QED
    BY <1>3, <2>3, <2>4 DEF PersistFull, TypeOK
<1>4. CASE PersistThumb
  <2>1. rec.pc = "thumb" /\ rec # Idle
    BY <1>4 DEF PersistThumb, Idle
  <2>2. rec.content \in Contents /\ rec.hash \in Hashes
    BY <2>1 DEF TypeOK
  <2>3. files' \in [Paths -> Contents \cup {None}]
    BY <1>4, <2>2, PersistMediaType DEF PersistThumb, Paths
  <2>4. rec' \in [pc : {"full", "thumb", "save"}, content : Contents, hash : Hashes]
    BY <1>4, <2>1 DEF PersistThumb, TypeOK
  <2>5. QED
    BY <1>4, <2>3, <2>4 DEF PersistThumb, TypeOK
<1>5. CASE CaptureFails
  <2>1. files' \in [Paths -> Contents \cup {None}]
    BY <1>5, RemoveMediaType DEF CaptureFails, TypeOK
  <2>2. QED
    BY <1>5, <2>1 DEF CaptureFails, TypeOK
<1>6. ASSUME NEW i \in ClipIds, CaptureSave(i)
      PROVE  TypeOK'
  <2> DEFINE item == [content |-> rec.content, hash |-> rec.hash]
  <2>1. rec.pc = "save" /\ rec # Idle
    BY <1>6 DEF CaptureSave, Idle
  <2>2. rec.content \in Contents /\ rec.hash \in Hashes
    BY <2>1 DEF TypeOK
  <2>3. item \in Item
    BY <2>2 DEF Item
  <2>4. PICK overAge \in SUBSET (settled \ {i}), doomed \in SUBSET Live :
          /\ doomed \subseteq overAge
          /\ clips' = TableWithout([clips EXCEPT ![i] = item], doomed)
          /\ byHash' = IndexWithout([byHash EXCEPT ![item.hash] = i], doomed)
          /\ pending' = Protect(pending, MediaOf(item))
          /\ CacheUpsert(i, overAge)
          /\ settled' = (settled \ {i}) \ doomed
          /\ RemoveMedia(UNION {MediaOf(clips[j]) : j \in doomed})
    BY <1>6 DEF CaptureSave
  <2>5. clips' \in [ClipIds -> Item \cup {None}]
    <3>1. [clips EXCEPT ![i] = item] \in [ClipIds -> Item \cup {None}]
      BY <2>3 DEF TypeOK
    <3>2. QED
      BY <2>4, <3>1 DEF TableWithout
  <2>6. byHash' \in [Hashes -> ClipIds \cup {None}]
    <3>1. [byHash EXCEPT ![item.hash] = i] \in [Hashes -> ClipIds \cup {None}]
      BY <2>2 DEF TypeOK
    <3>2. QED
      BY <2>4, <3>1 DEF IndexWithout
  <2>7. pending' \in [ClipIds -> Window \cup {None}]
    BY <2>4, ProtectType DEF TypeOK
  <2>8. cache' \subseteq ClipIds
    BY <2>4, CacheUpsertType DEF TypeOK
  <2>9. files' \in [Paths -> Contents \cup {None}]
    BY <2>4, RemoveMediaType
  <2>10. settled' \subseteq ClipIds
    BY <2>4 DEF TypeOK
  <2>11. QED
    BY <1>6, <2>5, <2>6, <2>7, <2>8, <2>9, <2>10 DEF CaptureSave, TypeOK
<1>7. ASSUME NEW i \in ClipIds, Copy(i)
      PROVE  TypeOK'
  <2>1. clips[i] \in Item /\ clips[i].hash \in Hashes
    BY <1>7 DEF Copy, Live, TypeOK, Item
  <2>2. clips' = clips /\ byHash' \in [Hashes -> ClipIds \cup {None}]
    BY <1>7, <2>1 DEF Copy, Save, TypeOK
  <2>3. cache' \subseteq ClipIds
    BY <1>7, CacheUpsertType DEF Copy, TypeOK
  <2>4. settled' \subseteq ClipIds
    BY <1>7 DEF Copy, TypeOK
  <2>5. QED
    BY <1>7, <2>2, <2>3, <2>4 DEF Copy, TypeOK
<1>8. ASSUME NEW i \in ClipIds, Delete(i)
      PROVE  TypeOK'
  <2>1. clips[i] \in Item /\ MediaOf(clips[i]) \subseteq Paths
    <3>1. clips[i] \in Item
      BY <1>8 DEF Delete, Live, TypeOK
    <3>2. QED
      BY <3>1, MediaOfType DEF Item
  <2>2. /\ clips' \in [ClipIds -> Item \cup {None}]
        /\ byHash' \in [Hashes -> ClipIds \cup {None}]
    BY <1>8, TablesType DEF Delete, TypeOK
  <2>3. undo' \in [ClipIds -> Item \cup {None}]
    BY <1>8, <2>1 DEF Delete, TypeOK
  <2>4. settled' \subseteq ClipIds /\ cache' \subseteq ClipIds
    BY <1>8 DEF Delete, TypeOK
  <2>5. /\ pending' \in [ClipIds -> Window \cup {None}]
        /\ nextToken' \in Nat
        /\ timers' \subseteq [id : ClipIds, token : Nat]
    <3>1. [token |-> nextToken + 1, paths |-> MediaOf(clips[i])] \in Window
      BY <2>1 DEF TypeOK, Window
    <3>2. QED
      BY <1>8, <3>1 DEF Delete, TypeOK
  <2>6. QED
    BY <1>8, <2>2, <2>3, <2>4, <2>5 DEF Delete, TypeOK
<1>9. ASSUME NEW i \in ClipIds, UndoClicked(i)
      PROVE  undo' \in [ClipIds -> Item \cup {None}]
  BY <1>9 DEF UndoClicked, TypeOK
<1>10. ASSUME NEW i \in ClipIds, RestoreAgain(i)
       PROVE  TypeOK'
  <2>1. cache' \subseteq ClipIds
    BY <1>10, CacheUpsertType DEF RestoreAgain, TypeOK
  <2>2. QED
    BY <1>9, <1>10, <2>1 DEF RestoreAgain, TypeOK
<1>11. ASSUME NEW i \in ClipIds, RestoreDuplicate(i)
       PROVE  TypeOK'
  <2>1. undo[i] \in Item
    BY <1>11 DEF RestoreDuplicate, UndoClicked, TypeOK
  <2>2. byHash[undo[i].hash] \in ClipIds
    BY <1>11, <2>1 DEF RestoreDuplicate, Duplicate, TypeOK, Item
  <2>3. cache' \subseteq ClipIds
    BY <1>11, <2>2, CacheUpsertType DEF RestoreDuplicate, TypeOK
  <2>4. pending' \in [ClipIds -> Window \cup {None}]
    <3>1. Without(pending, i) \in [ClipIds -> Window \cup {None}]
      BY WithoutType DEF TypeOK
    <3>2. QED
      BY <1>11, <3>1, ProtectType DEF RestoreDuplicate
  <2>5. QED
    BY <1>9, <1>11, <2>3, <2>4 DEF RestoreDuplicate, TypeOK
<1>12. ASSUME NEW i \in ClipIds, RestoreSave(i)
       PROVE  TypeOK'
  <2>1. undo[i] \in Item
    BY <1>12 DEF RestoreSave, UndoClicked, TypeOK
  <2>2. /\ clips' \in [ClipIds -> Item \cup {None}]
        /\ byHash' \in [Hashes -> ClipIds \cup {None}]
    BY <1>12, <2>1 DEF RestoreSave, Save, TypeOK, Item
  <2>3. cache' \subseteq ClipIds
    BY <1>12, CacheUpsertType DEF RestoreSave, TypeOK
  <2>4. pending' \in [ClipIds -> Window \cup {None}]
    <3>1. Without(pending, i) \in [ClipIds -> Window \cup {None}]
      BY WithoutType DEF TypeOK
    <3>2. QED
      BY <1>12, <3>1, ProtectType DEF RestoreSave
  <2>5. QED
    BY <1>9, <1>12, <2>2, <2>3, <2>4 DEF RestoreSave, TypeOK
<1>13. ASSUME NEW i \in ClipIds, RestoreFails(i)
       PROVE  TypeOK'
  <2>1. pending' = pending
    BY <1>13, PutBackIsIdentity DEF RestoreFails, TypeOK
  <2>2. QED
    BY <1>9, <1>13, <2>1 DEF RestoreFails, TypeOK
<1>14. ASSUME NEW i \in ClipIds, UndoExpires(i)
       PROVE  TypeOK'
  BY <1>14 DEF UndoExpires, TypeOK
<1>15. ASSUME NEW t \in timers, Finalize(t)
       PROVE  TypeOK'
  <2>1. t.id \in ClipIds
    BY DEF TypeOK
  <2>2. pending' \in [ClipIds -> Window \cup {None}]
    BY <1>15, <2>1, WithoutType DEF Finalize, TypeOK
  <2>3. files' \in [Paths -> Contents \cup {None}]
    BY <1>15, RemoveMediaType DEF Finalize, TypeOK
  <2>4. QED
    BY <1>15, <2>2, <2>3 DEF Finalize, TypeOK
<1>16. CASE Clear
  <2>1. files' \in [Paths -> Contents \cup {None}]
    BY <1>16, RemoveMediaType DEF Clear
  <2>2. QED
    BY <1>16, <2>1 DEF Clear, TypeOK
<1>17. CASE Preload
  BY <1>17 DEF Preload, TypeOK, Live
<1>18. CASE ScanList
  BY <1>18 DEF ScanList, TypeOK, Existing
<1>19. CASE ScanRemove
  <2>1. files' \in [Paths -> Contents \cup {None}]
    BY <1>19, RemoveMediaType DEF ScanRemove
  <2>2. QED
    BY <1>19, <2>1 DEF ScanRemove, TypeOK
<1>20. CASE TimePasses
  BY <1>20 DEF TimePasses, TypeOK, Live
<1>21. CASE Crash
  BY <1>21 DEF Crash, TypeOK, NewScan
<1>22. CASE UNCHANGED vars
  BY <1>22 DEF vars, TypeOK
<1>23. QED
  BY <1>1, <1>2, <1>3, <1>4, <1>5, <1>6, <1>7, <1>8, <1>10, <1>11, <1>12, <1>13,
     <1>14, <1>15, <1>16, <1>17, <1>18, <1>19, <1>20, <1>21, <1>22 DEF Next

\* Every reachable state of ClipHistory is well typed, whatever the environment does.
THEOREM TypeCorrect == Spec => []TypeOK
<1>1. Init => TypeOK
  BY InitType
<1>2. TypeOK /\ [Next]_vars => TypeOK'
  BY NextType
<1>3. QED
  BY <1>1, <1>2, PTL DEF Spec

(***************************************************************************)
(* The index, the cache and the timers: true in every environment, with    *)
(* colliding fingerprints too                                              *)
(***************************************************************************)

\* Saving an item that is in the table already only moves its index entry.
LEMMA TouchKeepsIndex ==
  ASSUME TypeOK, IndexSound, NEW i \in Live, Save(i, clips[i])
  PROVE  IndexSound' /\ clips' = clips
<1>1. clips[i] \in Item /\ clips[i].hash \in Hashes /\ i \in ClipIds
  BY DEF Live, TypeOK, Item
<1>2. clips' = clips
  BY DEF Save, TypeOK, Live
<1>3. byHash' = [byHash EXCEPT ![clips[i].hash] = i]
  BY DEF Save
<1>4. QED
  BY <1>1, <1>2, <1>3 DEF IndexSound, TypeOK, Live

\* Every step keeps the hash index sound.
LEMMA NextIndex ==
  ASSUME TypeOK, IndexSound, [Next]_vars
  PROVE  IndexSound'
<1> USE NoneAssumption, ContentAssumption
<1>1. ASSUME UNCHANGED <<clips, byHash>>
      PROVE  IndexSound'
  BY <1>1 DEF IndexSound, Live
<1>2. ASSUME NEW c \in Contents, CaptureTouch(c)
      PROVE  IndexSound'
  <2>1. PICK h \in Hashes : byHash[h] # None /\ Save(byHash[h], clips[byHash[h]])
    BY <1>2 DEF CaptureTouch, HashOwnerMatches
  <2>2. byHash[h] \in Live
    BY <2>1 DEF IndexSound
  <2>3. QED
    BY <2>1, <2>2, TouchKeepsIndex
<1>3. ASSUME NEW i \in ClipIds, CaptureSave(i)
      PROVE  IndexSound'
  <2> DEFINE item == [content |-> rec.content, hash |-> rec.hash]
  <2>1. PICK doomed \in SUBSET Live :
          /\ clips' = TableWithout([clips EXCEPT ![i] = item], doomed)
          /\ byHash' = IndexWithout([byHash EXCEPT ![item.hash] = i], doomed)
    BY <1>3 DEF CaptureSave
  <2>2. i \notin Live /\ item.hash \in Hashes /\ item # None
    <3>1. rec.pc = "save" /\ rec # Idle
      BY <1>3 DEF CaptureSave, Idle
    <3>2. rec.content \in Contents /\ rec.hash \in Hashes
      BY <3>1 DEF TypeOK
    <3>3. item \in Item
      BY <3>2 DEF Item
    <3>4. QED
      BY <1>3, <3>2, <3>3 DEF CaptureSave, Fresh, Live
  <2>3. SUFFICES ASSUME NEW h \in Hashes, byHash'[h] # None
                 PROVE  byHash'[h] \in Live' /\ clips'[byHash'[h]].hash = h
    BY DEF IndexSound
  <2>4. byHash'[h] = [byHash EXCEPT ![item.hash] = i][h] /\ byHash'[h] \notin doomed
    BY <2>1, <2>3 DEF IndexWithout
  <2>5. CASE h = item.hash
    <3>1. byHash'[h] = i
      BY <2>2, <2>4, <2>5 DEF TypeOK
    <3>2. clips'[i] = item
      BY <2>1, <2>2 DEF TableWithout, TypeOK
    <3>3. QED
      BY <3>1, <3>2, <2>2, <2>5 DEF Live
  <2>6. CASE h # item.hash
    <3>1. byHash'[h] = byHash[h]
      BY <2>4, <2>6 DEF TypeOK
    <3>2. byHash[h] \in Live /\ clips[byHash[h]].hash = h
      BY <2>3, <3>1 DEF IndexSound
    <3>3. clips'[byHash[h]] = clips[byHash[h]]
      BY <2>1, <2>2, <2>4, <3>1, <3>2 DEF TableWithout, Live, TypeOK
    <3>4. QED
      BY <3>1, <3>2, <3>3 DEF Live
  <2>7. QED
    BY <2>5, <2>6
<1>4. ASSUME NEW i \in ClipIds, Copy(i)
      PROVE  IndexSound'
  BY <1>4, TouchKeepsIndex DEF Copy
<1>5. ASSUME NEW i \in ClipIds, Delete(i)
      PROVE  IndexSound'
  BY <1>5 DEF Delete, TableWithout, IndexWithout, IndexSound, Live, TypeOK
<1>6. ASSUME NEW i \in ClipIds, RestoreSave(i)
      PROVE  IndexSound'
  <2>1. undo[i] \in Item /\ undo[i].hash \in Hashes /\ i \notin Live
    BY <1>6 DEF RestoreSave, UndoClicked, TypeOK, Item
  <2>2. /\ clips' = [clips EXCEPT ![i] = undo[i]]
        /\ byHash' = [byHash EXCEPT ![undo[i].hash] = i]
    BY <1>6 DEF RestoreSave, Save
  <2>3. QED
    BY <2>1, <2>2 DEF IndexSound, Live, TypeOK
<1>7. CASE Clear
  BY <1>7 DEF Clear, IndexSound
<1>8. QED
  BY <1>1, <1>2, <1>3, <1>4, <1>5, <1>6, <1>7
     DEF Next, vars, CaptureBegin, PersistFull, PersistThumb, CaptureFails,
         RestoreAgain, RestoreDuplicate, RestoreFails, UndoExpires, Finalize,
         Preload, ScanList, ScanRemove, TimePasses, Crash

\* The empty index is sound.
LEMMA InitIndex == Init => IndexSound
BY DEF Init, IndexSound

\* find_by_hash never meets a dangling index entry, so no content becomes
\* impossible to capture.
THEOREM IndexCorrect == Spec => []IndexSound
<1>1. TypeOK /\ IndexSound /\ [Next]_vars => IndexSound'
  BY NextIndex
<1>2. QED
  BY <1>1, InitIndex, TypeCorrect, PTL DEF Spec

\* Every step keeps the cache within the history.
LEMMA NextCache ==
  ASSUME TypeOK, IndexSound, CacheCoherent, [Next]_vars
  PROVE  CacheCoherent'
<1> USE NoneAssumption, ContentAssumption
<1>1. ASSUME clips' = clips, cache' \subseteq Live
      PROVE  CacheCoherent'
  BY <1>1 DEF CacheCoherent, Live
<1>2. ASSUME clips' = clips, NEW i \in Live, NEW overAge, CacheUpsert(i, overAge)
      PROVE  CacheCoherent'
  BY <1>1, <1>2, CacheUpsertType DEF CacheCoherent
<1>3. ASSUME NEW c \in Contents, CaptureTouch(c)
      PROVE  CacheCoherent'
  <2>1. PICK h \in Hashes, overAge \in SUBSET settled :
          /\ byHash[h] # None
          /\ Save(byHash[h], clips[byHash[h]])
          /\ CacheUpsert(byHash[h], overAge)
    BY <1>3, ContentAssumption DEF CaptureTouch, HashOwnerMatches
  <2>2. byHash[h] \in Live
    BY <2>1 DEF IndexSound
  <2>3. QED
    BY <1>2, <2>1, <2>2, TouchKeepsIndex
<1>4. ASSUME NEW i \in ClipIds, CaptureSave(i)
      PROVE  CacheCoherent'
  <2> DEFINE item == [content |-> rec.content, hash |-> rec.hash]
  <2>1. PICK overAge \in SUBSET (settled \ {i}), doomed \in SUBSET Live :
          /\ doomed \subseteq overAge
          /\ clips' = TableWithout([clips EXCEPT ![i] = item], doomed)
          /\ CacheUpsert(i, overAge)
    BY <1>4 DEF CaptureSave
  <2>2. item # None
    <3>1. rec.pc = "save" /\ rec # Idle
      BY <1>4 DEF CaptureSave, Idle
    <3>2. item \in Item
      BY <3>1 DEF TypeOK, Item
    <3>3. QED
      BY <3>2
  <2>3. cache' \subseteq (cache \cup {i}) \ doomed
    BY <2>1, CacheUpsertType
  <2>4. (Live \cup {i}) \ doomed \subseteq Live'
    BY <2>1, <2>2 DEF TableWithout, Live, TypeOK
  <2>5. QED
    BY <2>3, <2>4 DEF CacheCoherent
<1>5. ASSUME NEW i \in ClipIds, Copy(i)
      PROVE  CacheCoherent'
  BY <1>2, <1>5, TouchKeepsIndex DEF Copy
<1>6. ASSUME NEW i \in ClipIds, Delete(i)
      PROVE  CacheCoherent'
  BY <1>6 DEF Delete, TableWithout, CacheCoherent, Live, TypeOK
<1>7. ASSUME NEW i \in ClipIds, RestoreAgain(i)
      PROVE  CacheCoherent'
  BY <1>2, <1>7 DEF RestoreAgain
<1>8. ASSUME NEW i \in ClipIds, RestoreDuplicate(i)
      PROVE  CacheCoherent'
  <2>1. undo[i].hash \in Hashes
    BY <1>8 DEF RestoreDuplicate, UndoClicked, TypeOK, Item
  <2>2. byHash[undo[i].hash] \in Live
    BY <1>8, <2>1 DEF RestoreDuplicate, Duplicate, IndexSound
  <2>3. QED
    BY <1>2, <1>8, <2>2 DEF RestoreDuplicate
<1>9. ASSUME NEW i \in ClipIds, RestoreSave(i)
      PROVE  CacheCoherent'
  <2>1. cache' \subseteq cache \cup {i}
    BY <1>9, CacheUpsertType DEF RestoreSave
  <2>2. Live \cup {i} \subseteq Live'
    BY <1>9 DEF RestoreSave, UndoClicked, Save, Live, TypeOK
  <2>3. QED
    BY <2>1, <2>2 DEF CacheCoherent
<1>10. CASE Clear
  BY <1>10 DEF Clear, CacheCoherent
<1>11. CASE Preload
  BY <1>1, <1>11 DEF Preload
<1>12. CASE Crash
  BY <1>12 DEF Crash, CacheCoherent
<1>13. ASSUME UNCHANGED <<clips, cache>>
       PROVE  CacheCoherent'
  BY <1>13 DEF CacheCoherent, Live
<1>14. QED
  BY <1>3, <1>4, <1>5, <1>6, <1>7, <1>8, <1>9, <1>10, <1>11, <1>12, <1>13
     DEF Next, vars, CaptureBegin, PersistFull, PersistThumb, CaptureFails,
         RestoreFails, UndoExpires, Finalize, ScanList, ScanRemove, TimePasses

\* The empty cache is within the history.
LEMMA InitCache == Init => CacheCoherent
BY DEF Init, CacheCoherent

\* The drawer never shows an item from the cache that the history has lost.
THEOREM CacheCorrect == Spec => []CacheCoherent
<1>1. TypeOK /\ IndexSound /\ CacheCoherent /\ [Next]_vars => CacheCoherent'
  BY NextCache
<1>2. QED
  BY <1>1, InitCache, TypeCorrect, IndexCorrect, PTL DEF Spec

\* Every step keeps a timer for every open window.
LEMMA NextTimers ==
  ASSUME TypeOK, EveryWindowHasTimer, [Next]_vars
  PROVE  EveryWindowHasTimer'
<1> USE NoneAssumption
<1>1. ASSUME NEW paths, pending' = Protect(pending, paths), timers \subseteq timers'
      PROVE  EveryWindowHasTimer'
  <2>1. \A i \in ClipIds : pending'[i] # None =>
          pending[i] # None /\ pending'[i].token = pending[i].token
    BY <1>1, ProtectType DEF TypeOK
  <2>2. QED
    BY <1>1, <2>1 DEF EveryWindowHasTimer
<1>2. ASSUME NEW i \in ClipIds, NEW paths,
             pending' = Protect(Without(pending, i), paths), timers' = timers
      PROVE  EveryWindowHasTimer'
  <2>1. Without(pending, i) \in [ClipIds -> Window \cup {None}]
    BY WithoutType DEF TypeOK
  <2>2. \A j \in ClipIds : pending'[j] # None =>
          pending[j] # None /\ pending'[j].token = pending[j].token
    <3>1. ASSUME NEW j \in ClipIds, pending'[j] # None
          PROVE  pending[j] # None /\ pending'[j].token = pending[j].token
      <4>1. /\ Without(pending, i)[j] # None
            /\ pending'[j].token = Without(pending, i)[j].token
        BY <1>2, <2>1, <3>1, ProtectType
      <4>2. j # i /\ Without(pending, i)[j] = pending[j]
        BY <4>1, WithoutType DEF TypeOK
      <4>3. QED
        BY <4>1, <4>2
    <3>2. QED
      BY <3>1
  <2>3. QED
    BY <1>2, <2>2 DEF EveryWindowHasTimer
<1>3. ASSUME NEW i \in ClipIds, CaptureSave(i)
      PROVE  EveryWindowHasTimer'
  BY <1>1, <1>3 DEF CaptureSave
<1>4. ASSUME NEW i \in ClipIds, Delete(i)
      PROVE  EveryWindowHasTimer'
  <2>1. CASE UNCHANGED <<pending, nextToken, timers>>
    BY <2>1 DEF EveryWindowHasTimer
  <2>2. CASE ~UNCHANGED <<pending, nextToken, timers>>
    <3>1. /\ pending' = [pending EXCEPT ![i] = [token |-> nextToken + 1,
                                               paths |-> MediaOf(clips[i])]]
          /\ timers' = timers \cup {[id |-> i, token |-> nextToken + 1]}
      BY <1>4, <2>2 DEF Delete
    <3>2. QED
      BY <3>1 DEF EveryWindowHasTimer, TypeOK
  <2>3. QED
    BY <2>1, <2>2
<1>5. ASSUME NEW i \in ClipIds, RestoreDuplicate(i) \/ RestoreSave(i)
      PROVE  EveryWindowHasTimer'
  <2>1. pending' = Protect(Without(pending, i), MediaOf(undo[i])) /\ timers' = timers
    BY <1>5 DEF RestoreDuplicate, RestoreSave
  <2>2. QED
    BY <1>2, <2>1
<1>6. ASSUME NEW i \in ClipIds, RestoreFails(i)
      PROVE  EveryWindowHasTimer'
  <2>1. pending' = pending
    BY <1>6, PutBackIsIdentity DEF RestoreFails, TypeOK
  <2>2. QED
    BY <1>6, <2>1 DEF RestoreFails, EveryWindowHasTimer
<1>7. ASSUME NEW t \in timers, Finalize(t)
      PROVE  EveryWindowHasTimer'
  <2>1. t \in [id : ClipIds, token : Nat]
    BY DEF TypeOK
  <2>2. CASE pending[t.id] # None /\ pending[t.id].token = t.token
    <3>1. pending' = Without(pending, t.id) /\ timers' = timers \ {t}
      BY <1>7, <2>2 DEF Finalize
    <3>2. \A i \in ClipIds : pending'[i] # None => i # t.id /\ pending'[i] = pending[i]
      BY <2>1, <3>1, WithoutType DEF TypeOK
    <3>3. QED
      BY <3>1, <3>2 DEF EveryWindowHasTimer
  <2>3. CASE ~(pending[t.id] # None /\ pending[t.id].token = t.token)
    <3>1. pending' = pending /\ timers' = timers \ {t}
      BY <1>7, <2>3 DEF Finalize
    <3>2. QED
      BY <2>3, <3>1 DEF EveryWindowHasTimer
  <2>4. QED
    BY <2>2, <2>3
<1>8. CASE Clear
  BY <1>8 DEF Clear, EveryWindowHasTimer
<1>9. CASE Crash
  BY <1>9 DEF Crash, EveryWindowHasTimer
<1>10. ASSUME UNCHANGED <<pending, timers>>
       PROVE  EveryWindowHasTimer'
  BY <1>10 DEF EveryWindowHasTimer
<1>11. QED
  BY <1>3, <1>4, <1>5, <1>6, <1>7, <1>8, <1>9, <1>10
     DEF Next, vars, CaptureTouch, CaptureBegin, PersistFull, PersistThumb,
         CaptureFails, Copy, RestoreAgain, UndoExpires, Preload, ScanList,
         ScanRemove, TimePasses

\* No window is open to begin with.
LEMMA InitTimers == Init => EveryWindowHasTimer
BY DEF Init, EveryWindowHasTimer

\* An open undo window always has the timer that will close it.
THEOREM TimersCorrect == Spec => []EveryWindowHasTimer
<1>1. TypeOK /\ EveryWindowHasTimer /\ [Next]_vars => EveryWindowHasTimer'
  BY NextTimers
<1>2. QED
  BY <1>1, InitTimers, TypeCorrect, PTL DEF Spec

=============================================================================
