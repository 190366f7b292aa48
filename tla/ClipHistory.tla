----------------------------- MODULE ClipHistory -----------------------------
(***************************************************************************)
(* The clipboard history of ClipboardService: the encrypted history store, *)
(* the media files beside it, the in-memory undo windows of deleted items, *)
(* the recent-items cache, and everybody who touches them: the capture     *)
(* loop, the user (copy, delete, undo, clear), the timers that finalise a  *)
(* deletion, the startup orphan scan and a crash of the process.           *)
(*                                                                         *)
(* Every writer holds history_mutation_lock for its whole section, so a    *)
(* section is one action, except capture's record(), which is split where  *)
(* it awaits (rec.pc # "idle" means that capture holds the lock): a crash  *)
(* or the scan's unlocked listing may fall between its steps.              *)
(*                                                                         *)
(* An operation of the store or of the file system that fails and leaves   *)
(* everything as it was is a stuttering step and has no action.            *)
(***************************************************************************)
EXTENDS Naturals, FiniteSets

CONSTANTS
  ClipIds,         \* identifiers; a free one stands for a new UUID
  Contents,        \* what the pasteboard gets to hold in one behaviour
  Images,          \* the contents that are images, the others are inline
  Plain,           \* [Contents -> Contents], a content without its rich text
  Hashes,          \* content_hash values
  Primary,         \* [Contents -> Hashes], the FNV-1a fingerprint
  Secondary,       \* [Contents -> Hashes], the name after a collision
  Shape,           \* byte size and dimensions of a content
  CacheWindow,     \* CACHE_WINDOW
  MaxToken,        \* bound: deletions of an image in one run of the process
  Hazards,         \* what the environment may do beyond the ordinary, see below
  None

Item == [content : Contents, hash : Hashes]
Paths == Hashes \X {"img", "thumb"}
Window == [token : Nat, paths : SUBSET Paths]

ASSUME ContentAssumption ==
  /\ Images \subseteq Contents
  /\ Plain \in [Contents -> Contents]
  /\ \A c \in Contents : c \in Images <=> Plain[c] \in Images
  /\ Primary \in [Contents -> Hashes]
  /\ Secondary \in [Contents -> Hashes]
  /\ \A c \in Contents : Primary[c] # Secondary[c]
  /\ \A c, d \in Contents : Plain[c] = Plain[d] =>
       Primary[c] = Primary[d] /\ Secondary[c] = Secondary[d]
  /\ DOMAIN Shape = Contents

ASSUME NoneAssumption ==
  /\ None \notin ClipIds
  /\ None \notin Contents
  /\ None \notin Hashes
  /\ None \notin Item
  /\ None \notin Window

ASSUME BoundAssumption ==
  /\ CacheWindow \in Nat \ {0}
  /\ MaxToken \in Nat

(***************************************************************************)
(* The environment's hazards:                                              *)
(*   "read_fault"   reading a media file that exists may fail;             *)
(*   "early_delete" the user may delete while the orphan scan is running;  *)
(*   "late_timer"   undo timers may take the lock out of order;            *)
(*   "aged_undo"    a restored item, which keeps its old last_used_at, may *)
(*                  be over the retention limits at once.                  *)
(***************************************************************************)
ASSUME HazardAssumption ==
  Hazards \subseteq {"read_fault", "early_delete", "late_timer", "aged_undo"}

VARIABLES
  clips,      \* the clips table: id -> item
  byHash,     \* the clip_by_hash index: hash -> id
  files,      \* the media directory: path -> content, encrypted
  pending,    \* PendingMediaDeletes.items: id -> open undo window
  nextToken,  \* PendingMediaDeletes.next_token
  timers,     \* tasks sleeping until they call finalize_deleted_media
  undo,       \* the items held by "deleted, undo?" notifications
  settled,    \* items last used before every undo window that is still open
  cache,      \* ids of the recent-items cache
  preloaded,  \* has preload() run since startup?
  rec,        \* the record() under way
  scan        \* the startup orphan scan

vars == <<clips, byHash, files, pending, nextToken, timers, undo, settled,
          cache, preloaded, rec, scan>>

Idle == [pc |-> "idle", content |-> None, hash |-> None]
NewScan == [pc |-> "todo", listed |-> {}]

Live == {i \in ClipIds : clips[i] # None}
MediaOf(item) ==
  IF item.content \in Images THEN {item.hash} \X {"img", "thumb"} ELSE {}
Referenced == UNION {MediaOf(clips[i]) : i \in Live}
Existing == {p \in Paths : files[p] # None}
LockFree == rec.pc = "idle"

(***************************************************************************)
(* Helpers: the undo windows, the store, the cache and the files           *)
(***************************************************************************)

\* take_for_restore, expire: the window leaves the map.
Without(win, i) == [win EXCEPT ![i] = None]

\* Mutant: a reused path is not taken out of the windows.
ProtectNothing(win, paths) == win

\* protect_paths: the windows stay open but will not delete these paths.
Protect(win, paths) ==
  [i \in ClipIds |->
     IF win[i] = None THEN None
     ELSE [token |-> win[i].token, paths |-> win[i].paths \ paths]]

\* contains_path
ContainsPath(win, p) == \E i \in ClipIds : win[i] # None /\ p \in win[i].paths

\* Mutant: the item comes back without its index entry.
SaveUnindexed(i, item) ==
  /\ clips' = [clips EXCEPT ![i] = item]
  /\ UNCHANGED byHash

\* clip_save: upserts the item and makes it the owner of its hash.
Save(i, item) ==
  /\ clips' = [clips EXCEPT ![i] = item]
  /\ byHash' = [byHash EXCEPT ![item.hash] = i]

\* clip_delete and clip_prune: remove_hash_if_owned keeps another owner.
TableWithout(table, gone) == [i \in ClipIds |-> IF i \in gone THEN None ELSE table[i]]
IndexKept(index, gone) == index  \* mutant: entries of deleted items stay
IndexWithout(index, gone) == [h \in Hashes |-> IF index[h] \in gone THEN None ELSE index[h]]

\* Mutant: over-age items stay cached.
CacheUpsertAgeless(i, overAge) ==
  \E s \in SUBSET (cache \cup {i}) :
    /\ Cardinality(s) <= CacheWindow
    /\ (s = cache \cup {i}) \/ (Cardinality(s) = CacheWindow)
    /\ i \in s
    /\ cache' = s

\* cache_upsert: i in front, over-age items out, the tail cut at the window.
CacheUpsert(i, overAge) ==
  LET all == (cache \cup {i}) \ overAge
  IN \E s \in SUBSET all :
       /\ Cardinality(s) <= CacheWindow
       /\ (s = all) \/ (Cardinality(s) = CacheWindow)
       /\ (i \in s) \/ (i \in overAge)
       /\ cache' = s

\* remove_media on each path; a removal that fails leaves its file behind.
\* Only a path that exists can fail to go.
RemoveMedia(paths) ==
  \E left \in SUBSET (paths \cap Existing) :
    files' = [p \in Paths |-> IF p \in paths \ left THEN None ELSE files[p]]

\* MediaStore::persist keeps a file that is already there.
PersistMedia(p, c) ==
  files' = [files EXCEPT ![p] = IF files[p] = None THEN c ELSE files[p]]

\* May load_image succeed on a file?
Readings(p) == IF files[p] = None THEN {FALSE}
               ELSE IF "read_fault" \in Hazards THEN BOOLEAN ELSE {TRUE}

(***************************************************************************)
(* Capture                                                                 *)
(***************************************************************************)

ImageFile(i) == <<clips[i].hash, "img">>

\* payload_matches, where an image is compared with the file on disk, and a
\* text by its characters: neither the fingerprint nor inline_payload_matches
\* looks at the rich text beside it.
PayloadMatches(i, c, readable) ==
  IF c \in Images
  THEN /\ clips[i].content \in Images
       /\ Shape[clips[i].content] = Shape[c]
       /\ readable
       /\ files[ImageFile(i)] = c
  ELSE Plain[clips[i].content] = Plain[c]

HashOwnerMatches(h, c, readable) ==
  byHash[h] # None /\ PayloadMatches(byHash[h], c, readable)

\* The readings of the file behind a hash that record() may get.
HashReadings(h) == IF byHash[h] = None THEN {FALSE} ELSE Readings(<<h, "img">>)

\* record(): the primary fingerprint finds the same payload, or, after a
\* collision, the secondary one does; the item is touched and saved again.
CaptureTouch(c) ==
  /\ LockFree
  /\ \E r \in HashReadings(Primary[c]), s \in HashReadings(Secondary[c]) :
       \E h \in {Primary[c], Secondary[c]} :
         /\ IF h = Primary[c]
            THEN HashOwnerMatches(h, c, r)
            ELSE /\ byHash[Primary[c]] # None
                 /\ ~HashOwnerMatches(Primary[c], c, r)
                 /\ HashOwnerMatches(h, c, s)
         /\ LET i == byHash[h]
            IN /\ Save(i, clips[i])
               /\ settled' = settled \ {i}
               /\ \E overAge \in SUBSET (settled \ {i}) : CacheUpsert(i, overAge)
  /\ UNCHANGED <<files, pending, nextToken, timers, undo, preloaded, rec, scan>>

\* record(): nothing matches, so a new item is started under the first hash
\* that is not taken by another payload.
CaptureBegin(c) ==
  /\ LockFree
  /\ \E r \in HashReadings(Primary[c]), s \in HashReadings(Secondary[c]) :
       /\ ~HashOwnerMatches(Primary[c], c, r)
       /\ \/ byHash[Primary[c]] = None
          \/ ~HashOwnerMatches(Secondary[c], c, s)
  /\ rec' = [pc      |-> IF c \in Images THEN "full" ELSE "save",
             content |-> c,
             hash    |-> IF byHash[Primary[c]] = None THEN Primary[c] ELSE Secondary[c]]
  /\ UNCHANGED <<clips, byHash, files, pending, nextToken, timers, undo, settled,
                 cache, preloaded, scan>>

PersistFull ==
  /\ rec.pc = "full"
  /\ PersistMedia(<<rec.hash, "img">>, rec.content)
  /\ rec' = [rec EXCEPT !.pc = "thumb"]
  /\ UNCHANGED <<clips, byHash, pending, nextToken, timers, undo, settled, cache,
                 preloaded, scan>>

PersistThumb ==
  /\ rec.pc = "thumb"
  /\ PersistMedia(<<rec.hash, "thumb">>, rec.content)
  /\ rec' = [rec EXCEPT !.pc = "save"]
  /\ UNCHANGED <<clips, byHash, pending, nextToken, timers, undo, settled, cache,
                 preloaded, scan>>

\* Mutant: the rollback forgets that an undo window may need the file.
StagedUnfiltered ==
  IF rec.pc = "thumb" THEN {<<rec.hash, "img">>} ELSE MediaOf(rec)

\* unprotected_staged_media: what record() removes when it gives up.
Staged ==
  {p \in IF rec.pc = "thumb" THEN {<<rec.hash, "img">>} ELSE MediaOf(rec) :
     ~ContainsPath(pending, p)}

\* The full image, the thumbnail or the row could not be written.
CaptureFails ==
  /\ rec.pc \in {"full", "thumb", "save"}
  /\ IF rec.pc = "full" THEN UNCHANGED files ELSE RemoveMedia(Staged)
  /\ rec' = Idle
  /\ UNCHANGED <<clips, byHash, pending, nextToken, timers, undo, settled, cache,
                 preloaded, scan>>

\* A new UUID: no table, window, timer or notification knows it.
Fresh(i) ==
  /\ clips[i] = None
  /\ undo[i] = None
  /\ pending[i] = None
  /\ i \notin cache
  /\ \A t \in timers : t.id # i

\* clip_save, protect_item_media, cache_upsert and prune(). What prune takes
\* is old: no undo window that is open now was opened before its last use.
\* The two age cutoffs of one record() are taken as one instant.
CaptureSave(i) ==
  /\ rec.pc = "save"
  /\ Fresh(i)
  /\ LET item == [content |-> rec.content, hash |-> rec.hash]
         old == settled \ {i}
     IN \E overAge \in SUBSET old : \E doomed \in SUBSET (overAge \cap Live) :
          /\ clips' = TableWithout([clips EXCEPT ![i] = item], doomed)
          /\ byHash' = IndexWithout([byHash EXCEPT ![item.hash] = i], doomed)
          /\ pending' = Protect(pending, MediaOf(item))
          /\ CacheUpsert(i, overAge)
          /\ settled' = old \ doomed
          /\ RemoveMedia(UNION {MediaOf(clips[j]) : j \in doomed})
  /\ rec' = Idle
  /\ UNCHANGED <<nextToken, timers, undo, preloaded, scan>>

(***************************************************************************)
(* The user: copy, delete, undo, clear                                     *)
(***************************************************************************)

\* copy_to_clipboard and copy_as_plain_text of an item that is still there.
Copy(i) ==
  /\ LockFree
  /\ i \in Live
  /\ clips[i].content \in Images => TRUE \in Readings(ImageFile(i))
  /\ Save(i, clips[i])
  /\ settled' = settled \ {i}
  /\ \E overAge \in SUBSET (settled \ {i}) : CacheUpsert(i, overAge)
  /\ UNCHANGED <<files, pending, nextToken, timers, undo, preloaded, rec, scan>>

\* delete() and the timer that delete_clip starts for a staged window.
Delete(i) ==
  /\ LockFree
  /\ i \in Live
  /\ "early_delete" \in Hazards \/ scan.pc = "done"
  /\ clips' = TableWithout(clips, {i})
  /\ byHash' = IndexWithout(byHash, {i})
  /\ undo' = [undo EXCEPT ![i] = clips[i]]
  /\ settled' = IF "aged_undo" \in Hazards THEN settled ELSE settled \ {i}
  /\ cache' = cache \ {i}
  /\ \/ /\ MediaOf(clips[i]) = {}
        /\ UNCHANGED <<pending, nextToken, timers>>
     \/ /\ MediaOf(clips[i]) # {}
        /\ nextToken < MaxToken
        /\ nextToken' = nextToken + 1
        /\ pending' = [pending EXCEPT ![i] = [token |-> nextToken + 1,
                                              paths |-> MediaOf(clips[i])]]
        /\ timers' = timers \cup {[id |-> i, token |-> nextToken + 1]}
  /\ UNCHANGED <<files, preloaded, rec, scan>>

\* The click dismisses the notification; a second click may be on its way.
UndoClicked(i) ==
  /\ undo[i] # None
  /\ undo' \in {undo, [undo EXCEPT ![i] = None]}

\* clip_items_share_payload: of a text, the rich text has to agree as well.
SharePayload(a, b) ==
  /\ a.hash = b.hash
  /\ a.content \in Images <=> b.content \in Images
  /\ IF a.content \in Images THEN Shape[a.content] = Shape[b.content]
                             ELSE a.content = b.content

\* What restore() requires of an item with media: its window is still open.
Restorable(i) == MediaOf(undo[i]) = {} \/ pending[i] # None

NeverDuplicate(i) == FALSE  \* mutant: undo does not look for a recapture

Duplicate(i) ==
  LET d == byHash[undo[i].hash]
  IN d # None /\ d # i /\ SharePayload(clips[d], undo[i])

\* restore() of an item that is back already.
RestoreAgain(i) ==
  /\ LockFree
  /\ UndoClicked(i)
  /\ i \in Live
  /\ \E overAge \in SUBSET settled : CacheUpsert(i, overAge)
  /\ UNCHANGED <<clips, byHash, files, pending, nextToken, timers, settled,
                 preloaded, rec, scan>>

\* restore() when the same payload was captured again meanwhile.
RestoreDuplicate(i) ==
  /\ LockFree
  /\ UndoClicked(i)
  /\ i \notin Live
  /\ Restorable(i)
  /\ Duplicate(i)
  /\ pending' = Protect(Without(pending, i), MediaOf(undo[i]))
  /\ \E overAge \in SUBSET settled : CacheUpsert(byHash[undo[i].hash], overAge)
  /\ UNCHANGED <<clips, byHash, files, nextToken, timers, settled, preloaded,
                 rec, scan>>

RestoreSave(i) ==
  /\ LockFree
  /\ UndoClicked(i)
  /\ i \notin Live
  /\ Restorable(i)
  /\ ~Duplicate(i)
  /\ Save(i, undo[i])
  /\ pending' = Protect(Without(pending, i), MediaOf(undo[i]))
  /\ \E overAge \in SUBSET settled : CacheUpsert(i, overAge)
  /\ UNCHANGED <<files, nextToken, timers, settled, preloaded, rec, scan>>

\* Mutants: the window comes back under a new token, or with none.
PutBackRenewed(win, i, w) ==
  IF win[i] = None /\ w # None THEN [win EXCEPT ![i] = [w EXCEPT !.token = @ + 1]] ELSE win
PutBackTokenless(win, i, w) ==
  IF win[i] = None /\ w # None THEN [win EXCEPT ![i] = [w EXCEPT !.token = None]] ELSE win

PutBack(win, i, w) == IF win[i] = None THEN [win EXCEPT ![i] = w] ELSE win

RestoreFails(i) ==
  /\ LockFree
  /\ UndoClicked(i)
  /\ i \notin Live
  /\ Restorable(i)
  /\ ~Duplicate(i)
  /\ pending' = PutBack(Without(pending, i), i, pending[i])
  /\ UNCHANGED <<clips, byHash, files, nextToken, timers, settled, cache,
                 preloaded, rec, scan>>

\* The notification goes away by itself.
UndoExpires(i) ==
  /\ undo[i] # None
  /\ undo' = [undo EXCEPT ![i] = None]
  /\ UNCHANGED <<clips, byHash, files, pending, nextToken, timers, settled, cache,
                 preloaded, rec, scan>>

\* finalize_deleted_media. All grace periods are equal, so the timers take
\* the lock in the order of their tokens unless late.
InTurn(t) == "late_timer" \in Hazards \/ \A u \in timers : t.token <= u.token

Finalize(t) ==
  /\ LockFree
  /\ t \in timers
  /\ InTurn(t)
  /\ timers' = timers \ {t}
  /\ LET open == pending[t.id] # None /\ pending[t.id].token = t.token
     IN \/ /\ open
           /\ pending' = Without(pending, t.id)
           /\ RemoveMedia(pending[t.id].paths)
        \/ /\ ~open
           /\ UNCHANGED <<pending, files>>
  /\ UNCHANGED <<clips, byHash, nextToken, undo, settled, cache, preloaded, rec, scan>>

\* clear(): the media directory may not go completely.
Clear ==
  /\ LockFree
  /\ Live # {} \/ Existing # {}
  /\ clips' = [i \in ClipIds |-> None]
  /\ byHash' = [h \in Hashes |-> None]
  /\ pending' = [i \in ClipIds |-> None]
  /\ settled' = {}
  /\ cache' = {}
  /\ RemoveMedia(Paths)
  /\ UNCHANGED <<nextToken, timers, undo, preloaded, rec, scan>>

(***************************************************************************)
(* Startup, the passing of time, a crash                                   *)
(***************************************************************************)

\* preload(): the most recent items that fit the window.
Preload ==
  /\ LockFree
  /\ ~preloaded
  /\ preloaded' = TRUE
  /\ cache' \in {s \in SUBSET Live :
                   s = Live \/ Cardinality(s) = CacheWindow}
  /\ Cardinality(cache') <= CacheWindow
  /\ UNCHANGED <<clips, byHash, files, pending, nextToken, timers, undo, settled,
                 rec, scan>>

\* cleanup_orphans lists the directory before it takes the lock ...
ScanList ==
  /\ scan.pc = "todo"
  /\ scan' = [pc |-> "listed", listed |-> Existing]
  /\ UNCHANGED <<clips, byHash, files, pending, nextToken, timers, undo, settled,
                 cache, preloaded, rec>>

\* ... and asks the store which paths are referenced after it has it.
ScanRemove ==
  /\ LockFree
  /\ scan.pc = "listed"
  /\ RemoveMedia(scan.listed \ Referenced)
  /\ scan' = [pc |-> "done", listed |-> {}]
  /\ UNCHANGED <<clips, byHash, pending, nextToken, timers, undo, settled, cache,
                 preloaded, rec>>

\* A long time passes with nothing open: what lives now can become over-age.
TimePasses ==
  /\ LockFree
  /\ scan.pc = "done"
  /\ timers = {}
  /\ undo = [i \in ClipIds |-> None]
  /\ settled' = Live
  /\ UNCHANGED <<clips, byHash, files, pending, nextToken, timers, undo, cache,
                 preloaded, rec, scan>>

\* The process ends anywhere and starts again: the tables and files remain.
Crash ==
  /\ pending' = [i \in ClipIds |-> None]
  /\ nextToken' = 0
  /\ timers' = {}
  /\ undo' = [i \in ClipIds |-> None]
  /\ cache' = {}
  /\ preloaded' = FALSE
  /\ rec' = Idle
  /\ scan' = NewScan
  /\ UNCHANGED <<clips, byHash, files, settled>>

(***************************************************************************)
(* The specification                                                       *)
(***************************************************************************)

Init ==
  /\ clips = [i \in ClipIds |-> None]
  /\ byHash = [h \in Hashes |-> None]
  /\ files = [p \in Paths |-> None]
  /\ pending = [i \in ClipIds |-> None]
  /\ nextToken = 0
  /\ timers = {}
  /\ undo = [i \in ClipIds |-> None]
  /\ settled = {}
  /\ cache = {}
  /\ preloaded = FALSE
  /\ rec = Idle
  /\ scan = NewScan

Next ==
  \/ \E c \in Contents : CaptureTouch(c) \/ CaptureBegin(c)
  \/ PersistFull \/ PersistThumb \/ CaptureFails
  \/ \E i \in ClipIds :
       \/ CaptureSave(i) \/ Copy(i) \/ Delete(i)
       \/ RestoreAgain(i) \/ RestoreDuplicate(i) \/ RestoreSave(i) \/ RestoreFails(i)
       \/ UndoExpires(i)
  \/ \E t \in timers : Finalize(t)
  \/ Clear \/ Preload \/ ScanList \/ ScanRemove \/ TimePasses \/ Crash

Spec == Init /\ [][Next]_vars

(***************************************************************************)
(* Correctness                                                             *)
(***************************************************************************)

\* Every variable has its type.
TypeOK ==
  /\ clips \in [ClipIds -> Item \cup {None}]
  /\ byHash \in [Hashes -> ClipIds \cup {None}]
  /\ files \in [Paths -> Contents \cup {None}]
  /\ pending \in [ClipIds -> Window \cup {None}]
  /\ nextToken \in Nat
  /\ timers \subseteq [id : ClipIds, token : Nat]
  /\ undo \in [ClipIds -> Item \cup {None}]
  /\ settled \subseteq ClipIds
  /\ cache \subseteq ClipIds
  /\ preloaded \in BOOLEAN
  /\ rec \in [pc : {"full", "thumb", "save"}, content : Contents, hash : Hashes]
             \cup {Idle}
  /\ scan \in [pc : {"todo", "listed", "done"}, listed : SUBSET Paths]

Intact(item) == \A p \in MediaOf(item) : files[p] = item.content

\* No item of the history has lost its media: history_mutation_lock exists
\* "to serialise history and media writes, avoiding dangling media".
LiveMediaIntact == \A i \in Live : Intact(clips[i])

\* While the undo window of a deletion is open, undoing it brings the whole
\* item back: nobody has taken or replaced the media it left behind.
PendingRestorable ==
  \A i \in ClipIds : pending[i] # None /\ undo[i] # None => Intact(undo[i])

\* The hash index never points at an item that is gone or has another hash:
\* find_by_hash would fail for ever and that content could not be captured.
IndexSound ==
  \A h \in Hashes : byHash[h] # None =>
    byHash[h] \in Live /\ clips[byHash[h]].hash = h

\* A content whose fingerprint names nothing else that the pasteboard gets to
\* hold. A text that also comes with other rich text, or as the path of a
\* copied file, is not alone.
Alone(c) ==
  \A d \in Contents : Secondary[d] # Primary[c] /\ (Primary[d] = Primary[c] => d = c)

\* An item whose content is alone is the one its hash finds, so that copying
\* the content again touches it, whatever became of the others.
IndexComplete ==
  \A i \in Live : Alone(clips[i].content) => byHash[clips[i].hash] = i

\* Capturing and undoing never put a content that is alone into the history
\* twice.
UniqueContent ==
  \A i, j \in Live :
    clips[i].content = clips[j].content /\ Alone(clips[i].content) => i = j

\* What the drawer shows from the cache is still in the history.
CacheCoherent == cache \subseteq Live

\* Every open undo window has the timer that will close it: put_back keeps
\* the token the running timer knows.
EveryWindowHasTimer ==
  \A i \in ClipIds : pending[i] # None =>
    [id |-> i, token |-> pending[i].token] \in timers

(***************************************************************************)
(* Why the media are safe: the inductive invariant behind LiveMediaIntact  *)
(* and PendingRestorable, for an ordinary environment                      *)
(***************************************************************************)

\* No image has the fingerprint of another content; texts and files may.
ImagesAlone == \A c \in Images : Alone(c)

Named(item) ==
  /\ item.hash \in {Primary[item.content], Secondary[item.content]}
  /\ Alone(item.content) => item.hash = Primary[item.content]

\* Every item goes by one of its fingerprints, what is alone by the primary
\* one, and so do the files.
AllNamed ==
  /\ \A i \in Live : Named(clips[i])
  /\ \A i \in ClipIds : undo[i] # None => Named(undo[i])
  /\ \A p \in Existing : files[p] \in Images /\ p[1] = Primary[files[p]]

\* record() works on a hash nobody has if the content is alone, and what it
\* persisted is there.
RecordInv ==
  rec.pc # "idle" =>
    /\ Named(rec)
    /\ Alone(rec.content) => byHash[rec.hash] = None
    /\ rec.pc \in {"full", "thumb"} => rec.content \in Images
    /\ rec.pc = "thumb" => files[<<rec.hash, "img">>] = rec.content
    /\ rec.pc = "save" => Intact(rec)

Open(i) == pending[i] # None /\ undo[i] # None

\* An undo window is that of a deleted image; windows have tokens of their
\* own; none is open before the orphan scan is over.
WindowInv ==
  \A i \in ClipIds : pending[i] # None =>
    /\ i \notin Live
    /\ pending[i].token <= nextToken
    /\ \A j \in ClipIds : pending[j] # None /\ pending[j].token = pending[i].token => i = j
    /\ pending[i].paths \cap Referenced = {}
    /\ undo[i] # None => undo[i].content \in Images /\ pending[i].paths \subseteq MediaOf(undo[i])
    /\ scan.pc = "done"

\* The media of an open window belong to a live item, or to a window that is
\* not closed earlier.
CoverInv ==
  \A i \in ClipIds : Open(i) =>
    \A p \in MediaOf(undo[i]) :
      /\ p \in Referenced \/ ContainsPath(pending, p)
      /\ \A j \in ClipIds : pending[j] # None /\ p \in pending[j].paths =>
           pending[i].token <= pending[j].token

\* What can be pruned lives, and shares nothing with an open window.
SettledInv ==
  /\ settled \subseteq Live
  /\ \A j \in settled, i \in ClipIds : Open(i) => clips[j].hash # undo[i].hash

\* All of it together: an item, a window or a capture under way that needs a
\* file has it, and nobody else is about to remove it.
MediaInv ==
  /\ IndexComplete
  /\ AllNamed
  /\ RecordInv
  /\ WindowInv
  /\ CoverInv
  /\ SettledInv
  /\ LiveMediaIntact
  /\ PendingRestorable

(***************************************************************************)
(* Liveness: whoever waits for the lock gets it in the end (the capture    *)
(* loop sleeps between two ticks), and record() does not stop half-way.    *)
(***************************************************************************)
RecordStep == PersistFull \/ PersistThumb \/ CaptureFails \/ \E i \in ClipIds : CaptureSave(i)
TimerRuns(token) == \E t \in timers : t.token = token /\ Finalize(t)
Fairness ==
  /\ WF_vars(RecordStep)
  /\ \A token \in 1 .. MaxToken : SF_vars(TimerRuns(token))
FairSpec == Spec /\ Fairness

\* Every undo window is closed in the end, however often undoing it fails:
\* its media do not stay on disk until the next start.
WindowsClose ==
  \A i \in ClipIds : (pending[i] # None) ~> (pending[i] = None)

=============================================================================
