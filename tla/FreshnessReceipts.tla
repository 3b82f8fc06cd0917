------------------------- MODULE FreshnessReceipts -------------------------
(***************************************************************************)
(* cache.py (CacheManager), primitives.py (LRUCache) and the freshness     *)
(* decision of _core/compare.py, for one file of the mirror over several   *)
(* runs. A receipt holds the ETag of what was published and what tells the *)
(* local file apart: its stamp (size, mtime and ctime) or, with            *)
(* --verify-content, its SHA-256. It lives in an LRU cache, in a           *)
(* dictionary, and between runs in the cache file.                         *)
(*                                                                         *)
(* A check runs in a thread of its own. With LateChecks one that was cut   *)
(* off by its deadline goes on while the file is downloaded. The server    *)
(* changes the file, other programs write it, runs crash and cache files   *)
(* are damaged or grow old. No two writes share a stamp; the remote        *)
(* contents are their own ETags. Where no ETag decides, the code compares  *)
(* size and modification time: those verdicts are left open.               *)
(***************************************************************************)
EXTENDS Naturals

CONSTANTS
    Remote,         \* contents the server has
    Foreign,        \* contents other programs write
    SizeOf,         \* the size of a content
    NoContent,
    VerifyContent, LateChecks,      \* BOOLEANs
    Meddling,       \* when other programs write: subset of {"between", "checking", "noting"}
    Writes, Changes, Runs           \* bounds of a behaviour

Content == Remote \union Foreign

\* Assumed of the constants wherever the module is instantiated.
ReceiptAssumption ==
    /\ NoContent \notin Content /\ SizeOf \in [Content -> Nat]
    /\ VerifyContent \in BOOLEAN /\ LateChecks \in BOOLEAN
    /\ Meddling \subseteq {"between", "checking", "noting"}
    /\ Writes \in Nat /\ Changes \in Nat /\ Runs \in Nat

NoFile == [content |-> NoContent, stamp |-> 0]
NoReceipt == [etag |-> NoContent, size |-> 0, stamp |-> 0, sha |-> NoContent, old |-> FALSE]

VARIABLES
    remote, changes,    \* what the server has, and how often it changed
    local, last,        \* the local file, and the last stamp given
    lru, dict,          \* the receipt in memory, at two levels
    file, saved,        \* the cache file: what it is, and the receipt in it
    run, runs,          \* "idle", "check" or "load" or "cleanup"; how many
    checker,            \* "none", "stat", "lru", "asked" or "done"
    seen,               \* the file as the check found it
    cached,             \* what it read from the LRU cache
    stored, verified,   \* the receipt it goes by, and whether the file is the one it describes
    judged,             \* the content that was told apart
    verdict,            \* of the last check: verdict, ground, and whether it is true
    loader,             \* "none", "fetched", "published", "half", "done" or "unlinked"
    got, noting,        \* what the transfer received, and the receipt it notes
    loaded              \* what load told: "none", "ok", "failed", or "forced" by --refresh-cache

world == <<remote, changes>>
disk == <<local, last>>
levels == <<lru, dict>>
store == <<file, saved>>
check == <<checker, seen, cached, stored, verified, judged, verdict>>
transfer == <<loader, got, noting>>
phase == <<run, runs, loaded>>
vars == <<world, disk, levels, store, check, transfer, phase>>

NoVerdict == [of |-> "none", by |-> "none", true |-> TRUE, expired |-> FALSE]

Init ==
    /\ remote \in Remote /\ changes = 0
    /\ local = NoFile /\ last = 0
    /\ lru = NoReceipt /\ dict = NoReceipt
    /\ file = "absent" /\ saved = NoReceipt
    /\ run = "idle" /\ runs = 0
    /\ checker = "none" /\ seen = NoFile /\ cached = NoReceipt
    /\ stored = NoReceipt /\ verified = FALSE /\ judged = NoContent /\ verdict = NoVerdict
    /\ loader = "none" /\ got = NoContent /\ noting = NoReceipt /\ loaded = "none"

-----------------------------------------------------------------------------
(* Runs and the cache file *)

\* load: a cache of another schema is not looked into, one that is too old is
\* cleared, one that is no JSON is moved away. One whose date cannot be read
\* is dated by a substitute that fails after its receipts are taken.
Load ==
    /\ lru' = IF file \in {"good", "undated"} THEN saved ELSE NoReceipt
    /\ dict' = lru'
    /\ loaded' = IF file = "good" THEN "ok" ELSE "failed"
    /\ file' = IF file = "corrupt" THEN "absent" ELSE file

LoadForced == lru' = NoReceipt /\ dict' = NoReceipt /\ loaded' = "forced" /\ UNCHANGED file

Begin ==
    /\ run = "idle" /\ runs < Runs /\ runs' = runs + 1 /\ run' = "check"
    /\ Load \/ LoadForced
    /\ UNCHANGED <<world, disk, saved, check, transfer>>

\* save: the dictionary, dated now. After the scan, and at the end of a run.
Save ==
    /\ run # "idle" /\ loader \notin {"published", "half"}
    /\ file' = "good" /\ saved' = dict
    /\ UNCHANGED <<world, disk, levels, check, transfer, phase>>

\* refresh_timestamp, of --quick: the file is dated now.
Refresh ==
    /\ run = "idle" /\ file \in {"old", "undated"} /\ file' = "good"
    /\ UNCHANGED <<world, disk, levels, saved, check, transfer, phase>>

NoCheck ==
    /\ checker' = "none" /\ seen' = NoFile /\ cached' = NoReceipt
    /\ stored' = NoReceipt /\ verified' = FALSE /\ judged' = NoContent /\ verdict' = NoVerdict

NoTransfer == loader' = "none" /\ got' = NoContent /\ noting' = NoReceipt

\* A run ends, or is killed: what is in memory is gone.
End ==
    /\ run # "idle" /\ run' = "idle"
    /\ lru' = NoReceipt /\ dict' = NoReceipt
    /\ NoCheck /\ NoTransfer
    /\ UNCHANGED <<world, disk, store, runs, loaded>>

-----------------------------------------------------------------------------
(* A check: _comparison_metadata and _freshness_result *)

StartCheck ==
    /\ run = "check" /\ checker = "none" /\ local # NoFile
    /\ checker' = "stat" /\ seen' = local /\ verdict' = NoVerdict
    /\ UNCHANGED <<world, disk, levels, store, cached, stored, verified, judged, transfer, phase>>

\* get_file_metadata looks into the LRU cache before it takes its lock.
ReadLru ==
    /\ checker = "stat" /\ checker' = "lru" /\ cached' = lru
    /\ UNCHANGED <<world, disk, levels, store, seen, stored, verified, judged, verdict,
                   transfer, phase>>

\* The file is the one the receipt describes: by its hash, or by its stamp.
IsLocal(receipt) ==
    /\ receipt # NoReceipt /\ receipt.size = SizeOf[seen.content]
    /\ IF VerifyContent THEN receipt.sha # NoContent /\ receipt.sha = local.content
                        ELSE receipt.stamp = seen.stamp

Usable(receipt) == receipt # NoReceipt /\ ~receipt.old

GetReceipt ==
    LET receipt == IF cached # NoReceipt THEN cached ELSE dict IN
    /\ checker = "lru" /\ checker' = "asked"
    /\ \/ Usable(receipt) /\ lru' = receipt /\ stored' = receipt /\ UNCHANGED dict
       \/ ~Usable(receipt) /\ stored' = NoReceipt
          /\ IF receipt = NoReceipt THEN UNCHANGED levels
             ELSE lru' = NoReceipt /\ dict' = NoReceipt
    /\ verified' = (Usable(receipt) /\ IsLocal(receipt))
    /\ judged' = IF VerifyContent THEN local.content ELSE seen.content
    /\ UNCHANGED <<world, disk, store, seen, cached, verdict, transfer, phase>>

Tells == verified /\ stored.etag # NoContent

Verdict(of, by) ==
    /\ verdict' = [of |-> of, by |-> by, true |-> (judged = remote), expired |-> stored.old]
    /\ checker' = "done"
    /\ UNCHANGED <<world, disk, levels, store, seen, cached, stored, verified, judged,
                   transfer, phase>>

\* 304 answers If-None-Match, which is sent for a verified receipt only.
NotModified ==
    /\ checker = "asked" /\ Tells /\ remote = stored.etag
    /\ Verdict("current", "304")

\* Variant: an ETag that has not changed is enough.
ComparedUnverified ==
    /\ checker = "asked" /\ stored.etag # NoContent
    /\ IF remote = stored.etag THEN Verdict("current", "etag") ELSE Verdict("changed", "etag")

\* 200 with an ETag, where there is a receipt with one.
Compared ==
    /\ checker = "asked" /\ stored.etag # NoContent /\ (VerifyContent => verified)
    /\ IF remote # stored.etag THEN Verdict("changed", "etag")
       ELSE IF verified THEN Verdict("current", "etag")
       ELSE Verdict("uncertain", "etag")

\* No ETag on one of the sides: sizes and dates decide.
Guessed ==
    /\ checker = "asked" /\ (VerifyContent => verified)
    /\ IF SizeOf[remote] # SizeOf[seen.content] THEN Verdict("changed", "size")
       ELSE \E of \in {"current", "changed"} : Verdict(of, "dates")

\* Refused, no answer, invalid headers, or nothing to verify the content by.
Uncertain == checker = "asked" /\ Verdict("uncertain", "none")

-----------------------------------------------------------------------------
(* A download, and the removal of an obsolete file *)

Fetch ==
    /\ run = "check" /\ loader = "none"
    /\ \/ checker = "done" /\ verdict.of # "current"
       \/ checker = "none" /\ local = NoFile
       \/ LateChecks /\ checker \in {"stat", "lru", "asked"}
    /\ run' = "load" /\ loader' = "fetched" /\ got' = remote
    /\ UNCHANGED <<world, disk, levels, store, check, noting, runs, loaded>>

Publish ==
    /\ loader = "fetched" /\ last < Writes /\ last' = last + 1
    /\ local' = [content |-> got, stamp |-> last']
    /\ loader' = "published"
    /\ UNCHANGED <<world, levels, store, check, got, noting, phase>>

Receipt(etag) ==
    [etag |-> etag, size |-> SizeOf[got], stamp |-> local.stamp,
     sha |-> IF VerifyContent THEN got ELSE NoContent, old |-> FALSE]

\* save_file_metadata stats the published file, and fills the LRU cache first.
NoteLru ==
    /\ loader = "published" /\ loader' = "half"
    /\ \E etag \in {got} \union (IF VerifyContent THEN {NoContent} ELSE {}) :
        noting' = Receipt(etag)
    /\ lru' = noting'
    /\ UNCHANGED <<world, disk, dict, store, check, got, phase>>

\* Then the dictionary.
NoteDict ==
    /\ loader = "half" /\ loader' = "done" /\ dict' = noting
    /\ UNCHANGED <<world, disk, lru, store, check, got, noting, phase>>

\* Without an ETag and without a hash nothing is noted.
NoteNothing ==
    /\ loader = "published" /\ ~VerifyContent /\ loader' = "done"
    /\ UNCHANGED <<world, disk, levels, store, check, got, noting, phase>>

\* clean_obsolete: the file is unlinked, then its receipt removed.
Unlink ==
    /\ run \in {"check", "load"} /\ loader \in {"none", "done"} /\ local # NoFile
    /\ (checker \in {"none", "done"} \/ LateChecks)
    /\ run' = "cleanup" /\ loader' = "unlinked" /\ local' = NoFile
    /\ UNCHANGED <<world, last, levels, store, check, got, noting, runs, loaded>>

Forget ==
    /\ loader = "unlinked" /\ loader' = "done"
    /\ lru' = NoReceipt /\ dict' = NoReceipt
    /\ UNCHANGED <<world, disk, store, check, got, noting, phase>>

\* The LRU cache evicts: by size, by age, or under memory pressure. The
\* dictionary is cut to its newest entries.
Evict ==
    /\ run # "idle"
    /\ \/ lru # NoReceipt /\ lru' = NoReceipt /\ UNCHANGED dict
       \/ dict # NoReceipt /\ dict' = NoReceipt /\ UNCHANGED lru
    /\ UNCHANGED <<world, disk, store, check, transfer, phase>>

-----------------------------------------------------------------------------
(* The environment *)

RemoteChanges ==
    /\ changes < Changes /\ changes' = changes + 1
    /\ remote' \in Remote \ {remote}
    /\ UNCHANGED <<disk, levels, store, check, transfer, phase>>

Meddle ==
    /\ \/ "between" \in Meddling /\ run = "idle"
       \/ "checking" \in Meddling /\ checker \in {"stat", "lru", "asked"} /\ loader # "published"
       \/ "noting" \in Meddling /\ loader = "published"
    /\ \/ last < Writes /\ last' = last + 1
          /\ \E content \in Content : local' = [content |-> content, stamp |-> last']
       \/ run = "idle" /\ local # NoFile /\ local' = NoFile /\ last' = last
    /\ UNCHANGED <<world, levels, store, check, transfer, phase>>

\* Between runs the cache, or only its receipt, grows old, or it is damaged.
Age ==
    /\ run = "idle" /\ file # "absent"
    /\ \/ file = "good" /\ file' \in {"good", "old"}
          /\ saved' = IF saved = NoReceipt THEN saved ELSE [saved EXCEPT !.old = TRUE]
       \/ file' \in {"undated", "otherSchema", "corrupt"} \ {file} /\ UNCHANGED saved
    /\ UNCHANGED <<world, disk, levels, check, transfer, phase>>

-----------------------------------------------------------------------------
Decide == NotModified \/ Compared \/ Guessed \/ Uncertain

Next ==
    \/ Begin \/ Save \/ Refresh \/ End
    \/ StartCheck \/ ReadLru \/ GetReceipt \/ Decide
    \/ Fetch \/ Publish \/ NoteLru \/ NoteDict \/ NoteNothing \/ Unlink \/ Forget \/ Evict
    \/ RemoteChanges \/ Meddle \/ Age

Spec == Init /\ [][Next]_vars

-----------------------------------------------------------------------------
Receipts == [etag : Remote \union {NoContent}, size : Nat, stamp : 0..Writes,
             sha : Remote \union {NoContent}, old : BOOLEAN]

TypeOK ==
    /\ remote \in Remote /\ changes \in 0..Changes
    /\ local \in [content : Content \union {NoContent}, stamp : 0..Writes] /\ last \in 0..Writes
    /\ lru \in Receipts /\ dict \in Receipts /\ saved \in Receipts
    /\ cached \in Receipts /\ stored \in Receipts
    /\ file \in {"absent", "good", "old", "undated", "otherSchema", "corrupt"}
    /\ run \in {"idle", "check", "load", "cleanup"} /\ runs \in 0..Runs
    /\ checker \in {"none", "stat", "lru", "asked", "done"}
    /\ loader \in {"none", "fetched", "published", "half", "done", "unlinked"}
    /\ got \in Remote \union {NoContent} /\ noting \in Receipts
    /\ loaded \in {"none", "ok", "failed", "forced"}
    /\ verified \in BOOLEAN /\ verdict.of \in {"none", "current", "changed", "uncertain"}

(* compare.py:54, "only use an ETag belonging to the current local file": a
   file that an ETag or a 304 calls current has the content the server has
   at that moment, whatever happened to file, receipts and server before. *)
TrustedIsTrue == (verdict.of = "current" /\ verdict.by \in {"etag", "304"}) => verdict.true

(* cache.py:384-395: no receipt older than --cache-max-age decides, not even
   when the age of the cache file is refreshed by --quick. *)
ExpiredDecidesNothing == ~verdict.expired
=============================================================================
