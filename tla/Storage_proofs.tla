--------------------------- MODULE Storage_proofs ---------------------------
(***************************************************************************)
(* For any number of owners, workspaces, contents, stamps, jobs and blocks: *)
(* what a mirror keeps on disk is what it believes it keeps. A part that   *)
(* moves leaves the others alone, so the invariant (IInv) is the           *)
(* conjunction of one inductive invariant for each:                        *)
(*  - ReceiptInv says of every copy of a receipt, in memory, on disk or in *)
(*    the hands of a check, that it is Sound: it names its content by the  *)
(*    hash, or its stamp belongs to that content alone (Tells);            *)
(*  - ScratchInv says that nobody who removes a workspace has a rival with *)
(*    a claim to it (WorkInv), and that somebody still comes to every      *)
(*    recorded workspace that is nobody's (CoverInv);                      *)
(*  - BudgetInv balances the account of every job (AccountOf), equates its *)
(*    claim with its funds (ClaimOf), and covers what is on disk by claims *)
(*    and charges (Charged) that fit the sample of the epoch (Fits).       *)
(* Sums of blocks are numbers of pairs <<job, k>>: a sum splits, grows and *)
(* shrinks as the set of its pairs does, which needs no induction.         *)
(***************************************************************************)
EXTENDS Storage, FiniteSetTheorems, TLAPS

-----------------------------------------------------------------------------
(* The receipts *)

Contents == Remote \union Foreign
NoFile == [content |-> NoContent, stamp |-> 0]
NoReceipt == [etag |-> NoContent, size |-> 0, stamp |-> 0, sha |-> NoContent, old |-> FALSE]
Noted == [etag : Remote \union {NoContent}, size : Nat, stamp : Nat,
          sha : Remote \union {NoContent}, old : BOOLEAN]
Verdicts == [of : {"none", "current", "changed", "uncertain"},
             by : {"none", "304", "etag", "size", "dates"}, true : BOOLEAN, expired : BOOLEAN]

\* A file there is, or none; of the stamps given so far.
File(f, l) == f = NoFile \/ (f.content \in Contents /\ f.stamp \in 1 .. l)

\* The stamp of a receipt belongs to the content it names.
Tells(r, f, w) == ~ Told(w) /\ f.stamp = r.stamp => f.content = r.etag

\* A receipt names the content by its hash, by its size, or by its stamp.
Sound(r, w, l, f, g) ==
    r = NoReceipt \/
        /\ w = "hashed" /\ r.etag # NoContent => r.etag = r.sha
        /\ w # "hashed" =>
               /\ r.etag \in Remote /\ r.size = Sized[w][r.etag]
               /\ r.stamp \in 1 .. l /\ Tells(r, f, w) /\ Tells(r, g, w)

\* Receipts, with the stamps up to l.
Stamped(l, R) == \A r \in R : r \in Noted /\ r.stamp <= l

FileTypes(w) ==
    /\ local \in [content : Contents \union {NoContent}, stamp : Nat]
    /\ seen \in [content : Contents \union {NoContent}, stamp : Nat]
    /\ last \in 0 .. Written[w] /\ File(local, last) /\ File(seen, last)

PhaseTypes ==
    /\ remote \in Remote /\ changes \in 0 .. Changes
    /\ file \in {"absent", "good", "old", "undated", "otherSchema", "corrupt"}
    /\ run \in {"idle", "check", "load", "cleanup"} /\ runs \in 0 .. Runs
    /\ checker \in {"none", "stat", "lru", "asked", "done"}
    /\ loader \in {"none", "fetched", "published", "half", "done", "unlinked"}
    /\ got \in Remote \union {NoContent} /\ (loader \in {"fetched", "published"} => got \in Remote)
    /\ loaded \in {"none", "ok", "failed", "forced"}
    /\ verified \in BOOLEAN /\ verdict \in Verdicts

\* Every receipt is sound, the file that was published is the one that is noted,
\* and a receipt that was verified names the content that was told apart.
ReceiptInv(w) ==
    /\ FileTypes(w) /\ PhaseTypes
    /\ Stamped(last, {lru, dict, saved, cached, stored, noting})
    /\ \A r \in {lru, dict, saved, cached, stored, noting} : Sound(r, w, last, local, seen)
    /\ seen.stamp = local.stamp => seen = local
    /\ run = "idle" => loader = "none"
    /\ loader = "published" => w = "hashed" \/
           (local.stamp \in 1 .. last /\ (~ Told(w) => local.content = got))
    /\ checker \in {"stat", "lru", "asked"} => seen # NoFile
    /\ verified /\ stored.etag # NoContent => judged = stored.etag
    /\ ~ stored.old /\ ~ verdict.expired
    /\ verdict.of = "current" /\ verdict.by \in {"etag", "304"} => verdict.true

\* What is assumed of the receipts' constants.
LEMMA ReceiptConstants ==
    ASSUME NEW w \in Ways
    PROVE  /\ NoContent \notin Contents /\ Sized[w] \in [Contents -> Nat]
           /\ Written[w] \in Nat /\ Changes \in Nat /\ Runs \in Nat
           /\ NoContent \notin Remote /\ Remote \subseteq Contents
  BY PartsAssumption DEF Receipts!ReceiptAssumption, Receipts!Content, Contents

\* The names of the module are those used here.
LEMMA ReceiptNames ==
    ASSUME NEW w \in Ways
    PROVE  /\ Receipts(w)!NoFile = NoFile /\ Receipts(w)!NoReceipt = NoReceipt
           /\ Receipts(w)!Content = Contents
  BY DEF Receipts!NoFile, Receipts!NoReceipt, Receipts!Content, NoFile, NoReceipt, Contents

\* What a receipt and a file must be, when stamps have been given up to l.
Kept(r, w, l, f, g) == r \in Noted /\ r.stamp <= l /\ Sound(r, w, l, f, g)

LEMMA NothingNoted ==
    ASSUME NEW w, NEW l \in Nat, NEW f, NEW g
    PROVE  Kept(NoReceipt, w, l, f, g)
  BY DEF Kept, Sound, NoReceipt, Noted

\* A new file has a new stamp, a deleted one has none: receipts stay sound.
LEMMA KeptOn ==
    ASSUME NEW w, NEW l \in Nat, NEW m \in Nat, l <= m, NEW f, NEW g, NEW h, NEW k, NEW r,
           Kept(r, w, l, f, g),
           h \in {f, g} \/ h.stamp = 0 \/ (h.stamp \in Nat /\ h.stamp > l),
           k \in {f, g} \/ k.stamp = 0
    PROVE  Kept(r, w, m, h, k)
  BY DEF Kept, Sound, Tells, Noted

\* The receipts at the start: none.
LEMMA ReceiptInit ==
    ASSUME NEW w \in Ways, Receipts(w)!Init
    PROVE  ReceiptInv(w)
  <1>1. /\ local = NoFile /\ seen = NoFile /\ last = 0
        /\ lru = NoReceipt /\ dict = NoReceipt /\ saved = NoReceipt /\ cached = NoReceipt
        /\ stored = NoReceipt /\ noting = NoReceipt
    BY ReceiptNames DEF Receipts!Init
  <1>2. verdict \in Verdicts /\ verdict.of = "none" /\ ~ verdict.expired
    BY DEF Receipts!Init, Receipts!NoVerdict, Verdicts
  <1>3. NoReceipt \in Noted /\ NoReceipt.stamp = 0 /\ NoReceipt.old = FALSE
        /\ NoFile \in [content : Contents \union {NoContent}, stamp : Nat]
    BY DEF NoReceipt, Noted, NoFile
  <1>4. /\ remote \in Remote /\ changes = 0 /\ runs = 0 /\ file = "absent" /\ run = "idle"
        /\ checker = "none" /\ loader = "none" /\ got = NoContent /\ loaded = "none"
        /\ verified = FALSE
    BY DEF Receipts!Init
  <1>5. FileTypes(w)
    BY <1>1, <1>3, ReceiptConstants DEF FileTypes, File
  <1>6. PhaseTypes
    <2>1. Changes \in Nat /\ Runs \in Nat /\ verified \in BOOLEAN
      BY <1>4, ReceiptConstants
    <2> QED
      BY <1>2, <1>4, <2>1 DEF PhaseTypes
  <1> QED
    BY <1>1, <1>2, <1>3, <1>4, <1>5, <1>6 DEF ReceiptInv, Sound, Stamped

\* A step that takes receipts only from those there are, from a file or to one
\* with a new stamp.
LEMMA ReceiptsStay ==
    ASSUME NEW w \in Ways, ReceiptInv(w), last' \in Nat, last <= last',
           {lru, dict, saved, cached, stored, noting}' \subseteq
               {lru, dict, saved, cached, stored, noting, NoReceipt},
           local' = local \/ local'.stamp = 0 \/ (local'.stamp \in Nat /\ local'.stamp > last),
           seen' = seen \/ seen' = local \/ seen'.stamp = 0
    PROVE  /\ Stamped(last, {lru, dict, saved, cached, stored, noting})'
           /\ \A r \in {lru, dict, saved, cached, stored, noting}' : Sound(r, w, last, local, seen)'
  <1>1. last \in Nat
    BY ReceiptConstants DEF ReceiptInv, FileTypes
  <1>2. ASSUME NEW r \in {lru, dict, saved, cached, stored, noting, NoReceipt}
        PROVE  Kept(r, w, last, local, seen)
    BY <1>1, <1>2, NothingNoted DEF ReceiptInv, Stamped, Kept
  <1>3. ASSUME NEW r \in {lru, dict, saved, cached, stored, noting, NoReceipt}
        PROVE  Kept(r, w, last', local', seen')
    BY <1>1, <1>2, <1>3, KeptOn
  <1> QED
    BY <1>3 DEF Kept, Stamped

\* Only memory, the cache file or the server change.
LEMMA ReceiptRest ==
    ASSUME NEW w \in Ways, ReceiptInv(w),
           \/ Receipts(w)!Begin \/ Receipts(w)!Save \/ Receipts(w)!Refresh
           \/ Receipts(w)!Forget \/ Receipts(w)!Evict \/ Receipts(w)!RemoteChanges
           \/ Receipts(w)!NoteDict \/ Receipts(w)!NoteNothing \/ Receipts(w)!Fetch
           \/ Receipts(w)!ReadLru
    PROVE  ReceiptInv(w)'
  <1> USE DEF Receipts!world, Receipts!disk, Receipts!levels, Receipts!store, Receipts!check,
              Receipts!transfer, Receipts!phase
  <1>0. Receipts(w)!NoReceipt = NoReceipt
    BY ReceiptNames
  <1>1. UNCHANGED <<local, last, seen, stored, verified, judged, verdict, noting>>
    BY DEF Receipts!Begin, Receipts!Save, Receipts!Refresh, Receipts!Forget, Receipts!Evict,
           Receipts!RemoteChanges, Receipts!NoteDict, Receipts!NoteNothing, Receipts!Fetch,
           Receipts!ReadLru
  <1>2. /\ {lru', dict', saved'} \subseteq {lru, dict, saved, noting, NoReceipt}
        /\ cached' \in {cached, lru}
    BY <1>0 DEF Receipts!Begin, Receipts!Save, Receipts!Refresh, Receipts!Forget, Receipts!Evict,
           Receipts!RemoteChanges, Receipts!NoteDict, Receipts!NoteNothing, Receipts!Fetch,
           Receipts!ReadLru, Receipts!Load, Receipts!LoadForced
  <1>3. FileTypes(w)'
    BY <1>1 DEF ReceiptInv, FileTypes
  <1>4. PhaseTypes'
    BY <1>1, ReceiptConstants
    DEF ReceiptInv, PhaseTypes, Receipts!Begin, Receipts!Save, Receipts!Refresh,
        Receipts!Forget, Receipts!Evict, Receipts!RemoteChanges, Receipts!NoteDict,
        Receipts!NoteNothing, Receipts!Fetch, Receipts!ReadLru, Receipts!Load, Receipts!LoadForced
  <1>5. last \in Nat
    BY ReceiptConstants DEF ReceiptInv, FileTypes
  <1>6. /\ Stamped(last, {lru, dict, saved, cached, stored, noting})'
        /\ \A r \in {lru, dict, saved, cached, stored, noting}' : Sound(r, w, last, local, seen)'
    BY <1>1, <1>2, <1>5, ReceiptsStay
  <1>7. /\ run' = "idle" => loader' = "none"
        /\ loader' = "published" => loader = "published" /\ got' = got
        /\ checker' \in {"stat", "lru", "asked"} => checker \in {"stat", "lru", "asked"}
    BY DEF ReceiptInv, Receipts!Begin, Receipts!Save, Receipts!Refresh,
        Receipts!Forget, Receipts!Evict, Receipts!RemoteChanges, Receipts!NoteDict,
        Receipts!NoteNothing, Receipts!Fetch, Receipts!ReadLru
  <1> QED
    BY <1>1, <1>3, <1>4, <1>6, <1>7 DEF ReceiptInv

\* A run ends, a check begins, the file is deleted.
LEMMA ReceiptEnds ==
    ASSUME NEW w \in Ways, ReceiptInv(w),
           Receipts(w)!End \/ Receipts(w)!StartCheck \/ Receipts(w)!Unlink
    PROVE  ReceiptInv(w)'
  <1> USE DEF Receipts!world, Receipts!disk, Receipts!levels, Receipts!store, Receipts!check,
              Receipts!transfer, Receipts!phase
  <1>0. /\ Receipts(w)!NoReceipt = NoReceipt /\ Receipts(w)!NoFile = NoFile
        /\ NoFile.stamp = 0 /\ NoFile \in [content : Contents \union {NoContent}, stamp : Nat]
    BY ReceiptNames DEF NoFile
  <1>1. /\ UNCHANGED last /\ local' \in {local, NoFile} /\ seen' \in {seen, local, NoFile}
        /\ {lru', dict', saved', cached', stored', noting'} \subseteq
               {lru, dict, saved, cached, stored, noting, NoReceipt}
    BY <1>0 DEF Receipts!End, Receipts!StartCheck, Receipts!Unlink, Receipts!NoCheck,
                Receipts!NoTransfer
  <1>2. last \in Nat /\ local.stamp \in Nat /\ seen.stamp \in Nat
    BY ReceiptConstants DEF ReceiptInv, FileTypes
  <1>3. FileTypes(w)'
    BY <1>0, <1>1 DEF ReceiptInv, FileTypes, File
  <1>4. PhaseTypes'
    <2>1. verdict' \in Verdicts /\ verified' \in BOOLEAN
      <3>1. \/ verdict' = verdict \/ verdict' = Receipts(w)!NoVerdict
        BY DEF Receipts!End, Receipts!StartCheck, Receipts!Unlink, Receipts!NoCheck
      <3>2. Receipts(w)!NoVerdict \in Verdicts /\ verdict \in Verdicts
        BY DEF ReceiptInv, PhaseTypes, Receipts!NoVerdict, Verdicts
      <3>3. verified' = verified \/ verified' = FALSE
        BY DEF Receipts!End, Receipts!StartCheck, Receipts!Unlink, Receipts!NoCheck
      <3>4. verified \in BOOLEAN
        BY DEF ReceiptInv, PhaseTypes
      <3> QED
        BY <3>1, <3>2, <3>3, <3>4
    <2> QED
      BY <2>1 DEF ReceiptInv, PhaseTypes, Receipts!End, Receipts!StartCheck, Receipts!Unlink,
                  Receipts!NoCheck, Receipts!NoTransfer
  <1>5. /\ Stamped(last, {lru, dict, saved, cached, stored, noting})'
        /\ \A r \in {lru, dict, saved, cached, stored, noting}' : Sound(r, w, last, local, seen)'
    BY <1>0, <1>1, <1>2, ReceiptsStay
  <1>6. seen'.stamp = local'.stamp => seen' = local'
    <2>1. \/ UNCHANGED <<local, seen>> \/ seen' = local' \/ (local' = local /\ seen' = NoFile)
          \/ (local' = NoFile /\ seen' = seen)
      BY <1>0 DEF Receipts!End, Receipts!StartCheck, Receipts!Unlink, Receipts!NoCheck
    <2>2. \A f \in {local, seen} : f.stamp = 0 => f = NoFile
      BY <1>2 DEF ReceiptInv, FileTypes, File
    <2> QED
      BY <1>0, <2>1, <2>2 DEF ReceiptInv
  <1>7. /\ run' = "idle" => loader' = "none"
        /\ loader' = "published" => loader = "published" /\ UNCHANGED <<local, got>>
        /\ checker' \in {"stat", "lru", "asked"} => seen' # NoFile
    BY <1>0 DEF ReceiptInv, Receipts!End, Receipts!StartCheck, Receipts!Unlink, Receipts!NoCheck,
           Receipts!NoTransfer
  <1>8. /\ verified' /\ stored'.etag # NoContent => judged' = stored'.etag
        /\ ~ stored'.old /\ ~ verdict'.expired
        /\ verdict'.of = "current" /\ verdict'.by \in {"etag", "304"} => verdict'.true
    BY <1>0 DEF ReceiptInv, Receipts!End, Receipts!StartCheck, Receipts!Unlink, Receipts!NoCheck,
           Receipts!NoVerdict, NoReceipt
  <1> QED
    BY <1>1, <1>3, <1>4, <1>5, <1>6, <1>7, <1>8 DEF ReceiptInv

\* What a check goes by: a sound receipt that is not old, or none.
LEMMA ReceiptRead ==
    ASSUME NEW w \in Ways, ReceiptInv(w), Receipts(w)!GetReceipt
    PROVE  ReceiptInv(w)'
  <1> USE DEF Receipts!world, Receipts!disk, Receipts!levels, Receipts!store, Receipts!check,
              Receipts!transfer, Receipts!phase
  <1> DEFINE receipt == IF cached # NoReceipt THEN cached ELSE dict
  <1>0. Receipts(w)!NoReceipt = NoReceipt
    BY ReceiptNames
  <1>1. /\ UNCHANGED <<local, last, seen, saved, cached, noting, verdict, loader, run>>
        /\ checker = "lru" /\ checker' = "asked"
        /\ (stored' = receipt /\ receipt # NoReceipt /\ ~ receipt.old) \/ stored' = NoReceipt
        /\ {lru', dict'} \subseteq {lru, dict, receipt, NoReceipt}
        /\ verified' = (Receipts(w)!Usable(receipt) /\ Receipts(w)!IsLocal(receipt))
        /\ judged' = IF w = "hashed" THEN local.content ELSE seen.content
        /\ Receipts(w)!Usable(receipt) => stored' = receipt
    BY <1>0 DEF Receipts!GetReceipt, Receipts!Usable
  <1>2. last \in Nat /\ receipt \in {cached, dict}
    BY ReceiptConstants DEF ReceiptInv, FileTypes
  <1> HIDE DEF receipt
  <1>3. FileTypes(w)'
    BY <1>1 DEF ReceiptInv, FileTypes
  <1>4. PhaseTypes'
    <2>1. verified' \in BOOLEAN
      BY <1>1
    <2> QED
      BY <1>1, <2>1 DEF ReceiptInv, PhaseTypes, Receipts!GetReceipt
  <1>5. /\ Stamped(last, {lru, dict, saved, cached, stored, noting})'
        /\ \A r \in {lru, dict, saved, cached, stored, noting}' : Sound(r, w, last, local, seen)'
    BY <1>1, <1>2, ReceiptsStay
  <1>6. ASSUME verified', stored'.etag # NoContent PROVE judged' = stored'.etag
    <2>0. Receipts(w)!Usable(receipt) /\ Receipts(w)!IsLocal(receipt)
      BY <1>1, <1>6
    <2>1. /\ stored' = receipt /\ receipt # NoReceipt /\ Receipts(w)!IsLocal(receipt)
          /\ Sound(receipt, w, last, local, seen)
      BY <1>0, <1>1, <1>2, <2>0 DEF ReceiptInv, Receipts!Usable
    <2>2. seen # NoFile /\ seen.content \in Contents
      BY <1>1 DEF ReceiptInv, FileTypes, File
    <2>3. CASE w = "hashed"
      BY <1>1, <1>6, <2>1, <2>3 DEF Sound, Receipts!IsLocal
    <2>4. CASE w # "hashed" /\ Told(w)
      BY <1>1, <2>1, <2>2, <2>4, ReceiptConstants DEF Sound, Told, Contents, Receipts!IsLocal
    <2>5. CASE w # "hashed" /\ ~ Told(w)
      BY <1>1, <2>1, <2>5 DEF Sound, Tells, Receipts!IsLocal
    <2> QED
      BY <2>3, <2>4, <2>5
  <1>7. ~ stored'.old
    BY <1>1 DEF NoReceipt
  <1>8. loader = "published" => UNCHANGED <<local, got>>
    BY <1>1 DEF Receipts!GetReceipt
  <1> QED
    BY <1>1, <1>8, <1>3, <1>4, <1>5, <1>6, <1>7 DEF ReceiptInv

\* A verdict by an ETag or a 304 goes by a receipt that was verified.
LEMMA ReceiptDecides ==
    ASSUME NEW w \in Ways, ReceiptInv(w), Receipts(w)!Decide
    PROVE  ReceiptInv(w)'
  <1> USE DEF Receipts!world, Receipts!disk, Receipts!levels, Receipts!store, Receipts!check,
              Receipts!transfer, Receipts!phase
  <1>1. /\ UNCHANGED <<remote, changes, local, last, lru, dict, file, saved, seen, cached, stored,
                       verified, judged, loader, got, noting, run, runs, loaded>>
        /\ checker = "asked" /\ checker' = "done"
        /\ \E of, by : verdict' = [of |-> of, by |-> by, true |-> (judged = remote),
                                   expired |-> stored.old]
    BY DEF Receipts!Decide, Receipts!NotModified, Receipts!Compared, Receipts!Guessed,
           Receipts!Uncertain, Receipts!Verdict
  <1>2. /\ verdict'.of \in {"current", "changed", "uncertain"}
        /\ verdict'.by \in {"none", "304", "etag", "size", "dates"}
        /\ verdict'.of = "current" /\ verdict'.by \in {"etag", "304"} =>
               verified /\ stored.etag # NoContent /\ remote = stored.etag
    BY DEF Receipts!Decide, Receipts!NotModified, Receipts!Compared, Receipts!Guessed,
           Receipts!Uncertain, Receipts!Verdict, Receipts!Tells
  <1>3. stored.old \in BOOLEAN
    BY DEF ReceiptInv, Stamped, Noted
  <1>4. /\ verdict' \in Verdicts /\ ~ verdict'.expired
        /\ verdict'.of = "current" /\ verdict'.by \in {"etag", "304"} => verdict'.true
    <2>1. PICK of, by : verdict' = [of |-> of, by |-> by, true |-> (judged = remote),
                                    expired |-> stored.old]
      BY <1>1
    <2>2. verdict'.expired = stored.old /\ verdict'.true = (judged = remote) /\ verdict'.of = of
          /\ verdict'.by = by
      BY <2>1
    <2>3. verdict' \in Verdicts
      BY <1>2, <1>3, <2>1, <2>2 DEF Verdicts
    <2> QED
      BY <1>2, <2>2, <2>3 DEF ReceiptInv
  <1>5. last \in Nat
    BY ReceiptConstants DEF ReceiptInv, FileTypes
  <1>6. /\ Stamped(last, {lru, dict, saved, cached, stored, noting})'
        /\ \A r \in {lru, dict, saved, cached, stored, noting}' : Sound(r, w, last, local, seen)'
    BY <1>1, <1>5, ReceiptsStay
  <1>7. FileTypes(w)' /\ PhaseTypes'
    BY <1>1, <1>4 DEF ReceiptInv, FileTypes, PhaseTypes
  <1> QED
    BY <1>1, <1>4, <1>6, <1>7 DEF ReceiptInv

\* A file is published, or another program writes it or deletes it.
LEMMA ReceiptFiles ==
    ASSUME NEW w \in Ways, ReceiptInv(w), Receipts(w)!Publish \/ Receipts(w)!Meddle
    PROVE  ReceiptInv(w)'
  <1> USE DEF Receipts!world, Receipts!disk, Receipts!levels, Receipts!store, Receipts!check,
              Receipts!transfer, Receipts!phase
  <1>0. /\ Receipts(w)!NoFile = NoFile /\ Receipts(w)!Content = Contents
        /\ NoFile.stamp = 0 /\ NoFile \in [content : Contents \union {NoContent}, stamp : Nat]
        /\ Remote \subseteq Contents
    BY ReceiptNames, ReceiptConstants DEF NoFile
  <1>1. UNCHANGED <<remote, changes, seen, lru, dict, saved, cached, stored, noting, file, run, runs,
                    checker, got, loaded, verified, judged, verdict>>
    BY DEF Receipts!Publish, Receipts!Meddle
  <1>2. last \in Nat /\ seen.stamp \in Nat /\ File(seen, last) /\ last <= Written[w]
        /\ Written[w] \in Nat
    BY ReceiptConstants DEF ReceiptInv, FileTypes
  <1>3. \/ /\ last' = last + 1 /\ last' <= Written[w]
           /\ \E content \in Contents : local' = [content |-> content, stamp |-> last'] /\
                  (Receipts(w)!Publish => content = got)
        \/ /\ last' = last /\ local' = NoFile /\ run = "idle" /\ UNCHANGED loader
    BY <1>0, <1>2 DEF ReceiptInv, PhaseTypes, Receipts!Publish, Receipts!Meddle
  <1>4. /\ last' \in Nat /\ last <= last' /\ last' <= Written[w]
        /\ local' = NoFile \/ (local'.content \in Contents /\ local'.stamp = last')
        /\ local' \in [content : Contents \union {NoContent}, stamp : Nat]
        /\ local'.stamp = 0 \/ (local'.stamp \in Nat /\ local'.stamp > last)
        /\ local'.stamp = 0 => local' = NoFile
    BY <1>0, <1>2, <1>3
  <1>5. FileTypes(w)'
    BY <1>0, <1>1, <1>2, <1>4 DEF ReceiptInv, FileTypes, File
  <1>6. PhaseTypes'
    BY <1>1 DEF ReceiptInv, PhaseTypes, Receipts!Publish, Receipts!Meddle
  <1>7. /\ Stamped(last, {lru, dict, saved, cached, stored, noting})'
        /\ \A r \in {lru, dict, saved, cached, stored, noting}' : Sound(r, w, last, local, seen)'
    BY <1>1, <1>4, ReceiptsStay
  <1>8. seen'.stamp = local'.stamp => seen' = local'
    <2>1. seen.stamp <= last /\ (seen.stamp = 0 => seen = NoFile)
      BY <1>0, <1>2 DEF File
    <2> QED
      BY <1>1, <1>2, <1>4, <2>1
  <1>9. run' = "idle" => loader' = "none"
    BY <1>1 DEF ReceiptInv, Receipts!Publish, Receipts!Meddle
  <1>10. loader' = "published" => w = "hashed" \/
            (local'.stamp \in 1 .. last' /\ (~ Told(w) => local'.content = got'))
    <2>1. CASE Receipts(w)!Publish
      BY <1>1, <1>2, <2>1 DEF Receipts!Publish
    <2>2. ASSUME Receipts(w)!Meddle, loader' = "published", ~ Told(w) PROVE FALSE
      BY <1>1, <2>2 DEF ReceiptInv, Receipts!Meddle
    <2>3. ASSUME Receipts(w)!Meddle, loader' = "published" PROVE local'.stamp \in 1 .. last'
      BY <1>1, <1>2, <1>3, <2>3 DEF ReceiptInv, Receipts!Meddle
    <2> QED
      BY <2>1, <2>2, <2>3
  <1> QED
    BY <1>1, <1>5, <1>6, <1>7, <1>8, <1>9, <1>10 DEF ReceiptInv

\* A receipt is noted for the file as it is, and a receipt grows old.
LEMMA ReceiptNotes ==
    ASSUME NEW w \in Ways, ReceiptInv(w), Receipts(w)!NoteLru \/ Receipts(w)!Age
    PROVE  ReceiptInv(w)'
  <1> USE DEF Receipts!world, Receipts!disk, Receipts!levels, Receipts!store, Receipts!check,
              Receipts!transfer, Receipts!phase
  <1>0. Receipts(w)!NoReceipt = NoReceipt
    BY ReceiptNames
  <1>1. UNCHANGED <<remote, changes, local, last, seen, dict, cached, stored, run, runs,
                    checker, got, loaded, verified, judged, verdict>>
    BY DEF Receipts!NoteLru, Receipts!Age
  <1>2. last \in Nat /\ Sized[w] \in [Contents -> Nat] /\ Remote \subseteq Contents
    BY ReceiptConstants DEF ReceiptInv, FileTypes
  <1>3. FileTypes(w)'
    BY <1>1 DEF ReceiptInv, FileTypes
  <1>4. PhaseTypes'
    BY <1>1 DEF ReceiptInv, PhaseTypes, Receipts!NoteLru, Receipts!Age
  <1>5. CASE Receipts(w)!NoteLru
    <2>1. PICK etag \in {got} \union (IF w = "hashed" THEN {NoContent} ELSE {}) :
              noting' = [etag |-> etag, size |-> Sized[w][got], stamp |-> local.stamp,
                         sha |-> IF w = "hashed" THEN got ELSE NoContent, old |-> FALSE]
      BY <1>5 DEF Receipts!NoteLru, Receipts!Receipt
    <2>2. loader = "published" /\ loader' = "half" /\ lru' = noting' /\ saved' = saved
      BY <1>5 DEF Receipts!NoteLru
    <2>3. got \in Remote /\ local.stamp \in Nat /\ local.stamp <= last
      BY <1>2, <2>2 DEF ReceiptInv, PhaseTypes, FileTypes, File, NoFile
    <2>4. noting' \in Noted /\ noting'.stamp <= last'
      BY <1>1, <1>2, <2>1, <2>3 DEF Noted
    <2>5. Sound(noting', w, last', local', seen')
      <3>1. CASE w = "hashed"
        BY <2>1, <3>1 DEF Sound
      <3>2. CASE w # "hashed"
        <4>1. /\ noting'.etag = got /\ noting'.size = Sized[w][got] /\ noting'.stamp = local.stamp
              /\ local.stamp \in 1 .. last /\ (~ Told(w) => local.content = got)
          BY <2>1, <2>2, <3>2 DEF ReceiptInv
        <4>2. Tells(noting', local, w) /\ Tells(noting', seen, w)
          BY <4>1 DEF Tells, ReceiptInv
        <4> QED
          BY <1>1, <2>3, <3>2, <4>1, <4>2 DEF Sound
      <3> QED
        BY <3>1, <3>2
    <2>6. \A r \in {dict, saved, cached, stored} :
              r \in Noted /\ r.stamp <= last' /\ Sound(r, w, last', local', seen')
      BY <1>1 DEF ReceiptInv, Stamped
    <2>7. /\ Stamped(last, {lru, dict, saved, cached, stored, noting})'
          /\ \A r \in {lru, dict, saved, cached, stored, noting}' : Sound(r, w, last, local, seen)'
      BY <1>1, <2>2, <2>4, <2>5, <2>6 DEF Stamped
    <2> QED
      BY <1>1, <1>3, <1>4, <2>2, <2>7 DEF ReceiptInv
  <1>6. CASE Receipts(w)!Age
    <2>1. /\ saved' = saved \/ (saved # NoReceipt /\ saved' = [saved EXCEPT !.old = TRUE])
          /\ UNCHANGED <<lru, noting, loader>>
      BY <1>0, <1>6 DEF Receipts!Age
    <2>2. saved \in Noted /\ saved.stamp <= last /\ Sound(saved, w, last, local, seen)
      BY DEF ReceiptInv, Stamped
    <2>3. /\ saved' \in Noted /\ saved'.etag = saved.etag /\ saved'.sha = saved.sha
          /\ saved'.size = saved.size /\ saved'.stamp = saved.stamp
          /\ saved = NoReceipt => saved' = NoReceipt
      BY <2>1, <2>2 DEF Noted
    <2>4. saved'.stamp <= last' /\ Sound(saved', w, last', local', seen')
      BY <1>1, <2>2, <2>3 DEF Sound, Tells
    <2>5. \A r \in {lru, dict, noting, cached, stored} :
              r \in Noted /\ r.stamp <= last' /\ Sound(r, w, last', local', seen')
      BY <1>1 DEF ReceiptInv, Stamped
    <2>6. /\ Stamped(last, {lru, dict, saved, cached, stored, noting})'
          /\ \A r \in {lru, dict, saved, cached, stored, noting}' : Sound(r, w, last, local, seen)'
      BY <1>1, <2>1, <2>3, <2>4, <2>5 DEF Stamped
    <2> QED
      BY <1>1, <1>3, <1>4, <2>1, <2>6 DEF ReceiptInv
  <1> QED
    BY <1>5, <1>6

\* Every step keeps the receipts sound.
LEMMA ReceiptStep == \A w \in Ways : ReceiptInv(w) /\ Receipts(w)!Next => ReceiptInv(w)'
  BY ReceiptRest, ReceiptEnds, ReceiptRead, ReceiptDecides, ReceiptFiles, ReceiptNotes
  DEF Receipts!Next

\* The invariant of the receipts in the words of their module.
LEMMA ReceiptImplies ==
    ASSUME NEW w \in Ways, ReceiptInv(w)
    PROVE  Receipts(w)!TypeOK /\ Receipts(w)!TrustedIsTrue /\ Receipts(w)!ExpiredDecidesNothing
  <1>1. \A r \in {lru, dict, saved, cached, stored, noting} : r \in Receipts(w)!Receipts
    BY ReceiptConstants DEF ReceiptInv, Stamped, FileTypes, Noted, Receipts!Receipts
  <1>2. local \in [content : Receipts(w)!Content \union {NoContent}, stamp : 0 .. Written[w]]
    BY ReceiptNames, ReceiptConstants DEF ReceiptInv, FileTypes, File, NoFile
  <1>3. Receipts(w)!TypeOK
    BY <1>1, <1>2 DEF ReceiptInv, FileTypes, PhaseTypes, Receipts!TypeOK, Verdicts
  <1> QED
    BY <1>3 DEF ReceiptInv, Receipts!TrustedIsTrue, Receipts!ExpiredDecidesNothing
-----------------------------------------------------------------------------
(* The workspaces *)

Removing == {"probe", "read", "list", "purge", "unmark", "rmdir"}
Past == {"list", "purge", "unmark", "rmdir"}

\* A workspace is an owner's from its creation to its release.
Claims(o, w) == w \in active[o] \/ (pc[o] \in {"lease", "fill"} /\ at[o] = w)

\* An owner that is in, and a removal that will do something about w: one that
\* finds that another has deleted the bytes gives up.
In(o) == pc[o] \notin {"out", "mark"}
Comes(o, w) ==
    w \in todo[o] \/ (at[o] = w /\ (pc[o] \in {"probe", "read", "list", "unmark"} \/
                                    (pc[o] = "purge" /\ ~ (o \in saw /\ w \notin bytes))))
Unreclaimed(w) ==
    /\ w \in dir /\ manifest[w] = "ours" /\ w \notin stray /\ w \notin spoiled
    /\ \A o \in Owner : w \notin active[o]

ScratchTypes ==
    /\ root \in {"absent", "bare", "owned"} /\ dir \subseteq drawn /\ bytes \subseteq dir
    /\ manifest \in [Work -> {"none", "empty", "ours"}]
    /\ lease \in [Work -> Owner \union {Scratch!Nobody}]
    /\ stray \subseteq Work \union {Scratch!Root} /\ drawn \subseteq Work
    /\ at \in [Owner -> Work \union {Scratch!Nothing}] /\ todo \in [Owner -> SUBSET drawn]
    /\ active \in [Owner -> SUBSET Work]
    /\ pc \in [Owner -> {"out", "mark", "idle", "walk", "lease", "fill", "retire"} \union Removing]
    /\ crashes <= Crashes /\ faults <= Faults /\ crashes \in Nat /\ faults \in Nat
    /\ \A w \in held : \E o \in Owner : w \in active[o]
    /\ \A w \in Work : manifest[w] # "none" => w \in drawn
    /\ \A o \in Owner : pc[o] \in Removing \union {"lease", "fill"} => at[o] \in drawn

\* Nobody removes what is somebody's: an owner that looks at a manifest holds
\* its lease, and goes on only if the work is recorded and nobody's.
WorkInv ==
    /\ \A o \in Owner : \A w \in active[o] :
           /\ w \in dir /\ manifest[w] = "ours" /\ lease[w] = o
           /\ w \in held => w \in bytes
    /\ \A o \in Owner :
           /\ pc[o] \in {"lease", "fill"} => at[o] \in dir /\ manifest[at[o]] = "empty"
           /\ pc[o] = "fill" => lease[at[o]] = o
           /\ pc[o] = "read" => lease[at[o]] = o
           /\ pc[o] \in Past => \A p \in Owner : ~ Claims(p, at[o])
           /\ pc[o] \notin Removing \union {"walk"} => todo[o] = {}
           /\ todo[o] \intersect active[o] = {}
           /\ pc[o] \in Removing => at[o] \notin active[o]
           /\ pc[o] = "unmark" => at[o] \notin bytes
    /\ \A o, p \in Owner : \A w \in Work : Claims(o, w) /\ Claims(p, w) => o = p
    /\ \A w \in bytes : manifest[w] = "ours"
    /\ \A w \in Work : lease[w] # Scratch!Nobody =>
           \/ w \in active[lease[w]]
           \/ pc[lease[w]] \in {"fill", "read"} /\ at[lease[w]] = w

\* While an owner is in, somebody comes for what nobody holds.
CoverInv ==
    \A o \in Owner : In(o) => \A w \in Work : Unreclaimed(w) => \E q \in Owner : Comes(q, w)

ScratchInv == ScratchTypes /\ WorkInv /\ CoverInv /\ Scratch!RootKeepsMarker

\* What is assumed of the workspaces' constants.
LEMMA ScratchConstants ==
    Scratch!Nobody \notin Owner /\ {Crashes, Faults, Strays} \subseteq Nat
  BY PartsAssumption DEF Scratch!ScratchAssumption

\* No workspace at the start.
LEMMA ScratchInit == Scratch!Init => ScratchInv
  <1> SUFFICES ASSUME Scratch!Init PROVE ScratchInv
    OBVIOUS
  <1>1. ScratchTypes
    BY ScratchConstants DEF Scratch!Init, ScratchTypes, Removing
  <1>2. WorkInv
    BY DEF Scratch!Init, WorkInv, Claims, Removing, Past
  <1> QED
    BY <1>1, <1>2 DEF Scratch!Init, ScratchInv, CoverInv, In, Scratch!RootKeepsMarker

\* The root and its marker: no workspace changes.
LEMMA ScratchRoot ==
    ASSUME ScratchInv, NEW o \in Owner,
           \/ Scratch!MarkFails(o) \/ Scratch!Close(o) \/ Scratch!Leave(o) \/ Scratch!Retire(o)
           \/ Scratch!Retired(o) \/ Scratch!RetireFails(o)
    PROVE  ScratchInv'
  <1> USE DEF Scratch!rootVars, Scratch!workVars, Scratch!ownVars, Scratch!limits, Scratch!Step,
              Scratch!Goto
  <1>1. /\ UNCHANGED <<dir, manifest, bytes, lease, stray, at, todo, saw, active, drawn, held, spoiled>>
        /\ crashes' = crashes /\ faults' \in {faults, faults + 1} /\ faults' <= Faults
        /\ root' \in {"absent", "bare", "owned"}
    <2>1. UNCHANGED <<dir, manifest, bytes, lease, stray, at, todo, saw, active, drawn, held, spoiled>>
      BY DEF Scratch!MarkFails, Scratch!Close, Scratch!Leave, Scratch!Retire, Scratch!Retired,
             Scratch!RetireFails
    <2>2. UNCHANGED <<crashes, faults>> \/ Scratch!Fault
      BY DEF Scratch!MarkFails, Scratch!Close, Scratch!Leave, Scratch!Retire, Scratch!Retired,
             Scratch!RetireFails
    <2>3. crashes' = crashes /\ faults' \in {faults, faults + 1} /\ faults' <= Faults
      BY <2>2, ScratchConstants DEF ScratchInv, ScratchTypes, Scratch!Fault
    <2>4. root' = root \/ root' \in {"absent", "bare", "owned"}
      BY DEF Scratch!MarkFails, Scratch!Close, Scratch!Leave, Scratch!Retire, Scratch!Retired,
             Scratch!RetireFails
    <2> QED
      BY <2>1, <2>3, <2>4 DEF ScratchInv, ScratchTypes
  <1>2. PICK s \in {"out", "idle", "retire", pc[o]} : pc' = [pc EXCEPT ![o] = s]
    <2>1. CASE Scratch!Close(o)
      <3>1. pc' = [pc EXCEPT ![o] = pc[o]]
        BY <2>1 DEF ScratchInv, ScratchTypes, Scratch!Close
      <3> QED
        BY <3>1
    <2>2. CASE ~ Scratch!Close(o)
      BY <2>2 DEF Scratch!MarkFails, Scratch!Leave, Scratch!Retire, Scratch!Retired,
          Scratch!RetireFails
    <2> QED
      BY <2>1, <2>2
  <1>3. pc[o] # s => pc[o] \in {"mark", "idle", "retire"} /\ (In(o)' => In(o))
    <2>1. pc'[o] = s
      BY <1>2 DEF ScratchInv, ScratchTypes
    <2>2. pc'[o] = pc[o] \/ (pc[o] = "mark" /\ pc'[o] = "out") \/ pc[o] \in {"idle", "retire"}
      BY DEF ScratchInv, ScratchTypes, Scratch!MarkFails, Scratch!Close, Scratch!Leave,
          Scratch!Retire, Scratch!Retired, Scratch!RetireFails
    <2> QED
      BY <2>1, <2>2 DEF In
  <1>4. ScratchTypes'
    BY <1>1, <1>2, <1>3 DEF ScratchInv, ScratchTypes, Removing
  <1>5. WorkInv'
    BY <1>1, <1>2, <1>3 DEF ScratchInv, ScratchTypes, WorkInv, Claims, Removing, Past
  <1>6. CoverInv'
    BY <1>1, <1>2, <1>3
    DEF ScratchInv, ScratchTypes, CoverInv, In, Comes, Unreclaimed, Removing
  <1>7. Scratch!RootKeepsMarker'
    BY <1>2 DEF ScratchInv, ScratchTypes, Scratch!RootKeepsMarker, Scratch!MarkFails, Scratch!Close,
        Scratch!Leave, Scratch!Retire, Scratch!Retired, Scratch!RetireFails
  <1> QED
    BY <1>4, <1>5, <1>6, <1>7 DEF ScratchInv

\* An owner comes in, or recovers again: it comes for all that is not its own.
LEMMA ScratchEnter ==
    ASSUME ScratchInv, NEW o \in Owner,
           Scratch!Open(o) \/ Scratch!Mark(o) \/ Scratch!RecoverAgain(o)
    PROVE  ScratchInv'
  <1> USE DEF Scratch!rootVars, Scratch!workVars, Scratch!ownVars, Scratch!limits, Scratch!Step,
              Scratch!Goto, Scratch!Listing
  <1>1. /\ UNCHANGED <<dir, manifest, bytes, lease, stray, at, saw, active, drawn, held, spoiled,
                       crashes, faults>>
        /\ pc[o] \in {"out", "mark", "idle"}
    BY DEF Scratch!Open, Scratch!Mark, Scratch!RecoverAgain
  <1>2. root' \in {"absent", "bare", "owned"}
    BY DEF ScratchInv, ScratchTypes, Scratch!Open, Scratch!Mark, Scratch!RecoverAgain
  <1>3. \/ UNCHANGED <<pc, todo>>
        \/ pc[o] = "out" /\ pc' = [pc EXCEPT ![o] = "mark"] /\ UNCHANGED todo
        \/ /\ todo' = [todo EXCEPT ![o] = dir \ active[o]]
           /\ pc' = [pc EXCEPT ![o] = IF dir \ active[o] = {} THEN "idle" ELSE "walk"]
    BY DEF ScratchInv, ScratchTypes, Scratch!Open, Scratch!Mark, Scratch!RecoverAgain, Scratch!Enter
  <1>4. ScratchTypes'
    BY <1>1, <1>2, <1>3 DEF ScratchInv, ScratchTypes, Removing
  <1>5. WorkInv'
    BY <1>1, <1>3 DEF ScratchInv, ScratchTypes, WorkInv, Claims, Removing, Past
  <1>6. CoverInv'
    <2>1. CASE UNCHANGED <<pc, todo>>
      BY <1>1, <2>1 DEF ScratchInv, CoverInv, In, Comes, Unreclaimed
    <2>2. CASE pc[o] = "out" /\ pc' = [pc EXCEPT ![o] = "mark"] /\ UNCHANGED todo
      BY <1>1, <2>2 DEF ScratchInv, ScratchTypes, CoverInv, In, Comes, Unreclaimed
    <2>3. CASE todo' = [todo EXCEPT ![o] = dir \ active[o]]
      <3>1. \A w \in Work : Unreclaimed(w)' => w \in todo'[o]
        BY <1>1, <2>3 DEF ScratchInv, ScratchTypes, Unreclaimed
      <3> QED
        BY <3>1 DEF CoverInv, Comes
    <2> QED
      BY <1>3, <2>1, <2>2, <2>3
  <1>7. Scratch!RootKeepsMarker'
    BY <1>1 DEF ScratchInv, ScratchTypes, Scratch!RootKeepsMarker, Scratch!Open, Scratch!Mark,
        Scratch!RecoverAgain, Scratch!Enter
  <1> QED
    BY <1>4, <1>5, <1>6, <1>7 DEF ScratchInv

\* A new workspace is nobody else's: its token was never drawn.
LEMMA ScratchMake ==
    ASSUME ScratchInv, NEW o \in Owner, NEW w \in Work, Scratch!Make(o, w) \/ Scratch!MakeFails(o, w)
    PROVE  ScratchInv'
  <1> USE DEF Scratch!rootVars, Scratch!workVars, Scratch!ownVars, Scratch!limits, Scratch!Step,
              Scratch!Goto
  <1>1. /\ UNCHANGED <<root, torn, bytes, lease, stray, todo, saw, active, held, spoiled, crashes>>
        /\ w \notin drawn /\ drawn' = drawn \union {w} /\ dir' = dir \union {w}
        /\ pc[o] = "idle"
    BY DEF Scratch!Make, Scratch!MakeFails, Scratch!Fault
  <1>2. \/ /\ pc' = [pc EXCEPT ![o] = "lease"] /\ at' = [at EXCEPT ![o] = w]
           /\ manifest' = [manifest EXCEPT ![w] = "empty"]
        \/ UNCHANGED <<pc, at, manifest>>
    BY DEF Scratch!Make, Scratch!MakeFails
  <1>3. faults' \in Nat /\ faults' <= Faults
    BY ScratchConstants DEF Scratch!Make, Scratch!MakeFails, Scratch!Fault, ScratchInv, ScratchTypes
  <1>4. manifest[w] = "none" /\ w \notin dir /\ w \notin bytes /\ manifest'[w] # "ours"
    BY <1>1, <1>2 DEF ScratchInv, ScratchTypes
  <1>5. ScratchTypes'
    BY <1>1, <1>2, <1>3 DEF ScratchInv, ScratchTypes, Removing
  <1>6. WorkInv'
    <2>1. \A p \in Owner : w \notin active[p]
      BY <1>4 DEF ScratchInv, ScratchTypes, WorkInv
    <2>2. \A p \in Owner : pc[p] \in Removing \union {"lease", "fill"} => at[p] # w
      BY <1>1 DEF ScratchInv, ScratchTypes
    <2>3. \A p \in Owner, v \in Work : Claims(p, v)' => Claims(p, v) \/ (p = o /\ v = w)
      BY <1>1, <1>2 DEF ScratchInv, ScratchTypes, Claims
    <2>4. \A p \in Owner : ~ Claims(p, w)
      BY <2>1, <2>2 DEF Claims
    <2> QED
      BY <1>1, <1>2, <1>4, <2>1, <2>2, <2>3, <2>4
      DEF ScratchInv, ScratchTypes, WorkInv, Removing, Past
  <1>7. CoverInv'
    <2>1. \A v \in Work : Unreclaimed(v)' => Unreclaimed(v)
      BY <1>1, <1>2, <1>4 DEF ScratchInv, ScratchTypes, Unreclaimed
    <2>2. \A p \in Owner, v \in Work : Comes(p, v) => Comes(p, v)'
      BY <1>1, <1>2 DEF ScratchInv, ScratchTypes, WorkInv, Comes, Removing
    <2> QED
      BY <1>1, <1>2, <2>1, <2>2 DEF ScratchInv, ScratchTypes, CoverInv, In
  <1>8. Scratch!RootKeepsMarker'
    BY <1>1, <1>2 DEF ScratchInv, ScratchTypes, Scratch!RootKeepsMarker
  <1> QED
    BY <1>5, <1>6, <1>7, <1>8 DEF ScratchInv

\* The lease of a new workspace, its manifest, and what fails.
LEMMA ScratchFill ==
    ASSUME ScratchInv, NEW o \in Owner,
           Scratch!Lease(o) \/ Scratch!Fill(o) \/ Scratch!FillFails(o)
    PROVE  ScratchInv'
  <1> USE DEF Scratch!rootVars, Scratch!workVars, Scratch!ownVars, Scratch!limits, Scratch!Step,
              Scratch!Goto, Scratch!Nobody
  <1>0. /\ pc[o] \in {"lease", "fill"} /\ at[o] \in Work /\ at[o] \in drawn /\ at[o] \in dir
        /\ manifest[at[o]] = "empty" /\ todo[o] = {} /\ at[o] \notin bytes
    BY DEF ScratchInv, ScratchTypes, WorkInv, Scratch!Lease, Scratch!Fill, Scratch!FillFails, Removing
  <1>1. /\ UNCHANGED <<root, torn, dir, bytes, stray, at, todo, saw, drawn, held, crashes>>
        /\ faults' \in Nat /\ faults' <= Faults
    <2>1. UNCHANGED faults \/ Scratch!Fault
      BY DEF Scratch!Lease, Scratch!Fill, Scratch!FillFails
    <2>2. faults' \in Nat /\ faults' <= Faults
      BY <2>1, ScratchConstants DEF ScratchInv, ScratchTypes, Scratch!Fault
    <2>3. UNCHANGED <<root, torn, dir, bytes, stray, at, todo, saw, drawn, held, crashes>>
      BY DEF Scratch!Lease, Scratch!Fill, Scratch!FillFails, Scratch!Fault
    <2> QED
      BY <2>2, <2>3
  <1>2. PICK s \in {"idle", "fill"} : pc' = [pc EXCEPT ![o] = s]
    BY DEF Scratch!Lease, Scratch!Fill, Scratch!FillFails
  <1>3. ScratchTypes'
    <2>1. UNCHANGED <<manifest, active>> \/ active' = [active EXCEPT ![o] = active[o] \union {at[o]}]
              \/ active' = active
      BY DEF Scratch!Lease, Scratch!Fill, Scratch!FillFails
    <2>2. active' \in [Owner -> SUBSET Work] /\ \A p \in Owner : active[p] \subseteq active'[p]
      BY <1>0, <2>1 DEF ScratchInv, ScratchTypes
    <2>3. /\ manifest' \in [Work -> {"none", "empty", "ours"}]
          /\ lease' \in [Work -> Owner \union {Scratch!Nobody}]
          /\ \A v \in Work : v # at[o] => manifest'[v] = manifest[v]
      BY <1>0 DEF ScratchInv, ScratchTypes, Scratch!Lease, Scratch!Fill, Scratch!FillFails
    <2> QED
      BY <1>0, <1>1, <1>2, <2>2, <2>3 DEF ScratchInv, ScratchTypes, Removing
  <1>4. WorkInv'
    <2>0. \A p \in Owner : /\ at[o] \in active[p] => FALSE
                           /\ p # o => ~ Claims(p, at[o])
                           /\ pc[p] \in Past => at[p] # at[o]
      BY <1>0 DEF ScratchInv, ScratchTypes, WorkInv, Claims
    <2>1. CASE Scratch!Lease(o)
      <3>1. UNCHANGED <<manifest, active>>
        BY <2>1 DEF Scratch!Lease
      <3>2. CASE lease' = lease /\ pc' = [pc EXCEPT ![o] = "idle"]
        <4>1. \A p \in Owner, v \in Work : Claims(p, v)' => Claims(p, v)
          BY <1>1, <3>1, <3>2 DEF ScratchInv, ScratchTypes, Claims
        <4>2. pc[o] = "lease"
          BY <2>1 DEF Scratch!Lease
        <4>3. \A p \in Owner : p # o => pc'[p] = pc[p]
          BY <3>2 DEF ScratchInv, ScratchTypes
        <4>4. \A v \in Work : lease[v] = o => v \in active[o] \/ lease[v] = Scratch!Nobody
          BY <4>2 DEF ScratchInv, ScratchTypes, WorkInv
        <4> QED
          BY <1>0, <1>1, <3>1, <3>2, <4>1, <4>2, <4>3, <4>4
          DEF ScratchInv, ScratchTypes, WorkInv, Removing, Past
      <3>3. CASE /\ lease[at[o]] = Scratch!Nobody /\ lease' = [lease EXCEPT ![at[o]] = o]
                 /\ pc' = [pc EXCEPT ![o] = "fill"] /\ pc[o] = "lease"
        <4>1. \A p \in Owner : \A w \in active[p] : w # at[o] /\ lease'[w] = p
          BY <1>0, <2>0, <3>3 DEF ScratchInv, ScratchTypes, WorkInv
        <4>2. \A p \in Owner : pc[p] \in {"fill", "read"} => at[p] # at[o] /\ lease'[at[p]] = p
          BY <1>0, <3>3, ScratchConstants DEF ScratchInv, ScratchTypes, WorkInv, Removing
        <4>3. \A p \in Owner, v \in Work : Claims(p, v)' <=> Claims(p, v)
          BY <1>1, <3>1, <3>3 DEF ScratchInv, ScratchTypes, Claims
        <4> QED
          BY <1>0, <1>1, <3>1, <3>3, <4>1, <4>2, <4>3
          DEF ScratchInv, ScratchTypes, WorkInv, Removing, Past
      <3> QED
        BY <2>1, <3>2, <3>3 DEF Scratch!Lease
    <2>2. CASE Scratch!Fill(o)
      BY <1>0, <1>1, <1>2, <2>0, <2>2
      DEF ScratchInv, ScratchTypes, WorkInv, Claims, Scratch!Fill, Removing, Past
    <2>3. CASE Scratch!FillFails(o)
      BY <1>0, <1>1, <1>2, <2>0, <2>3
      DEF ScratchInv, ScratchTypes, WorkInv, Claims, Scratch!FillFails, Removing, Past
    <2> QED
      BY <2>1, <2>2, <2>3
  <1>5. CoverInv'
    <2>1. \A v \in Work : Unreclaimed(v)' => Unreclaimed(v)
      BY <1>0, <1>1 DEF ScratchInv, ScratchTypes, Unreclaimed, Scratch!Lease, Scratch!Fill,
          Scratch!FillFails
    <2>2. \A p \in Owner, v \in Work : Comes(p, v) => Comes(p, v)'
      BY <1>0, <1>1, <1>2 DEF ScratchInv, ScratchTypes, Comes
    <2>3. \A p \in Owner : In(p)' => In(p)
      BY <1>0, <1>2 DEF ScratchInv, ScratchTypes, In
    <2> QED
      BY <2>1, <2>2, <2>3 DEF ScratchInv, CoverInv
  <1>6. Scratch!RootKeepsMarker'
    BY <1>0, <1>1, <1>2 DEF ScratchInv, ScratchTypes, Scratch!RootKeepsMarker
  <1> QED
    BY <1>3, <1>4, <1>5, <1>6 DEF ScratchInv

\* A transfer writes in its owner's workspace; the workspace is given up.
LEMMA ScratchUse ==
    ASSUME ScratchInv, NEW o \in Owner, NEW w \in Work,
           Scratch!Write(o, w) \/ Scratch!Published(o, w) \/ Scratch!Release(o, w)
    PROVE  ScratchInv'
  <1> USE DEF Scratch!rootVars, Scratch!workVars, Scratch!ownVars, Scratch!limits, Scratch!Step,
              Scratch!Goto, Scratch!Nobody
  <1>0. /\ w \in active[o] /\ w \in dir /\ w \in drawn /\ manifest[w] = "ours" /\ lease[w] = o
        /\ \A p \in Owner : (p # o => w \notin active[p]) /\ (pc[p] \in Past => at[p] # w)
        /\ \A p \in Owner : pc[p] \in {"lease", "fill", "read"} => at[p] # w
    <2>1. w \in active[o] /\ w \in dir /\ w \in drawn /\ manifest[w] = "ours" /\ lease[w] = o
      BY DEF ScratchInv, ScratchTypes, WorkInv, Scratch!Write, Scratch!Published, Scratch!Release
    <2> QED
      BY <2>1 DEF ScratchInv, ScratchTypes, WorkInv, Claims, Removing
  <1>1. UNCHANGED <<root, torn, dir, manifest, stray, todo, saw, drawn, crashes, faults>>
    BY DEF Scratch!Write, Scratch!Published, Scratch!Release
  <1>2. CASE Scratch!Write(o, w) \/ Scratch!Published(o, w)
    <2>1. /\ UNCHANGED <<pc, at, active, lease, spoiled>>
          /\ \/ bytes' = bytes \union {w} /\ held' = held \union {w}
             \/ bytes' = bytes \ {w} /\ held' = held \ {w}
      BY <1>0, <1>2 DEF Scratch!Write, Scratch!Published
    <2>2. ScratchTypes'
      BY <1>0, <1>1, <2>1 DEF ScratchInv, ScratchTypes, Removing
    <2>3. WorkInv'
      BY <1>0, <1>1, <2>1 DEF ScratchInv, ScratchTypes, WorkInv, Claims, Past
    <2>4. CoverInv'
      BY <1>0, <1>1, <2>1 DEF ScratchInv, CoverInv, In, Comes, Unreclaimed
    <2> QED
      BY <1>1, <2>1, <2>2, <2>3, <2>4 DEF ScratchInv, Scratch!RootKeepsMarker
  <1>3. CASE Scratch!Release(o, w)
    <2>1. /\ pc[o] = "idle" /\ pc' = [pc EXCEPT ![o] = "probe"] /\ at' = [at EXCEPT ![o] = w]
          /\ active' = [active EXCEPT ![o] = active[o] \ {w}]
          /\ lease' = [lease EXCEPT ![w] = Scratch!Nobody]
          /\ held' = held \ {w} /\ spoiled' = spoiled \ {w} /\ UNCHANGED bytes
      BY <1>3 DEF Scratch!Release
    <2>2. ScratchTypes'
      BY <1>0, <1>1, <2>1 DEF ScratchInv, ScratchTypes, Removing
    <2>3. \A p \in Owner, v \in Work : Claims(p, v)' => Claims(p, v) /\ v # w
      BY <1>0, <1>1, <2>1 DEF ScratchInv, ScratchTypes, Claims
    <2>4. \A p \in Owner : p # o => pc'[p] = pc[p] /\ at'[p] = at[p] /\ active'[p] = active[p]
      BY <2>1 DEF ScratchInv, ScratchTypes
    <2>5. pc'[o] = "probe" /\ at'[o] = w /\ active'[o] = active[o] \ {w}
      BY <2>1 DEF ScratchInv, ScratchTypes
    <2>6. \A v \in Work : IF v = w THEN lease'[v] = Scratch!Nobody ELSE lease'[v] = lease[v]
      BY <2>1 DEF ScratchInv, ScratchTypes
    <2>7. WorkInv'
      BY <1>0, <1>1, <2>1, <2>3, <2>4, <2>5, <2>6, ScratchConstants
      DEF ScratchInv, ScratchTypes, WorkInv, Removing, Past
    <2>8. CoverInv'
      <3>1. \A v \in Work : Unreclaimed(v)' => Unreclaimed(v) \/ v = w
        BY <1>1, <2>1, <2>4, <2>5 DEF Unreclaimed
      <3>2. Comes(o, w)'
        BY <2>5 DEF Comes
      <3>3. \A p \in Owner, v \in Work : Comes(p, v) => Comes(p, v)'
        BY <1>1, <2>1, <2>4 DEF ScratchInv, ScratchTypes, WorkInv, Comes, Removing
      <3>4. In(o)
        BY <2>1 DEF In
      <3> QED
        BY <3>1, <3>2, <3>3, <3>4 DEF ScratchInv, CoverInv
    <2> QED
      BY <1>1, <2>1, <2>2, <2>4, <2>7, <2>8 DEF ScratchInv, Scratch!RootKeepsMarker
  <1> QED
    BY <1>2, <1>3

\* The next workspace of a recovery, and its manifest: only under its lease.
LEMMA ScratchLook ==
    ASSUME ScratchInv, NEW o \in Owner,
           \/ \E w \in Work : Scratch!Visit(o, w)
           \/ Scratch!Probe(o) \/ Scratch!Read(o) \/ Scratch!List(o)
    PROVE  ScratchInv'
  <1> USE DEF Scratch!rootVars, Scratch!workVars, Scratch!ownVars, Scratch!limits, Scratch!Step,
              Scratch!Goto, Scratch!Nobody, Scratch!Returned
  <1>1. UNCHANGED <<root, torn, dir, manifest, bytes, stray, active, drawn, held, crashes, faults>>
    BY DEF Scratch!Visit, Scratch!Probe, Scratch!Read, Scratch!List
  <1>2. CASE \E w \in Work : Scratch!Visit(o, w)
    <2>0. PICK w \in Work : Scratch!Visit(o, w)
      BY <1>2
    <2>1. /\ pc[o] = "walk" /\ w \in todo[o] /\ pc' = [pc EXCEPT ![o] = "probe"]
          /\ at' = [at EXCEPT ![o] = w] /\ todo' = [todo EXCEPT ![o] = todo[o] \ {w}]
          /\ spoiled' = spoiled \ {w} /\ UNCHANGED <<lease, saw>>
      BY <2>0 DEF Scratch!Visit
    <2>2. w \in drawn /\ w \notin active[o]
      BY <2>1 DEF ScratchInv, ScratchTypes, WorkInv
    <2>3. ScratchTypes'
      BY <1>1, <2>1, <2>2 DEF ScratchInv, ScratchTypes, Removing
    <2>4. \A p \in Owner, v \in Work : Claims(p, v)' => Claims(p, v)
      BY <1>1, <2>1 DEF ScratchInv, ScratchTypes, Claims
    <2>5. \A p \in Owner : p # o => pc'[p] = pc[p] /\ at'[p] = at[p] /\ todo'[p] = todo[p]
      BY <2>1 DEF ScratchInv, ScratchTypes
    <2>6. pc'[o] = "probe" /\ at'[o] = w /\ todo'[o] = todo[o] \ {w}
      BY <2>1 DEF ScratchInv, ScratchTypes
    <2>7. WorkInv'
      BY <1>1, <2>1, <2>2, <2>4, <2>5, <2>6, ScratchConstants
      DEF ScratchInv, ScratchTypes, WorkInv, Removing, Past
    <2>8. CoverInv'
      <3>1. \A v \in Work : Unreclaimed(v)' => Unreclaimed(v) \/ v = w
        BY <1>1, <2>1 DEF Unreclaimed
      <3>2. Comes(o, w)'
        BY <2>6 DEF Comes
      <3>3. \A p \in Owner, v \in Work : v # w /\ Comes(p, v) => Comes(p, v)'
        BY <1>1, <2>1, <2>5, <2>6 DEF Comes
      <3>4. In(o)
        BY <2>1 DEF In
      <3> QED
        BY <3>1, <3>2, <3>3, <3>4 DEF ScratchInv, CoverInv
    <2> QED
      BY <1>1, <2>1, <2>3, <2>5, <2>7, <2>8 DEF ScratchInv, Scratch!RootKeepsMarker
  <1>3. ASSUME Scratch!Probe(o) \/ Scratch!Read(o) \/ Scratch!List(o) PROVE ScratchInv'
    <2>0. /\ UNCHANGED <<at, todo, spoiled>> /\ pc[o] \in {"probe", "read", "list"}
          /\ at[o] \in Work /\ at[o] \in drawn /\ at[o] \notin active[o]
      BY <1>3 DEF ScratchInv, ScratchTypes, WorkInv, Scratch!Probe, Scratch!Read, Scratch!List,
          Removing
    <2>1. PICK s \in {"idle", "walk", "read", "list", "purge"} :
              /\ pc' = [pc EXCEPT ![o] = s] /\ (s = "idle" => todo[o] = {})
      BY <1>3 DEF Scratch!Probe, Scratch!Read, Scratch!List
    <2>2. pc'[o] = s /\ \A p \in Owner : p # o => pc'[p] = pc[p]
      BY <2>1 DEF ScratchInv, ScratchTypes
    <2>3. lease' \in [Work -> Owner \union {Scratch!Nobody}]
      BY <1>3, <2>0 DEF ScratchInv, ScratchTypes, Scratch!Probe, Scratch!Read, Scratch!List
    <2>4. ScratchTypes'
      BY <1>1, <2>0, <2>1, <2>3 DEF ScratchInv, ScratchTypes, Removing
    <2>5. \A p \in Owner, v \in Work : Claims(p, v)' <=> Claims(p, v)
      BY <1>1, <2>0, <2>1, <2>2 DEF Claims
    <2>6. WorkInv'
      <3>1. CASE lease' = lease /\ (s \in {"idle", "walk"} \/ (s = "purge" /\ pc[o] = "list"))
                 /\ pc[o] # "read"
        BY <1>1, <2>0, <2>1, <2>2, <2>5, <3>1
        DEF ScratchInv, ScratchTypes, WorkInv, Removing, Past
      <3>2. CASE /\ lease[at[o]] = Scratch!Nobody /\ lease' = [lease EXCEPT ![at[o]] = o]
                 /\ s = "read" /\ pc[o] = "probe"
        <4>1. \A p \in Owner : \A v \in active[p] : v # at[o] /\ lease'[v] = p
          BY <2>0, <3>2, ScratchConstants DEF ScratchInv, ScratchTypes, WorkInv
        <4>2. \A p \in Owner : p # o /\ pc[p] \in {"fill", "read"} => at[p] # at[o] /\ lease'[at[p]] = p
          BY <2>0, <3>2, ScratchConstants DEF ScratchInv, ScratchTypes, WorkInv, Removing
        <4>3. lease'[at[o]] = o /\ \A v \in Work : v # at[o] => lease'[v] = lease[v]
          BY <2>0, <3>2 DEF ScratchInv, ScratchTypes
        <4>4. \A v \in Work : lease[v] = o => v \in active[o] \/ lease[v] = Scratch!Nobody
          BY <3>2 DEF ScratchInv, ScratchTypes, WorkInv
        <4> QED
          BY <1>1, <2>0, <2>1, <2>2, <2>5, <3>2, <4>1, <4>2, <4>3, <4>4
          DEF ScratchInv, ScratchTypes, WorkInv, Removing, Past
      <3>3. CASE /\ pc[o] = "read" /\ lease' = [lease EXCEPT ![at[o]] = Scratch!Nobody]
                 /\ s \in {"idle", "walk"} \/ (s = "list" /\ manifest[at[o]] = "ours")
        <4>1. lease[at[o]] = o /\ \A p \in Owner : at[o] \notin active[p]
          BY <2>0, <3>3 DEF ScratchInv, WorkInv
        <4>2. \A p \in Owner : manifest[at[o]] = "ours" => ~ Claims(p, at[o])
          BY <4>1 DEF ScratchInv, WorkInv, Claims
        <4>3. /\ \A v \in Work : IF v = at[o] THEN lease'[v] = Scratch!Nobody ELSE lease'[v] = lease[v]
              /\ \A p \in Owner : p # o /\ pc[p] \in {"fill", "read"} => at[p] # at[o]
          BY <2>0, <3>3, <4>1 DEF ScratchInv, ScratchTypes, WorkInv
        <4>4. \A v \in Work : lease[v] = o => v \in active[o] \/ v = at[o] \/ lease[v] = Scratch!Nobody
          BY <3>3 DEF ScratchInv, ScratchTypes, WorkInv
        <4> QED
          BY <1>1, <2>0, <2>1, <2>2, <2>5, <3>3, <4>1, <4>2, <4>3, <4>4
          DEF ScratchInv, ScratchTypes, WorkInv, Removing, Past
      <3>4. CASE Scratch!Probe(o)
        <4>1. pc[o] = "probe"
          BY <3>4 DEF Scratch!Probe
        <4>2. CASE lease' = [lease EXCEPT ![at[o]] = o] /\ lease[at[o]] = Scratch!Nobody /\ s = "read"
          BY <3>2, <4>1, <4>2
        <4>3. CASE lease' = lease /\ s \in {"idle", "walk"}
          BY <3>1, <4>1, <4>3
        <4>4. pc'[o] = "read" => lease' = [lease EXCEPT ![at[o]] = o] /\ lease[at[o]] = Scratch!Nobody
          BY <3>4 DEF ScratchInv, ScratchTypes, Scratch!Probe
        <4>5. pc'[o] # "read" => lease' = lease /\ pc'[o] \in {"idle", "walk"}
          BY <3>4 DEF ScratchInv, ScratchTypes, Scratch!Probe
        <4> QED
          BY <2>2, <4>2, <4>3, <4>4, <4>5
      <3>5. CASE Scratch!Read(o)
        <4>1. /\ pc[o] = "read" /\ lease' = [lease EXCEPT ![at[o]] = Scratch!Nobody]
              /\ s \in {"idle", "walk"} \/ (s = "list" /\ manifest[at[o]] = "ours")
          BY <2>2, <3>5 DEF ScratchInv, ScratchTypes, Scratch!Read
        <4> QED
          BY <3>3, <4>1
      <3>6. CASE Scratch!List(o)
        <4>1. pc[o] = "list" /\ lease' = lease /\ s \in {"idle", "walk", "purge"}
          BY <2>2, <3>6 DEF ScratchInv, ScratchTypes, Scratch!List
        <4> QED
          BY <3>1, <4>1
      <3> QED
        BY <1>3, <3>4, <3>5, <3>6
    <2>7. CoverInv'
      <3>1. ASSUME NEW v \in Work, Unreclaimed(v) PROVE Comes(o, v) => \E q \in Owner : Comes(q, v)'
        <4>1. CASE v \in todo[o]
          BY <2>0, <4>1 DEF Comes
        <4>2. CASE v \notin todo[o] /\ at[o] = v
          <5>1. v \in dir /\ manifest[v] = "ours" /\ v \notin stray
            BY <3>1 DEF Unreclaimed
          <5>2. CASE Scratch!Probe(o) /\ lease[v] = Scratch!Nobody
            BY <2>0, <2>2, <4>2, <5>1, <5>2 DEF ScratchInv, ScratchTypes, Scratch!Probe, Comes
          <5>3. CASE Scratch!Probe(o) /\ lease[v] # Scratch!Nobody
            <6>1. PICK q \in Owner : q = lease[v]
              BY <5>3 DEF ScratchInv, ScratchTypes
            <6>2. pc[q] = "read" /\ at[q] = v /\ q # o
              BY <3>1, <5>1, <5>3, <6>1 DEF ScratchInv, WorkInv, Unreclaimed, Scratch!Probe
            <6> QED
              BY <2>0, <2>2, <6>2 DEF Comes
          <5>4. CASE Scratch!Read(o)
            BY <2>0, <2>2, <4>2, <5>1, <5>4 DEF ScratchInv, ScratchTypes, Scratch!Read, Comes
          <5>5. CASE Scratch!List(o)
            <6>1. pc' = [pc EXCEPT ![o] = "purge"] /\ saw' = IF v \in bytes THEN saw \union {o} ELSE saw \ {o}
              BY <4>2, <5>1, <5>5 DEF Scratch!List
            <6> QED
              BY <1>1, <2>0, <4>2, <6>1 DEF ScratchInv, ScratchTypes, Comes
          <5> QED
            BY <1>3, <5>2, <5>3, <5>4, <5>5
        <4> QED
          BY <4>1, <4>2 DEF Comes
      <3>2. \A q \in Owner : q # o => (q \in saw' <=> q \in saw)
        BY <1>3 DEF Scratch!Probe, Scratch!Read, Scratch!List
      <3>3. \A q \in Owner, v \in Work : q # o /\ Comes(q, v) => Comes(q, v)'
        BY <1>1, <2>0, <2>2, <3>2 DEF Comes
      <3>4. \A v \in Work : Unreclaimed(v)' <=> Unreclaimed(v)
        BY <1>1, <2>0 DEF Unreclaimed
      <3>5. In(o)
        BY <2>0 DEF In
      <3> QED
        BY <3>1, <3>3, <3>4, <3>5 DEF ScratchInv, CoverInv
    <2> QED
      BY <1>1, <2>0, <2>2, <2>4, <2>6, <2>7 DEF ScratchInv, Scratch!RootKeepsMarker
  <1> QED
    BY <1>2, <1>3

\* The deletion of a workspace: its bytes, then its manifest, then its directory.
LEMMA ScratchDelete ==
    ASSUME ScratchInv, NEW o \in Owner,
           Scratch!Purge(o) \/ Scratch!Unmark(o) \/ Scratch!Rmdir(o)
    PROVE  ScratchInv'
  <1> USE DEF Scratch!rootVars, Scratch!workVars, Scratch!ownVars, Scratch!limits, Scratch!Step,
              Scratch!Goto, Scratch!Nobody, Scratch!Returned
  <1>a. pc[o] \in {"purge", "unmark", "rmdir"} /\ at[o] \in Work
    BY DEF ScratchInv, ScratchTypes, Scratch!Purge, Scratch!Unmark, Scratch!Rmdir, Removing
  <1>5. PICK w \in Work : at[o] = w
    BY <1>a
  <1>0. /\ pc[o] \in {"purge", "unmark", "rmdir"} /\ w \in Work /\ w \in drawn
        /\ \A p \in Owner : ~ Claims(p, w)
    BY <1>a, <1>5 DEF ScratchInv, ScratchTypes, WorkInv, Scratch!Purge, Scratch!Unmark, Scratch!Rmdir,
           Removing, Past
  <1>1. UNCHANGED <<root, torn, lease, stray, at, todo, saw, active, drawn, held, spoiled, crashes, faults>>
    BY DEF Scratch!Purge, Scratch!Unmark, Scratch!Rmdir
  <1>2. PICK s \in {"idle", "walk", "unmark", "rmdir"} :
            /\ pc' = [pc EXCEPT ![o] = s] /\ (s = "idle" => todo[o] = {})
    BY DEF Scratch!Purge, Scratch!Unmark, Scratch!Rmdir
  <1>3. pc'[o] = s /\ \A p \in Owner : p # o => pc'[p] = pc[p]
    BY <1>2 DEF ScratchInv, ScratchTypes
  <1>4. \/ /\ bytes' = bytes \ {w} /\ UNCHANGED <<dir, manifest>> /\ pc[o] = "purge"
           /\ s = "unmark" \/ (s \in {"idle", "walk"} /\ o \in saw /\ w \notin bytes)
        \/ /\ manifest' = [manifest EXCEPT ![w] = "none"] /\ UNCHANGED <<dir, bytes>>
           /\ pc[o] = "unmark" /\ s \in {"idle", "walk", "rmdir"}
        \/ /\ UNCHANGED <<bytes, manifest>> /\ pc[o] = "rmdir" /\ s \in {"idle", "walk"}
           /\ dir' = dir \/ (dir' = dir \ {w} /\ w \notin bytes)
    <2>1. CASE Scratch!Purge(o)
      BY <1>3, <1>5, <2>1 DEF ScratchInv, ScratchTypes, Scratch!Purge
    <2>2. CASE Scratch!Unmark(o)
      BY <1>3, <1>5, <2>2 DEF ScratchInv, ScratchTypes, Scratch!Unmark
    <2>3. CASE Scratch!Rmdir(o)
      BY <1>3, <1>5, <2>3 DEF ScratchInv, ScratchTypes, Scratch!Rmdir
    <2> QED
      BY <2>1, <2>2, <2>3
  <1>6. ScratchTypes'
    <2>1. /\ manifest' \in [Work -> {"none", "empty", "ours"}] /\ dir' \subseteq drawn /\ bytes' \subseteq dir'
          /\ \A v \in Work : manifest'[v] # "none" => manifest[v] # "none"
      BY <1>0, <1>4 DEF ScratchInv, ScratchTypes
    <2> QED
      BY <1>0, <1>1, <1>2, <2>1 DEF ScratchInv, ScratchTypes, Removing
  <1>7. \A p \in Owner, v \in Work : Claims(p, v)' <=> Claims(p, v)
    BY <1>0, <1>1, <1>3, <1>4 DEF Claims
  <1>8. WorkInv'
    <2>1. \A p \in Owner : /\ w \notin active[p]
                           /\ pc[p] \in {"lease", "fill"} => at[p] # w
      BY <1>0 DEF Claims
    <2>2. w \notin held
      BY <2>1 DEF ScratchInv, ScratchTypes
    <2>3. \A v \in Work : v # w => /\ manifest'[v] = manifest[v] /\ (v \in dir' <=> v \in dir)
                                   /\ (v \in bytes' <=> v \in bytes)
      BY <1>0, <1>4 DEF ScratchInv, ScratchTypes
    <2>4. w \in bytes' => manifest'[w] = "ours"
      BY <1>4, <1>5 DEF ScratchInv, WorkInv
    <2>5. bytes' \subseteq bytes /\ (s = "unmark" => w \notin bytes')
      BY <1>4
    <2>6. bytes' \subseteq Work
      BY <2>5 DEF ScratchInv, ScratchTypes
    <2>7. \A v \in bytes' : manifest'[v] = "ours"
      BY <2>3, <2>4, <2>5, <2>6 DEF ScratchInv, WorkInv
    <2>8. \A p \in Owner : \A v \in active'[p] :
              /\ v \in dir' /\ manifest'[v] = "ours" /\ lease'[v] = p
              /\ v \in held' => v \in bytes'
      BY <1>1, <2>1, <2>3 DEF ScratchInv, ScratchTypes, WorkInv
    <2>9. \A p \in Owner :
              pc'[p] \in {"lease", "fill"} => at'[p] \in dir' /\ manifest'[at'[p]] = "empty"
      BY <1>1, <1>3, <2>1, <2>3 DEF ScratchInv, ScratchTypes, WorkInv
    <2>10. \A p \in Owner : /\ pc'[p] \in Past => \A q \in Owner : ~ Claims(q, at[p])'
                            /\ pc'[p] = "unmark" => at'[p] \notin bytes'
      <3>1. \A p \in Owner : pc'[p] \in Past => pc[p] \in Past
        BY <1>0, <1>3 DEF Past
      <3>2. \A p \in Owner : pc[p] \in Past => at[p] \in Work /\ \A q \in Owner : ~ Claims(q, at[p])
        BY DEF ScratchInv, ScratchTypes, WorkInv, Past, Removing
      <3>3. ASSUME NEW p \in Owner, pc'[p] \in Past PROVE \A q \in Owner : ~ Claims(q, at[p])'
        <4>1. PICK v \in Work : at[p] = v /\ \A q \in Owner : ~ Claims(q, v)
          BY <3>1, <3>2, <3>3
        <4>2. \A q \in Owner : ~ Claims(q, v)'
          BY <1>7, <4>1
        <4> QED
          BY <1>1, <4>1, <4>2
      <3>4. \A p \in Owner : pc'[p] = "unmark" => at'[p] \notin bytes'
        BY <1>1, <1>3, <1>5, <2>5 DEF ScratchInv, WorkInv
      <3> QED
        BY <3>3, <3>4
    <2>11. \A p, q \in Owner : \A v \in Work : Claims(p, v)' /\ Claims(q, v)' => p = q
      BY <1>7 DEF ScratchInv, WorkInv
    <2>12. \A p \in Owner :
              /\ pc'[p] = "fill" => lease'[at'[p]] = p
              /\ pc'[p] = "read" => lease'[at'[p]] = p
              /\ pc'[p] \notin Removing \union {"walk"} => todo'[p] = {}
              /\ todo'[p] \intersect active'[p] = {}
              /\ pc'[p] \in Removing => at'[p] \notin active'[p]
      BY <1>0, <1>1, <1>2, <1>3 DEF ScratchInv, ScratchTypes, WorkInv, Removing
    <2>13. \A v \in Work : lease'[v] # Scratch!Nobody =>
              \/ v \in active'[lease'[v]]
              \/ pc'[lease'[v]] \in {"fill", "read"} /\ at'[lease'[v]] = v
      BY <1>0, <1>1, <1>3 DEF ScratchInv, ScratchTypes, WorkInv
    <2> QED
      BY <2>7, <2>8, <2>9, <2>10, <2>11, <2>12, <2>13 DEF WorkInv
  <1>9. CoverInv'
    <2>1. \A v \in Work : Unreclaimed(v)' => Unreclaimed(v)
      BY <1>0, <1>1, <1>4 DEF ScratchInv, ScratchTypes, Unreclaimed
    <2>2. \A q \in Owner, v \in Work : q # o /\ v # w /\ Comes(q, v) => Comes(q, v)'
      BY <1>0, <1>1, <1>3, <1>4 DEF Comes
    <2>3. \A v \in Work : v # w /\ Comes(o, v) => Comes(o, v)'
      BY <1>1, <1>5 DEF Comes
    <2>4. ASSUME Unreclaimed(w)' PROVE \E q \in Owner : Comes(q, w)'
      <3>1. CASE s = "unmark"
        BY <1>1, <1>3, <1>5, <3>1 DEF Comes
      <3>2. CASE pc[o] = "purge" /\ s \in {"idle", "walk"} /\ o \in saw /\ w \notin bytes /\ bytes' = bytes
        <4>1. PICK q \in Owner : Comes(q, w)
          BY <1>0, <2>1, <2>4 DEF ScratchInv, CoverInv, In
        <4>2. CASE q = o
          BY <1>0, <1>1, <1>5, <3>2, <4>1, <4>2 DEF Comes
        <4>3. CASE q # o
          BY <1>1, <1>3, <3>2, <4>1, <4>3 DEF Comes
        <4> QED
          BY <4>2, <4>3
      <3>3. CASE pc[o] = "unmark"
        BY <1>0, <1>4, <2>4, <3>3 DEF ScratchInv, ScratchTypes, Unreclaimed
      <3>4. CASE pc[o] = "rmdir" /\ UNCHANGED <<bytes, manifest>> /\ s \in {"idle", "walk"}
        <4>1. PICK q \in Owner : Comes(q, w)
          BY <1>0, <2>1, <2>4 DEF ScratchInv, CoverInv, In
        <4> QED
          BY <1>1, <1>3, <1>5, <3>4, <4>1 DEF Comes
      <3>5. w \notin bytes => bytes \ {w} = bytes
        OBVIOUS
      <3> QED
        BY <1>0, <1>4, <3>1, <3>2, <3>3, <3>4, <3>5
    <2>5. In(o)
      BY <1>0 DEF In
    <2> QED
      BY <2>1, <2>2, <2>3, <2>4, <2>5 DEF ScratchInv, CoverInv
  <1> QED
    BY <1>0, <1>1, <1>3, <1>6, <1>8, <1>9 DEF ScratchInv, Scratch!RootKeepsMarker

\* A removal fails: the workspace is given up, and its lease.
LEMMA ScratchFails ==
    ASSUME ScratchInv, NEW o \in Owner, Scratch!RemoveFails(o)
    PROVE  ScratchInv'
  <1> USE DEF Scratch!rootVars, Scratch!workVars, Scratch!ownVars, Scratch!limits, Scratch!Step,
              Scratch!Goto, Scratch!Nobody, Scratch!Returned
  <1>1. /\ UNCHANGED <<root, torn, dir, manifest, bytes, stray, at, todo, saw, active, drawn, held, crashes>>
        /\ pc[o] \in Removing /\ spoiled' = spoiled \union {at[o]}
        /\ lease' = [lease EXCEPT ![at[o]] = IF lease[at[o]] = o THEN Scratch!Nobody ELSE lease[at[o]]]
        /\ pc' = [pc EXCEPT ![o] = IF todo[o] = {} THEN "idle" ELSE "walk"]
    BY DEF Scratch!RemoveFails, Scratch!Fault, Removing
  <1>2. faults' \in Nat /\ faults' <= Faults
    BY ScratchConstants DEF Scratch!RemoveFails, Scratch!Fault, ScratchInv, ScratchTypes
  <1>3. at[o] \in Work /\ at[o] \notin active[o]
    BY <1>1 DEF ScratchInv, ScratchTypes, WorkInv
  <1>4. ScratchTypes'
    BY <1>1, <1>2, <1>3 DEF ScratchInv, ScratchTypes, Removing
  <1>5. pc'[o] \in {"idle", "walk"} /\ (pc'[o] = "idle" => todo[o] = {})
        /\ \A p \in Owner : p # o => pc'[p] = pc[p]
    BY <1>1 DEF ScratchInv, ScratchTypes
  <1>6. \A p \in Owner, v \in Work : Claims(p, v)' <=> Claims(p, v)
    BY <1>1, <1>5 DEF Claims, Removing
  <1>7. WorkInv'
    <2>1. \A v \in Work : lease'[v] = lease[v] \/ (v = at[o] /\ lease[v] = o /\ lease'[v] = Scratch!Nobody)
      BY <1>1, <1>3 DEF ScratchInv, ScratchTypes
    <2>2. \A v \in Work : lease'[v] = o => v \in active[o]
      BY <1>1, <1>3, ScratchConstants DEF ScratchInv, ScratchTypes, WorkInv, Removing
    <2>3. \A p \in Owner : \A v \in active[p] : lease'[v] = p
      BY <1>3, <2>1 DEF ScratchInv, ScratchTypes, WorkInv
    <2>4. \A p \in Owner : pc'[p] \in {"fill", "read"} => lease'[at[p]] = p
      BY <1>5, <2>1 DEF ScratchInv, ScratchTypes, WorkInv, Removing
    <2>5. \A p \in Owner : pc'[p] \in Past => pc[p] \in Past /\ at[p] \in Work
      BY <1>5 DEF ScratchInv, ScratchTypes, Past, Removing
    <2>6. \A p \in Owner : pc'[p] \in Past => \A q \in Owner : ~ Claims(q, at[p])'
      <3> SUFFICES ASSUME NEW p \in Owner, pc'[p] \in Past PROVE \A q \in Owner : ~ Claims(q, at[p])'
        OBVIOUS
      <3>1. PICK v \in Work : at[p] = v /\ \A q \in Owner : ~ Claims(q, v)
        BY <2>5 DEF ScratchInv, WorkInv
      <3>2. \A q \in Owner : ~ Claims(q, v)'
        BY <1>6, <3>1
      <3> QED
        BY <1>1, <3>1, <3>2
    <2> QED
      BY <1>1, <1>3, <1>5, <1>6, <2>1, <2>2, <2>3, <2>4, <2>6
      DEF ScratchInv, ScratchTypes, WorkInv, Removing, Past
  <1>8. CoverInv'
    <2>1. \A v \in Work : Unreclaimed(v)' => Unreclaimed(v) /\ v # at[o]
      BY <1>1 DEF Unreclaimed
    <2>2. \A p \in Owner, v \in Work : v # at[o] /\ Comes(p, v) => Comes(p, v)'
      BY <1>1, <1>5 DEF Comes
    <2>3. In(o)
      BY <1>1 DEF In, Removing
    <2> QED
      BY <2>1, <2>2, <2>3 DEF ScratchInv, CoverInv
  <1> QED
    BY <1>1, <1>4, <1>5, <1>7, <1>8 DEF ScratchInv, Scratch!RootKeepsMarker, Removing

\* An entry of somebody else arrives; the process is killed.
LEMMA ScratchWorld ==
    ASSUME ScratchInv, Scratch!Crash \/ \E p \in Work \union {Scratch!Root} : Scratch!StrayArrives(p)
    PROVE  ScratchInv'
  <1> USE DEF Scratch!rootVars, Scratch!workVars, Scratch!ownVars, Scratch!limits, Scratch!Nobody,
              Scratch!Nothing
  <1>1. CASE Scratch!Crash
    <2>1. ScratchTypes'
      BY <1>1, ScratchConstants DEF ScratchInv, ScratchTypes, Scratch!Crash, Removing
    <2>2. WorkInv'
      BY <1>1 DEF ScratchInv, ScratchTypes, WorkInv, Claims, Scratch!Crash, Removing, Past
    <2> QED
      BY <1>1, <2>1, <2>2 DEF ScratchInv, CoverInv, In, Scratch!RootKeepsMarker, Scratch!Crash
  <1>2. ASSUME NEW p \in Work \union {Scratch!Root}, Scratch!StrayArrives(p) PROVE ScratchInv'
    <2>1. /\ UNCHANGED <<root, torn, dir, manifest, bytes, lease, pc, at, todo, saw, active, drawn, held,
                         spoiled, crashes, faults>>
          /\ stray' = stray \union {p}
      BY <1>2 DEF Scratch!StrayArrives
    <2>2. ScratchTypes'
      BY <1>2, <2>1 DEF ScratchInv, ScratchTypes
    <2>3. WorkInv'
      BY <2>1 DEF ScratchInv, WorkInv, Claims
    <2>4. CoverInv'
      BY <2>1 DEF ScratchInv, CoverInv, In, Comes, Unreclaimed
    <2> QED
      BY <2>1, <2>2, <2>3, <2>4 DEF ScratchInv, Scratch!RootKeepsMarker
  <1> QED
    BY <1>1, <1>2

\* Every step of the owners keeps the invariant.
LEMMA ScratchStep == ScratchInv /\ Scratch!Next => ScratchInv'
  <1> SUFFICES ASSUME ScratchInv, Scratch!Next PROVE ScratchInv'
    OBVIOUS
  <1>1. ASSUME NEW o \in Owner,
               \/ Scratch!Opening(o) \/ Scratch!Creation(o) \/ Scratch!Removal(o)
               \/ Scratch!RecoverAgain(o) \/ Scratch!Close(o) \/ Scratch!Leave(o)
               \/ Scratch!Retire(o) \/ Scratch!Retired(o) \/ Scratch!RetireFails(o)
        PROVE  ScratchInv'
    BY <1>1, ScratchRoot, ScratchEnter, ScratchFill, ScratchLook, ScratchDelete, ScratchFails
    DEF Scratch!Opening, Scratch!Creation, Scratch!Removal
  <1>2. ASSUME NEW o \in Owner, NEW w \in Work,
               \/ Scratch!Make(o, w) \/ Scratch!MakeFails(o, w) \/ Scratch!Write(o, w)
               \/ Scratch!Published(o, w) \/ Scratch!Release(o, w) \/ Scratch!Visit(o, w)
        PROVE  ScratchInv'
    BY <1>2, ScratchMake, ScratchUse, ScratchLook
  <1> QED
    BY <1>1, <1>2, ScratchWorld DEF Scratch!Next

\* The invariant of the owners in the words of their module.
LEMMA ScratchImplies ==
    ScratchInv => /\ Scratch!TypeOK /\ Scratch!LiveWorkKept /\ Scratch!BytesHaveManifest
                  /\ Scratch!AbandonedWorkReclaimed /\ Scratch!RootKeepsMarker
  <1> SUFFICES ASSUME ScratchInv
               PROVE  /\ Scratch!TypeOK /\ Scratch!LiveWorkKept /\ Scratch!BytesHaveManifest
                      /\ Scratch!AbandonedWorkReclaimed /\ Scratch!RootKeepsMarker
    OBVIOUS
  <1>1. Scratch!TypeOK
    BY DEF ScratchInv, ScratchTypes, Scratch!TypeOK
  <1>2. Scratch!AbandonedWorkReclaimed
    <2> SUFFICES ASSUME \A o \in Owner : pc[o] \in {"out", "idle"}, \E o \in Owner : pc[o] = "idle",
                        NEW w \in dir, manifest[w] = "ours"
                 PROVE  w \in stray \union spoiled \union UNION {active[o] : o \in Owner}
      BY DEF Scratch!AbandonedWorkReclaimed
    <2>1. \A q \in Owner : ~ Comes(q, w)
      BY DEF ScratchInv, WorkInv, Comes, Removing
    <2>2. w \in Work /\ ~ Unreclaimed(w)
      BY <2>1 DEF ScratchInv, ScratchTypes, CoverInv, In
    <2> QED
      BY <2>2 DEF Unreclaimed
  <1> QED
    BY <1>1, <1>2
    DEF ScratchInv, WorkInv, Scratch!LiveWorkKept, Scratch!BytesHaveManifest

-----------------------------------------------------------------------------
(* Capacity: sums of blocks *)

Blocks(f, S) == UNION {{j} \X (1..f[j]) : j \in S}
Sum(f, S) == Cardinality(Blocks(f, S))

LEMMA BudgetConstants ==
    /\ IsFiniteSet(Job) /\ Capacity \in Nat /\ MaxForeign \in Nat
    /\ Headroom \in Nat \ {0} /\ Window \in Nat \ {0} /\ Hint \in [Job -> Nat] /\ Sizes \subseteq Nat
    /\ NoSample \notin Nat
    /\ NoRegistry \notin [free : Nat, spent : Nat, claims : UNION {[S -> Nat] : S \in SUBSET Job}]
  <1>1. \A S : Budgets!IsFiniteSet(S) <=> IsFiniteSet(S)
    BY DEF Budgets!IsFiniteSet, IsFiniteSet
  <1> QED
    BY <1>1, PartsAssumption DEF Budgets!CapacityAssumption

\* The sum of the module of the budgets is the number of pairs.
LEMMA TotalIsSum == \A f, S : Budgets!Total(f, S) = Sum(f, S)
  <1>1. \A S : Budgets!Cardinality(S) = Cardinality(S)
    BY DEF Budgets!Cardinality, Cardinality
  <1> QED
    BY <1>1 DEF Budgets!Total, Sum, Blocks

LEMMA BlocksOf ==
    ASSUME NEW f, NEW S
    PROVE  \A p : p \in Blocks(f, S) <=> \E j \in S : \E k \in 1..f[j] : p = <<j, k>>
  BY DEF Blocks

\* A finite sum is a natural number.
LEMMA SumIsNat ==
    ASSUME NEW S \in SUBSET Job, NEW f, \A j \in S : f[j] \in Nat
    PROVE  IsFiniteSet(Blocks(f, S)) /\ Sum(f, S) \in Nat
  <1> DEFINE Own(j) == {j} \X (1..f[j])
             own == [j \in S |-> Own(j)]
             All == {Own(j) : j \in S}
  <1>1. IsFiniteSet(S)
    BY BudgetConstants, FS_Subset
  <1>2. own \in Surjection(S, All)
    BY DEF Surjection
  <1>3. IsFiniteSet(All)
    BY <1>1, <1>2, FS_Surjection
  <1>4. ASSUME NEW j \in S PROVE IsFiniteSet(Own(j))
    <2>1. IsFiniteSet({j})
      BY FS_Singleton
    <2>2. IsFiniteSet(1..f[j])
      <3>1. PICK b \in Nat : b = f[j]
        OBVIOUS
      <3>2. IsFiniteSet(1..b)
        BY FS_Interval
      <3> QED
        BY <3>1, <3>2
    <2> QED
      BY <2>1, <2>2, FS_Product
  <1>5. \A T \in All : IsFiniteSet(T)
    BY <1>4
  <1> HIDE DEF All
  <1>6. IsFiniteSet(UNION All)
    BY <1>3, <1>5, FS_UNION
  <1>7. UNION All = Blocks(f, S)
    BY DEF All, Blocks
  <1> QED
    BY <1>6, <1>7, FS_CardinalityType DEF Sum

\* A sum only depends on the values it adds.
LEMMA SumSame ==
    ASSUME NEW S \in SUBSET Job, NEW f, NEW g, \A j \in S : f[j] = g[j]
    PROVE  Sum(f, S) = Sum(g, S)
  <1>1. ASSUME NEW p PROVE p \in Blocks(f, S) <=> p \in Blocks(g, S)
    <2>1. p \in Blocks(f, S) <=> \E j \in S : \E k \in 1..f[j] : p = <<j, k>>
      BY BlocksOf
    <2>2. p \in Blocks(g, S) <=> \E j \in S : \E k \in 1..g[j] : p = <<j, k>>
      BY BlocksOf
    <2> QED
      BY <2>1, <2>2
  <1>2. Blocks(f, S) = Blocks(g, S)
    BY <1>1
  <1> QED
    BY <1>2 DEF Sum

\* Smaller values over a smaller set have a smaller sum.
LEMMA SumLess ==
    ASSUME NEW S \in SUBSET Job, NEW T \in SUBSET S, NEW f, NEW g,
           \A j \in S : g[j] \in Nat, \A j \in T : f[j] \in Nat /\ f[j] <= g[j]
    PROVE  Sum(f, T) <= Sum(g, S)
  <1>1. IsFiniteSet(Blocks(g, S))
    BY SumIsNat
  <1>2. Blocks(f, T) \subseteq Blocks(g, S)
    <2> SUFFICES ASSUME NEW p \in Blocks(f, T) PROVE p \in Blocks(g, S)
      OBVIOUS
    <2>1. PICK j \in T, k \in Nat : p = <<j, k>> /\ k >= 1 /\ k <= f[j]
      BY BlocksOf
    <2>2. k \in 1..g[j]
      BY <2>1
    <2> QED
      BY <2>1, <2>2, BlocksOf
  <1> QED
    BY <1>1, <1>2, FS_Subset DEF Sum

\* The sum over two disjoint sets.
LEMMA SumSplit ==
    ASSUME NEW S \in SUBSET Job, NEW T \in SUBSET Job, NEW f, \A j \in S \union T : f[j] \in Nat,
           S \intersect T = {}
    PROVE  Sum(f, S \union T) = Sum(f, S) + Sum(f, T)
  <1>1. IsFiniteSet(Blocks(f, S)) /\ IsFiniteSet(Blocks(f, T)) /\ Sum(f, S) \in Nat /\ Sum(f, T) \in Nat
    BY SumIsNat
  <1>2. Blocks(f, S \union T) = Blocks(f, S) \union Blocks(f, T)
    BY BlocksOf
  <1>3. Blocks(f, S) \intersect Blocks(f, T) = {}
    BY BlocksOf
  <1>4. Cardinality(Blocks(f, S) \union Blocks(f, T))
            = Cardinality(Blocks(f, S)) + Cardinality(Blocks(f, T)) - Cardinality({})
    BY <1>1, <1>3, FS_Union
  <1>5. Cardinality({}) = 0
    BY FS_EmptySet
  <1>6. Sum(f, S \union T) = Sum(f, S) + Sum(f, T) - 0
    BY <1>2, <1>4, <1>5 DEF Sum
  <1> QED
    BY <1>1, <1>6

\* The sum over nobody, and over one.
LEMMA SumFew ==
    ASSUME NEW f
    PROVE  /\ Sum(f, {}) = 0
           /\ \A j : f[j] \in Nat => Sum(f, {j}) = f[j]
  <1>1. Blocks(f, {}) = {}
    BY DEF Blocks
  <1>2. ASSUME NEW j, f[j] \in Nat PROVE Sum(f, {j}) = f[j]
    <2>1. PICK b \in Nat : b = f[j]
      BY <1>2
    <2>2. IsFiniteSet(1..b) /\ Cardinality(1..b) = b
      BY FS_Interval
    <2>3. Cardinality({j}) = 1 /\ IsFiniteSet({j})
      BY FS_Singleton
    <2>4. Cardinality({j} \X (1..b)) = 1 * b
      BY <2>2, <2>3, FS_Product
    <2>5. Blocks(f, {j}) = {j} \X (1..b)
      BY <2>1 DEF Blocks
    <2> QED
      <3>1. Sum(f, {j}) = 1 * b
        BY <2>4, <2>5 DEF Sum
      <3> QED
        BY <2>1, <3>1
  <1> QED
    BY <1>1, <1>2, FS_EmptySet DEF Sum

\* A sum of sums: what two share fits what they share it from.
LEMMA SumPlus ==
    ASSUME NEW S \in SUBSET Job, NEW f, NEW g, NEW h,
           \A j \in S : f[j] \in Nat /\ g[j] \in Nat /\ h[j] \in Nat /\ f[j] + g[j] <= h[j]
    PROVE  Sum(f, S) + Sum(g, S) <= Sum(h, S)
  <1> DEFINE F == Blocks(f, S)
             G == Blocks(g, S)
             H == Blocks(h, S)
             shift == [p \in G |-> <<p[1], p[2] + f[p[1]]>>]
  <1>1. IsFiniteSet(F) /\ IsFiniteSet(G) /\ IsFiniteSet(H)
    BY SumIsNat
  <1>2. F \subseteq H
    <2> SUFFICES ASSUME NEW p \in F PROVE p \in H
      OBVIOUS
    <2>1. PICK j \in S, k \in Nat : p = <<j, k>> /\ k >= 1 /\ k <= f[j]
      BY BlocksOf
    <2>2. k \in 1..h[j]
      BY <2>1
    <2> QED
      BY <2>1, <2>2, BlocksOf
  <1>3. \A p \in G : p[1] \in S /\ p[2] \in 1..g[p[1]] /\ p = <<p[1], p[2]>>
    BY BlocksOf
  <1>4. \A p \in G : shift[p] \in H \ F
    <2> SUFFICES ASSUME NEW p \in G PROVE shift[p] \in H \ F
      OBVIOUS
    <2>1. PICK j \in S, k \in Nat : p[1] = j /\ p[2] = k /\ k >= 1 /\ k <= g[j]
      BY <1>3
    <2>2. shift[p] = <<j, k + f[j]>>
      BY <2>1
    <2>3. k + f[j] \in 1..h[j] /\ k + f[j] \notin 1..f[j]
      BY <2>1
    <2>4. <<j, k + f[j]>> \in H
      BY <2>3, BlocksOf
    <2>5. <<j, k + f[j]>> \notin F
      BY <2>3, BlocksOf
    <2> QED
      BY <2>2, <2>4, <2>5
  <1>5. \A p, q \in G : shift[p] = shift[q] => p = q
    <2> SUFFICES ASSUME NEW p \in G, NEW q \in G, shift[p] = shift[q] PROVE p = q
      OBVIOUS
    <2>1. p[1] = q[1] /\ p[2] + f[p[1]] = q[2] + f[q[1]]
      OBVIOUS
    <2>2. p[2] \in Nat /\ q[2] \in Nat /\ f[p[1]] \in Nat
      BY <1>3
    <2>3. p[2] = q[2]
      BY <2>1, <2>2
    <2> QED
      BY <1>3, <2>1, <2>3
  <1>6. shift \in Injection(G, H \ F)
    BY <1>4, <1>5 DEF Injection, IsInjective
  <1> HIDE DEF shift, F, G, H
  <1>7. IsFiniteSet(H \ F) /\ Cardinality(H \ F) = Cardinality(H) - Cardinality(H \intersect F)
    BY <1>1, FS_Difference
  <1>8. Cardinality(G) <= Cardinality(H \ F)
    BY <1>6, <1>7, FS_Injection
  <1>9. H \intersect F = F
    BY <1>2
  <1>10. Cardinality(F) \in Nat /\ Cardinality(G) \in Nat /\ Cardinality(H) \in Nat
    BY <1>1, FS_CardinalityType
  <1>11. Cardinality(H \ F) = Cardinality(H) - Cardinality(F)
    BY <1>7, <1>9
  <1>12. PICK x \in Nat, y \in Nat, z \in Nat : x = Cardinality(F) /\ y = Cardinality(G) /\ z = Cardinality(H)
    BY <1>10
  <1>13. y <= z - x
    BY <1>8, <1>11, <1>12
  <1> QED
    BY <1>12, <1>13 DEF Sum, F, G, H

\* A value changes: the sum changes as much.
LEMMA SumUpdate ==
    ASSUME NEW S \in SUBSET Job, NEW j \in S, NEW f, NEW g,
           \A k \in S : f[k] \in Nat /\ g[k] \in Nat, \A k \in S : k # j => g[k] = f[k]
    PROVE  Sum(g, S) - g[j] = Sum(f, S) - f[j]
  <1>1. S = (S \ {j}) \union {j} /\ (S \ {j}) \intersect {j} = {} /\ S \ {j} \in SUBSET Job /\ {j} \in SUBSET Job
    OBVIOUS
  <1>2. Sum(f, S) = Sum(f, S \ {j}) + f[j] /\ Sum(f, S \ {j}) \in Nat
    <2>1. Sum(f, (S \ {j}) \union {j}) = Sum(f, S \ {j}) + Sum(f, {j})
      BY <1>1, SumSplit
    <2> QED
      BY <1>1, <2>1, SumFew, SumIsNat
  <1>3. Sum(g, S) = Sum(g, S \ {j}) + g[j]
    <2>1. Sum(g, (S \ {j}) \union {j}) = Sum(g, S \ {j}) + Sum(g, {j})
      BY <1>1, SumSplit
    <2> QED
      BY <1>1, <2>1, SumFew
  <1>4. Sum(g, S \ {j}) = Sum(f, S \ {j})
    BY <1>1, SumSame
  <1> QED
    BY <1>2, <1>3, <1>4

-----------------------------------------------------------------------------
(* Capacity: what a registry says of what is on disk *)

Register(r) ==
    /\ r = [free |-> r.free, spent |-> r.spent, claims |-> r.claims]
    /\ r.free \in 0..Capacity /\ r.spent \in Nat
    /\ DOMAIN r.claims \in SUBSET Job /\ r.claims \in [DOMAIN r.claims -> Nat]

\* Claims and charges fit the sample of the epoch, a claim covers what its job
\* has on disk (d), and the charges what the members without a claim left there.
Charged(r, d, mem) ==
    /\ r.spent + Sum(r.claims, DOMAIN r.claims) <= r.free
    /\ DOMAIN r.claims \subseteq mem
    /\ \A k \in DOMAIN r.claims : d[k] <= r.claims[k]
    /\ Sum(d, mem \ DOMAIN r.claims) <= r.spent

\* The sample of the epoch is what the disk has free and its members have written.
Fits(r, d, mem, others) == r.free + Sum(d, Job) + others <= Capacity + Sum(d, mem)

LEMMA RegisterIsThere == \A r : Register(r) => r # NoRegistry
  <1> SUFFICES ASSUME NEW r, Register(r) PROVE r # NoRegistry
    OBVIOUS
  <1>1. PICK D, c : /\ D \in SUBSET Job /\ c \in [D -> Nat]
                    /\ r = [free |-> r.free, spent |-> r.spent, claims |-> c]
                    /\ r.free \in Nat /\ r.spent \in Nat
    BY BudgetConstants DEF Register
  <1>2. c \in UNION {[S -> Nat] : S \in SUBSET Job}
    <2>1. [D -> Nat] \in {[S -> Nat] : S \in SUBSET Job}
      BY <1>1
    <2> QED
      BY <1>1, <2>1
  <1>3. r \in [free : Nat, spent : Nat, claims : UNION {[S -> Nat] : S \in SUBSET Job}]
    BY <1>1, <1>2
  <1> QED
    BY <1>3, BudgetConstants

\* _load charges what the claims it drops had.
LEMMA ChargedLoad ==
    ASSUME NEW r, NEW d \in [Job -> Nat], NEW mem \in SUBSET Job, Register(r), Charged(r, d, mem),
           NEW L \in SUBSET DOMAIN r.claims, NEW data,
           data = [free |-> r.free, spent |-> r.spent + Sum(r.claims, DOMAIN r.claims \ L),
                   claims |-> [k \in L |-> r.claims[k]]]
    PROVE  Register(data) /\ Charged(data, d, mem)
  <1>1. PICK D, c : D \in SUBSET Job /\ c \in [D -> Nat] /\ c = r.claims /\ D = DOMAIN r.claims
    BY DEF Register
  <1>2. PICK e \in [L -> Nat] : e = data.claims /\ \A k \in L : e[k] = c[k]
    BY <1>1
  <1>3. L \in SUBSET Job /\ D \ L \in SUBSET Job /\ L \union (D \ L) = D /\ L \intersect (D \ L) = {}
    BY <1>1
  <1>4. Sum(c, D) = Sum(c, L) + Sum(c, D \ L)
    <2>1. Sum(c, L \union (D \ L)) = Sum(c, L) + Sum(c, D \ L)
      BY <1>1, <1>3, SumSplit
    <2> QED
      BY <1>3, <2>1
  <1>5. Sum(e, L) = Sum(c, L)
    BY <1>2, <1>3, SumSame
  <1>6. Sum(c, L) \in Nat /\ Sum(c, D \ L) \in Nat
    BY <1>1, <1>3, SumIsNat
  <1>7. data.free = r.free /\ data.spent = r.spent + Sum(c, D \ L) /\ DOMAIN data.claims = L
    BY <1>1
  <1>8. Register(data)
    BY <1>2, <1>3, <1>6, <1>7 DEF Register
  <1>9. data.spent + Sum(data.claims, L) <= data.free
    <2>1. r.spent + Sum(c, D) <= r.free /\ r.spent \in Nat /\ r.free \in Nat
      BY <1>1, BudgetConstants DEF Register, Charged
    <2> QED
      BY <1>2, <1>4, <1>5, <1>6, <1>7, <2>1
  <1>10. Sum(d, mem \ L) <= data.spent
    <2>1. /\ mem \ L = (mem \ D) \union (D \ L) /\ (mem \ D) \intersect (D \ L) = {}
          /\ mem \ D \in SUBSET Job
      BY <1>1 DEF Charged
    <2>2. Sum(d, mem \ L) = Sum(d, mem \ D) + Sum(d, D \ L)
      BY <1>3, <2>1, SumSplit
    <2>3. \A k \in D \ L : d[k] <= c[k]
      BY <1>1 DEF Charged
    <2>4. Sum(d, D \ L) <= Sum(c, D \ L)
      BY <1>1, <1>3, <2>3, SumLess
    <2>5. Sum(d, mem \ D) <= r.spent
      BY <1>1 DEF Charged
    <2>6. Sum(d, mem \ D) \in Nat /\ Sum(d, D \ L) \in Nat /\ r.spent \in Nat
      BY <1>3, <2>1, SumIsNat DEF Register
    <2> QED
      BY <1>6, <1>7, <2>2, <2>4, <2>5, <2>6
  <1> QED
    BY <1>1, <1>2, <1>7, <1>8, <1>9, <1>10 DEF Charged

\* claim.add: a claim grows by what is not claimed yet.
LEMMA ChargedClaim ==
    ASSUME NEW r, NEW d \in [Job -> Nat], NEW mem \in SUBSET Job,
           NEW j \in Job, NEW amount \in Nat, NEW before \in Nat,
           Register(r), Charged(r, d, mem), before = IF j \in DOMAIN r.claims THEN r.claims[j] ELSE 0,
           r.spent + Sum(r.claims, DOMAIN r.claims) + amount <= r.free, d[j] <= before + amount,
           NEW data,
           data = [free |-> r.free, spent |-> r.spent, claims |-> data.claims],
           data.claims \in [DOMAIN r.claims \union {j} -> Nat], data.claims[j] = before + amount,
           \A k \in DOMAIN r.claims : k # j => data.claims[k] = r.claims[k]
    PROVE  Register(data) /\ Charged(data, d, mem \union {j})
  <1>1. PICK D, c : D \in SUBSET Job /\ c \in [D -> Nat] /\ c = r.claims /\ D = DOMAIN r.claims
    BY DEF Register
  <1>2. PICK e \in [D \union {j} -> Nat] :
            /\ e = data.claims /\ e[j] = before + amount
            /\ \A k \in D : k # j => e[k] = c[k]
    BY <1>1
  <1>3. data.free = r.free /\ data.spent = r.spent /\ DOMAIN data.claims = D \union {j}
    BY <1>1
  <1>4. Register(data)
    BY <1>2, <1>3 DEF Register
  <1>5. Sum(e, D \union {j}) = Sum(c, D) + amount
    <2>1. Sum(e, (D \ {j}) \union {j}) = Sum(e, D \ {j}) + Sum(e, {j})
      BY <1>1, <1>2, SumSplit
    <2>2. Sum(e, D \ {j}) = Sum(c, D \ {j})
      BY <1>1, <1>2, SumSame
    <2>3. Sum(e, {j}) = before + amount
      BY <1>2, SumFew
    <2>4. (D \ {j}) \union {j} = D \union {j}
      OBVIOUS
    <2>5. D \ {j} \in SUBSET Job /\ Sum(c, D \ {j}) \in Nat
      <3>1. D \ {j} \in SUBSET Job /\ \A k \in D \ {j} : c[k] \in Nat
        BY <1>1
      <3> QED
        BY <3>1, SumIsNat
    <2>6. CASE j \in D
      <3>1. Sum(c, (D \ {j}) \union {j}) = Sum(c, D \ {j}) + Sum(c, {j})
        <4>1. (D \ {j}) \intersect {j} = {} /\ \A k \in (D \ {j}) \union {j} : c[k] \in Nat
          BY <1>1, <2>6
        <4> QED
          BY <2>5, <4>1, SumSplit
      <3>2. Sum(c, {j}) = c[j] /\ c[j] = before
        BY <1>1, <2>6, SumFew
      <3>3. D \union {j} = D
        BY <2>6
      <3>4. Sum(c, D) = Sum(c, D \ {j}) + before
        BY <2>4, <3>1, <3>2, <3>3
      <3>5. Sum(e, D \union {j}) = Sum(c, D \ {j}) + (before + amount)
        BY <2>1, <2>2, <2>3, <2>4
      <3> QED
        BY <2>5, <3>4, <3>5
    <2>7. CASE j \notin D
      <3>1. D \ {j} = D /\ before + amount = amount
        BY <1>1, <2>7
      <3> QED
        BY <2>1, <2>2, <2>3, <2>4, <3>1
    <2> QED
      BY <2>6, <2>7
  <1>6. data.spent + Sum(data.claims, DOMAIN data.claims) <= data.free
    BY <1>1, <1>2, <1>3, <1>5, SumIsNat DEF Register
  <1>7. Sum(d, (mem \union {j}) \ (D \union {j})) <= r.spent
    <2>1. (mem \union {j}) \ (D \union {j}) \in SUBSET (mem \ D) /\ mem \ D \in SUBSET Job
      OBVIOUS
    <2>2. Sum(d, (mem \union {j}) \ (D \union {j})) <= Sum(d, mem \ D)
      BY <2>1, SumLess
    <2>3. Sum(d, mem \ D) \in Nat /\ Sum(d, (mem \union {j}) \ (D \union {j})) \in Nat
      BY <2>1, SumIsNat
    <2> QED
      BY <1>1, <2>2, <2>3 DEF Charged, Register
  <1>8. \A k \in D \union {j} : d[k] <= e[k]
    BY <1>1, <1>2 DEF Charged
  <1>9. D \union {j} \subseteq mem \union {j}
    BY <1>1 DEF Charged
  <1> QED
    BY <1>1, <1>2, <1>3, <1>4, <1>6, <1>7, <1>8, <1>9 DEF Charged

\* close(): a claim is replaced by what its job leaves on disk.
LEMMA ChargedRetire ==
    ASSUME NEW r, NEW d \in [Job -> Nat], NEW mem \in SUBSET Job, Register(r), Charged(r, d, mem),
           NEW j \in DOMAIN r.claims, NEW x \in Nat, d[j] <= x, x <= r.claims[j], NEW data,
           data = [free |-> r.free, spent |-> r.spent + x,
                   claims |-> [k \in DOMAIN r.claims \ {j} |-> r.claims[k]]]
    PROVE  Register(data) /\ Charged(data, d, mem)
  <1>1. PICK D, c : D \in SUBSET Job /\ c \in [D -> Nat] /\ c = r.claims /\ D = DOMAIN r.claims
    BY DEF Register
  <1>2. PICK e \in [D \ {j} -> Nat] : e = data.claims /\ \A k \in D \ {j} : e[k] = c[k]
    BY <1>1
  <1>3. data.free = r.free /\ data.spent = r.spent + x /\ DOMAIN data.claims = D \ {j}
    BY <1>1
  <1>4. Register(data)
    BY <1>2, <1>3 DEF Register
  <1>5. Sum(c, D) = Sum(c, D \ {j}) + c[j] /\ Sum(c, D \ {j}) \in Nat
    <2>1. (D \ {j}) \union {j} = D
      BY <1>1
    <2>2. Sum(c, (D \ {j}) \union {j}) = Sum(c, D \ {j}) + Sum(c, {j})
      BY <1>1, SumSplit
    <2> QED
      BY <1>1, <2>1, <2>2, SumFew, SumIsNat
  <1>6. Sum(e, D \ {j}) = Sum(c, D \ {j})
    <2>1. D \ {j} \in SUBSET Job
      BY <1>1
    <2> QED
      BY <1>2, <2>1, SumSame
  <1>7. data.spent + Sum(data.claims, D \ {j}) <= data.free
    <2>1. r.spent + Sum(c, D) <= r.free /\ r.spent \in Nat /\ r.free \in Nat /\ c[j] \in Nat /\ x <= c[j]
      BY <1>1, BudgetConstants DEF Register, Charged
    <2> QED
      BY <1>2, <1>3, <1>5, <1>6, <2>1
  <1>8. Sum(d, mem \ (D \ {j})) <= r.spent + x
    <2>1. j \in mem /\ j \in D
      BY <1>1 DEF Charged
    <2>2. mem \ (D \ {j}) = (mem \ D) \union {j} /\ mem \ D \in SUBSET Job
      BY <2>1
    <2>3. Sum(d, (mem \ D) \union {j}) = Sum(d, mem \ D) + Sum(d, {j})
      BY <2>1, SumSplit
    <2>4. Sum(d, mem \ D) \in Nat /\ Sum(d, {j}) = d[j] /\ d[j] \in Nat
      BY <2>1, SumIsNat, SumFew
    <2>5. Sum(d, mem \ D) <= r.spent /\ r.spent \in Nat
      BY <1>1 DEF Charged, Register
    <2>6. Sum(d, mem \ (D \ {j})) = Sum(d, mem \ D) + d[j]
      BY <2>2, <2>3, <2>4
    <2> QED
      BY <2>4, <2>5, <2>6
  <1>9. \A k \in D \ {j} : d[k] <= e[k]
    BY <1>1, <1>2 DEF Charged
  <1>10. D \ {j} \subseteq mem
    BY <1>1 DEF Charged
  <1> QED
    BY <1>2, <1>3, <1>4, <1>7, <1>8, <1>9, <1>10 DEF Charged

\* What a job with a claim writes or removes changes no charge.
LEMMA ChargedDisk ==
    ASSUME NEW r, NEW d \in [Job -> Nat], NEW e \in [Job -> Nat], NEW mem \in SUBSET Job,
           Register(r), Charged(r, d, mem),
           \A k \in Job \ DOMAIN r.claims : e[k] = d[k],
           \A k \in DOMAIN r.claims : e[k] <= r.claims[k]
    PROVE  Charged(r, e, mem)
  <1>1. \A k \in mem \ DOMAIN r.claims : e[k] = d[k]
    OBVIOUS
  <1>2. Sum(e, mem \ DOMAIN r.claims) = Sum(d, mem \ DOMAIN r.claims)
    BY <1>1, SumSame
  <1> QED
    BY <1>2 DEF Charged

LEMMA FitsDisk ==
    ASSUME NEW r, NEW d \in [Job -> Nat], NEW e \in [Job -> Nat], NEW mem \in SUBSET Job,
           NEW others \in Nat, r.free \in Nat, NEW j \in mem,
           \A k \in Job : k # j => e[k] = d[k], Fits(r, d, mem, others)
    PROVE  Fits(r, e, mem, others)
  <1>1. Sum(e, Job) - e[j] = Sum(d, Job) - d[j]
    BY SumUpdate
  <1>2. Sum(e, mem) - e[j] = Sum(d, mem) - d[j]
    BY SumUpdate
  <1>3. /\ Sum(e, Job) \in Nat /\ Sum(d, Job) \in Nat /\ Sum(e, mem) \in Nat /\ Sum(d, mem) \in Nat
        /\ d[j] \in Nat /\ e[j] \in Nat /\ Capacity \in Nat
    BY SumIsNat, BudgetConstants
  <1> QED
    BY <1>1, <1>2, <1>3 DEF Fits

LEMMA FitsMore ==
    ASSUME NEW r, NEW d \in [Job -> Nat], NEW mem \in SUBSET Job, NEW more \in SUBSET Job,
           NEW others \in Nat, r.free \in Nat, mem \subseteq more, Fits(r, d, mem, others)
    PROVE  Fits(r, d, more, others)
  <1>1. Sum(d, mem) <= Sum(d, more)
    BY SumLess
  <1>2. Sum(d, Job) \in Nat /\ Sum(d, mem) \in Nat /\ Sum(d, more) \in Nat /\ Capacity \in Nat
    BY SumIsNat, BudgetConstants
  <1> QED
    BY <1>1, <1>2 DEF Fits

\* All that is on disk is charged; what is reserved (out) on top of it fits.
LEMMA ChargesCover ==
    ASSUME NEW r, NEW d \in [Job -> Nat], NEW out \in [Job -> Nat], NEW mem \in SUBSET Job,
           NEW others \in Nat, Register(r), Charged(r, d, mem),
           \A k \in DOMAIN r.claims : out[k] + d[k] <= r.claims[k],
           \A k \in Job \ DOMAIN r.claims : out[k] = 0
    PROVE  /\ Sum(d, mem) <= r.spent + Sum(r.claims, DOMAIN r.claims)
           /\ Fits(r, d, mem, others) => Sum(out, Job) + Sum(d, Job) + others <= Capacity
  <1>1. PICK D, c : D \in SUBSET Job /\ c \in [D -> Nat] /\ c = r.claims /\ D = DOMAIN r.claims
    BY DEF Register
  <1>2. Sum(out, D) + Sum(d, D) <= Sum(c, D)
    BY <1>1, SumPlus
  <1>3. Sum(out, Job) = Sum(out, D) + Sum(out, Job \ D)
    <2>1. D \union (Job \ D) = Job
      BY <1>1
    <2> QED
      BY <2>1, SumSplit
  <1>4. Sum(out, Job \ D) = 0
    <2>1. Blocks(out, Job \ D) = {}
      BY <1>1 DEF Blocks
    <2> QED
      BY <2>1, FS_EmptySet DEF Sum
  <1>5. Sum(d, mem) = Sum(d, D) + Sum(d, mem \ D)
    <2>1. D \union (mem \ D) = mem
      BY <1>1 DEF Charged
    <2> QED
      BY <2>1, SumSplit
  <1>6. Sum(d, mem \ D) <= r.spent /\ r.spent + Sum(c, D) <= r.free /\ r.spent \in Nat /\ r.free \in Nat
    BY <1>1, BudgetConstants DEF Charged, Register
  <1>7. /\ Sum(out, D) \in Nat /\ Sum(d, D) \in Nat /\ Sum(c, D) \in Nat /\ Sum(d, mem \ D) \in Nat
        /\ Sum(d, Job) \in Nat /\ Capacity \in Nat /\ Sum(d, mem) \in Nat
    <2>1. mem \ D \in SUBSET Job
      OBVIOUS
    <2>2. \A S \in SUBSET Job : Sum(d, S) \in Nat /\ Sum(out, S) \in Nat
      BY SumIsNat
    <2>3. Sum(c, D) \in Nat
      BY <1>1, SumIsNat
    <2> QED
      BY <1>1, <2>1, <2>2, <2>3, BudgetConstants
  <1> QED
    BY <1>1, <1>2, <1>3, <1>4, <1>5, <1>6, <1>7 DEF Fits

-----------------------------------------------------------------------------
(* Capacity: the invariant *)

Disk == [j \in Job |-> written[j] + kept[j]]
Up(j) == jobPc[j] \in {"idle", "fund", "failed"}
Out == [j \in Job |-> IF Up(j) THEN reserved[j] - written[j] ELSE 0]

BudgetTypes ==
    /\ registry = NoRegistry \/ Register(registry)
    /\ jobLease \in [Job -> BOOLEAN]
    /\ jobPc \in [Job -> {"idle", "fund", "failed", "closed", "dead"}]
    /\ sample \in [Job -> 0..Capacity \union {NoSample}]
    /\ funded \in [Job -> Nat] /\ remaining \in [Job -> Nat] /\ pending \in [Job -> Nat]
    /\ reserved \in [Job -> Nat] /\ written \in [Job -> Nat] /\ kept \in [Job -> Nat]
    /\ foreign \in 0..MaxForeign /\ members \in SUBSET Job /\ honest \in BOOLEAN

\* A job that is up spends at most what it has funded; one without funds has
\* nothing on disk, one that is gone has nothing reserved.
AccountOf(j) ==
    /\ written[j] <= reserved[j]
    /\ ~ Up(j) => written[j] = 0
    /\ Up(j) /\ funded[j] = 0 => kept[j] = 0 /\ reserved[j] = 0 /\ remaining[j] = 0
    /\ Up(j) /\ funded[j] > 0 => kept[j] + reserved[j] + remaining[j] + Headroom <= funded[j]
    /\ jobPc[j] = "fund" => sample[j] # NoSample /\ jobLease[j] = TRUE

\* A job that is up and has funds holds its lease and its claim.
ClaimOf(j) ==
    Up(j) /\ funded[j] > 0 =>
        /\ jobLease[j] = TRUE /\ registry # NoRegistry
        /\ j \in DOMAIN registry.claims /\ registry.claims[j] = funded[j]

Epoch ==
    registry # NoRegistry =>
        /\ Charged(registry, Disk, members)
        /\ honest => Fits(registry, Disk, members, foreign)

DiskHolds == Sum(Disk, Job) + foreign <= Capacity

BudgetInv ==
    /\ BudgetTypes /\ Epoch /\ DiskHolds
    /\ \A j \in Job : AccountOf(j) /\ ClaimOf(j)

LEMMA DiskIs ==
    BudgetTypes => /\ Disk \in [Job -> Nat] /\ Sum(Disk, Job) \in Nat
                   /\ Budgets!DiskFree = Capacity - Sum(Disk, Job) - foreign
  <1> SUFFICES ASSUME BudgetTypes
               PROVE  /\ Disk \in [Job -> Nat] /\ Sum(Disk, Job) \in Nat
                      /\ Budgets!DiskFree = Capacity - Sum(Disk, Job) - foreign
    OBVIOUS
  <1>1. Disk \in [Job -> Nat]
    BY DEF BudgetTypes, Disk
  <1>2. Sum(Disk, Job) \in Nat
    BY <1>1, SumIsNat
  <1>3. Budgets!DiskFree = Capacity - Budgets!Total(Disk, Job) - foreign
    BY DEF Budgets!DiskFree, Disk
  <1> QED
    BY <1>1, <1>2, <1>3, TotalIsSum

LEMMA FreeIs ==
    BudgetTypes /\ DiskHolds => Budgets!DiskFree \in 0..Capacity
  BY DiskIs, BudgetConstants DEF BudgetTypes, DiskHolds

LEMMA BudgetInit == Budgets!Init => BudgetInv
  <1> SUFFICES ASSUME Budgets!Init PROVE BudgetInv
    OBVIOUS
  <1> USE DEF Budgets!Init
  <1>1. BudgetTypes
    BY BudgetConstants DEF BudgetTypes
  <1>2. Sum(Disk, Job) = 0
    <2>1. Blocks(Disk, Job) = {}
      BY DEF Blocks, Disk
    <2> QED
      BY <2>1, FS_EmptySet DEF Sum
  <1>3. DiskHolds
    BY <1>2, BudgetConstants DEF DiskHolds
  <1>4. \A j \in Job : AccountOf(j) /\ ClaimOf(j)
    BY BudgetConstants DEF AccountOf, ClaimOf
  <1> QED
    BY <1>1, <1>3, <1>4 DEF BudgetInv, Epoch

\* A step that moves no claim and nothing on disk.
LEMMA BudgetQuiet ==
    ASSUME BudgetInv, UNCHANGED <<registry, members, honest, written, kept, foreign>>,
           BudgetTypes', \A j \in Job : AccountOf(j)' /\ ClaimOf(j)'
    PROVE  BudgetInv'
  <1>1. Disk' = Disk
    BY DEF Disk
  <1> QED
    BY <1>1 DEF BudgetInv, Epoch, DiskHolds

\* Credit at hand is reserved, with the sample as it is or taken again.
LEMMA BudgetReserve ==
    ASSUME BudgetInv, NEW j \in Job, NEW size \in Sizes \union {0, 1},
           Budgets!Reserve(j, size) \/ Budgets!Resample(j, size)
    PROVE  BudgetInv'
  <1> USE DEF Budgets!epochVars, Budgets!diskVars, BudgetInv
  <1>1. /\ UNCHANGED <<registry, members, honest, written, kept, foreign, jobLease, funded, pending>>
        /\ sample[j] # NoSample /\ size <= remaining[j] /\ jobPc[j] = "idle"
        /\ sample' = sample \/ sample' = [sample EXCEPT ![j] = Budgets!DiskFree]
        /\ \/ jobPc' = [jobPc EXCEPT ![j] = "failed"] /\ UNCHANGED <<remaining, reserved>>
           \/ /\ remaining' = [remaining EXCEPT ![j] = @ - size]
              /\ reserved' = [reserved EXCEPT ![j] = @ + size] /\ jobPc' = jobPc
    <2>1. CASE Budgets!Reserve(j, size)
      BY <2>1 DEF Budgets!Reserve, Budgets!Request
    <2>2. CASE Budgets!Resample(j, size)
      BY <2>2 DEF Budgets!Resample
    <2> QED
      BY <2>1, <2>2
  <1>2. size \in Nat
    <2>1. Sizes \subseteq Nat
      BY BudgetConstants
    <2> QED
      BY <2>1
  <1>3. BudgetTypes'
    <2>1. sample' \in [Job -> 0..Capacity \union {NoSample}]
      BY <1>1, FreeIs DEF BudgetTypes
    <2>2. /\ remaining' \in [Job -> Nat] /\ reserved' \in [Job -> Nat]
          /\ jobPc' \in [Job -> {"idle", "fund", "failed", "closed", "dead"}]
      BY <1>1, <1>2 DEF BudgetTypes
    <2> QED
      BY <1>1, <2>1, <2>2 DEF BudgetTypes
  <1>4. \A k \in Job : Up(k)' <=> Up(k)
    BY <1>1 DEF BudgetTypes, Up
  <1>5. \A k \in Job : ClaimOf(k)'
    BY <1>1, <1>4 DEF ClaimOf
  <1>6. \A k \in Job : reserved'[k] + remaining'[k] = reserved[k] + remaining[k] /\ reserved'[k] >= reserved[k]
    BY <1>1, <1>2 DEF BudgetTypes
  <1>7. \A k \in Job : jobPc'[k] = "fund" => k # j /\ jobPc[k] = "fund" /\ sample'[k] = sample[k]
    BY <1>1 DEF BudgetTypes
  <1>8. \A k \in Job : AccountOf(k)'
    <2> SUFFICES ASSUME NEW k \in Job PROVE AccountOf(k)'
      OBVIOUS
    <2>1. AccountOf(k)
      OBVIOUS
    <2>2. /\ reserved[k] \in Nat /\ remaining[k] \in Nat /\ reserved'[k] \in Nat /\ remaining'[k] \in Nat
          /\ written[k] \in Nat /\ kept[k] \in Nat /\ funded[k] \in Nat /\ Headroom \in Nat
      BY <1>3, BudgetConstants DEF BudgetTypes
    <2> QED
      <3>1. /\ written[k] <= reserved'[k]
            /\ ~ Up(k)' => written[k] = 0
            /\ jobPc'[k] = "fund" => sample'[k] # NoSample /\ jobLease'[k] = TRUE
        BY <1>1, <1>4, <1>6, <1>7, <2>1, <2>2 DEF AccountOf
      <3>2. Up(k)' /\ funded[k] = 0 => kept[k] = 0 /\ reserved'[k] = 0 /\ remaining'[k] = 0
        BY <1>4, <1>6, <2>1, <2>2 DEF AccountOf
      <3>3. Up(k)' /\ funded[k] > 0 => kept[k] + reserved'[k] + remaining'[k] + Headroom <= funded[k]
        BY <1>4, <1>6, <2>1, <2>2 DEF AccountOf
      <3> QED
        BY <1>1, <3>1, <3>2, <3>3 DEF AccountOf
  <1> QED
    BY <1>1, <1>3, <1>5, <1>8, BudgetQuiet

\* The funding is begun, or fails, or the disk is full.
LEMMA BudgetSteps ==
    ASSUME BudgetInv, NEW j \in Job,
           \/ \E size \in Sizes \union {0, 1} : Budgets!FundSample(j, size)
           \/ Budgets!FundFailed(j) \/ Budgets!DiskFull(j)
    PROVE  BudgetInv'
  <1> USE DEF Budgets!epochVars, Budgets!diskVars, Budgets!budgetVars, BudgetInv
  <1>1. PICK s \in {"fund", "failed"} :
            /\ UNCHANGED <<registry, members, honest, written, kept, foreign, funded, remaining, reserved>>
            /\ jobPc[j] \in {"idle", "fund"} /\ jobPc' = [jobPc EXCEPT ![j] = s]
            /\ sample' = sample \/ sample' = [sample EXCEPT ![j] = Budgets!DiskFree]
            /\ s = "fund" => sample'[j] # NoSample /\ jobLease'[j] = TRUE
            /\ jobLease' = jobLease \/ jobLease' = [jobLease EXCEPT ![j] = TRUE]
            /\ pending' = pending \/ \E size \in Sizes \union {0, 1} : pending' = [pending EXCEPT ![j] = size]
    <2>1. ASSUME NEW size \in Sizes \union {0, 1}, Budgets!FundSample(j, size)
          PROVE  sample'[j] # NoSample /\ jobLease'[j] = TRUE
      BY <2>1, FreeIs, BudgetConstants DEF Budgets!FundSample, BudgetTypes
    <2>2. CASE \E size \in Sizes \union {0, 1} : Budgets!FundSample(j, size)
      BY <2>1, <2>2 DEF Budgets!FundSample, Budgets!Request
    <2>3. CASE Budgets!FundFailed(j)
      BY <2>3 DEF Budgets!FundFailed
    <2>4. CASE Budgets!DiskFull(j)
      BY <2>4 DEF Budgets!DiskFull
    <2> QED
      BY <2>2, <2>3, <2>4
  <1>2. BudgetTypes'
    <2>1. sample' \in [Job -> 0..Capacity \union {NoSample}]
      BY <1>1, FreeIs DEF BudgetTypes
    <2>2. /\ pending' \in [Job -> Nat]
          /\ jobPc' \in [Job -> {"idle", "fund", "failed", "closed", "dead"}]
      BY <1>1, BudgetConstants DEF BudgetTypes
    <2>3. jobLease' \in [Job -> BOOLEAN]
      BY <1>1 DEF BudgetTypes
    <2> QED
      BY <1>1, <2>1, <2>2, <2>3 DEF BudgetTypes
  <1>3. \A k \in Job : Up(k)' <=> Up(k)
    BY <1>1 DEF BudgetTypes, Up
  <1>4. \A k \in Job : jobLease[k] = TRUE => jobLease'[k] = TRUE
    BY <1>1 DEF BudgetTypes
  <1>5. \A k \in Job : ClaimOf(k)'
    BY <1>1, <1>3, <1>4 DEF ClaimOf
  <1>6. \A k \in Job : jobPc'[k] = "fund" => sample'[k] # NoSample /\ jobLease'[k] = TRUE
    BY <1>1, <1>4 DEF BudgetTypes, AccountOf
  <1>7. \A k \in Job : AccountOf(k)'
    BY <1>1, <1>3, <1>6 DEF AccountOf
  <1> QED
    BY <1>1, <1>2, <1>5, <1>7, BudgetQuiet

\* The job with a claim writes, or its transfer ends.
LEMMA BudgetDisk ==
    ASSUME BudgetInv, NEW j \in Job, UNCHANGED <<registry, members, honest, foreign, funded>>,
           BudgetTypes', DiskHolds', \A k \in Job : AccountOf(k)' /\ ClaimOf(k)',
           \A k \in Job : k # j => Disk'[k] = Disk[k],
           Up(j), funded[j] > 0, Disk'[j] <= funded[j]
    PROVE  BudgetInv'
  <1> USE DEF BudgetInv
  <1>1. PICK d \in [Job -> Nat], e \in [Job -> Nat] : d = Disk /\ e = Disk'
    <2>1. Disk \in [Job -> Nat]
      BY DEF BudgetTypes, Disk
    <2>2. Disk' \in [Job -> Nat]
      BY DEF BudgetTypes, Disk
    <2> QED
      BY <2>1, <2>2
  <1>2. /\ registry # NoRegistry /\ Register(registry) /\ j \in DOMAIN registry.claims
        /\ registry.claims[j] = funded[j] /\ Charged(registry, d, members)
    BY <1>1 DEF BudgetTypes, ClaimOf, Epoch
  <1>3. \A k \in DOMAIN registry.claims : e[k] <= registry.claims[k]
    BY <1>1, <1>2 DEF Charged, Register
  <1>4. Charged(registry, e, members)
    <2>1. \A k \in Job \ DOMAIN registry.claims : e[k] = d[k]
      BY <1>1, <1>2
    <2>2. members \in SUBSET Job
      BY DEF BudgetTypes
    <2> QED
      BY <1>2, <1>3, <2>1, <2>2, ChargedDisk
  <1>5. honest => Fits(registry, e, members, foreign)
    <2>1. j \in members /\ members \in SUBSET Job /\ foreign \in Nat /\ registry.free \in Nat
      BY <1>2, BudgetConstants DEF Charged, BudgetTypes, Register
    <2>2. \A k \in Job : k # j => e[k] = d[k]
      BY <1>1
    <2>3. honest => Fits(registry, d, members, foreign)
      BY <1>1, <1>2 DEF Epoch
    <2> QED
      BY <2>1, <2>2, <2>3, FitsDisk
  <1> QED
    BY <1>1, <1>4, <1>5 DEF Epoch

LEMMA BudgetWrite ==
    ASSUME BudgetInv, NEW j \in Job, Budgets!Write(j)
    PROVE  BudgetInv'
  <1> USE DEF Budgets!epochVars, Budgets!diskVars, Budgets!budgetVars, BudgetInv
  <1>1. /\ UNCHANGED <<registry, members, honest, foreign, funded, jobLease, jobPc, sample, remaining,
                       pending, reserved, kept>>
        /\ jobPc[j] = "idle" /\ written[j] < reserved[j] /\ Budgets!DiskFree > 0
        /\ written' = [written EXCEPT ![j] = @ + 1]
    BY DEF Budgets!Write
  <1>2. BudgetTypes'
    BY <1>1 DEF BudgetTypes
  <1>3. \A k \in Job : Up(k)' <=> Up(k)
    BY <1>1 DEF Up
  <1>4. \A k \in Job : ClaimOf(k)'
    BY <1>1, <1>3 DEF ClaimOf
  <1>5. \A k \in Job : written'[k] = IF k = j THEN written[k] + 1 ELSE written[k]
    BY <1>1 DEF BudgetTypes
  <1>6. Up(j)
    BY <1>1 DEF Up
  <1>7. \A k \in Job : AccountOf(k)'
    <2> SUFFICES ASSUME NEW k \in Job PROVE AccountOf(k)'
      OBVIOUS
    <2>1. AccountOf(k) /\ written[k] \in Nat /\ reserved[k] \in Nat
      BY DEF BudgetTypes
    <2>2. written'[k] <= reserved[k]
      BY <1>1, <1>5, <2>1 DEF AccountOf
    <2>3. ~ Up(k) => written'[k] = 0
      BY <1>5, <1>6, <2>1 DEF AccountOf
    <2> QED
      BY <1>1, <1>3, <2>1, <2>2, <2>3 DEF AccountOf
  <1>8. funded[j] > 0 /\ kept[j] + reserved[j] <= funded[j]
    <2>1. /\ AccountOf(j) /\ written[j] \in Nat /\ reserved[j] \in Nat /\ funded[j] \in Nat
          /\ kept[j] \in Nat /\ remaining[j] \in Nat /\ Headroom \in Nat
      BY BudgetConstants DEF BudgetTypes
    <2> QED
      BY <1>1, <1>6, <2>1 DEF AccountOf
  <1>9. PICK d \in [Job -> Nat], e \in [Job -> Nat] : d = Disk /\ e = Disk'
    <2>1. Disk \in [Job -> Nat]
      BY DEF BudgetTypes, Disk
    <2>2. Disk' \in [Job -> Nat]
      BY <1>2 DEF BudgetTypes, Disk
    <2> QED
      BY <2>1, <2>2
  <1>10. e[j] = d[j] + 1 /\ (\A k \in Job : k # j => e[k] = d[k]) /\ e[j] <= funded[j]
    <2>1. \A k \in Job : d[k] = written[k] + kept[k] /\ e[k] = written'[k] + kept[k]
      BY <1>1, <1>9 DEF Disk
    <2> QED
      BY <1>1, <1>5, <1>8, <2>1 DEF BudgetTypes
  <1>11. DiskHolds'
    <2>1. Sum(e, Job) - e[j] = Sum(d, Job) - d[j]
      BY <1>10, SumUpdate
    <2>2. Sum(d, Job) \in Nat /\ Sum(e, Job) \in Nat /\ foreign \in Nat /\ Capacity \in Nat
      BY SumIsNat, BudgetConstants DEF BudgetTypes
    <2>3. Capacity - Sum(d, Job) - foreign > 0
      BY <1>1, <1>9, DiskIs
    <2>4. d[j] \in Nat
      OBVIOUS
    <2>5. Sum(e, Job) + foreign <= Capacity
      BY <1>10, <2>1, <2>2, <2>3, <2>4
    <2> QED
      BY <1>1, <1>9, <2>5 DEF DiskHolds
  <1> QED
    BY <1>1, <1>2, <1>4, <1>6, <1>7, <1>8, <1>9, <1>10, <1>11, BudgetDisk

LEMMA BudgetRelease ==
    ASSUME BudgetInv, NEW j \in Job, NEW stays \in 0..written[j], NEW retained \in 0..reserved[j],
           Budgets!Release(j, stays, retained)
    PROVE  BudgetInv'
  <1> USE DEF Budgets!epochVars, BudgetInv
  <1>1. /\ UNCHANGED <<registry, members, honest, foreign, funded, jobLease, jobPc, sample, pending>>
        /\ jobPc[j] \in {"idle", "failed"} /\ reserved[j] > 0
        /\ retained \in {stays, written[j], reserved[j]}
        /\ remaining' = [remaining EXCEPT ![j] =
                            @ + (IF reserved[j] > retained THEN reserved[j] - retained ELSE 0)]
        /\ reserved' = [reserved EXCEPT ![j] = 0]
        /\ written' = [written EXCEPT ![j] = 0]
        /\ kept' = [kept EXCEPT ![j] = @ + stays]
    BY DEF Budgets!Release
  <1>2. /\ AccountOf(j) /\ written[j] \in Nat /\ reserved[j] \in Nat /\ funded[j] \in Nat
        /\ kept[j] \in Nat /\ remaining[j] \in Nat /\ Headroom \in Nat /\ stays \in Nat
        /\ retained \in Nat /\ stays <= written[j] /\ retained <= reserved[j] /\ Up(j)
    BY <1>1, BudgetConstants DEF BudgetTypes, Up
  <1>3. stays <= retained /\ written[j] <= reserved[j]
    BY <1>1, <1>2 DEF AccountOf
  <1>4. remaining'[j] = remaining[j] + (reserved[j] - retained)
    BY <1>1, <1>2 DEF BudgetTypes
  <1>5. BudgetTypes'
    <2>1. remaining' \in [Job -> Nat]
      BY <1>1, <1>2 DEF BudgetTypes
    <2>2. reserved' \in [Job -> Nat] /\ written' \in [Job -> Nat] /\ kept' \in [Job -> Nat]
      BY <1>1, <1>2 DEF BudgetTypes
    <2> QED
      BY <1>1, <2>1, <2>2 DEF BudgetTypes
  <1>6. \A k \in Job : Up(k)' <=> Up(k)
    BY <1>1 DEF Up
  <1>7. \A k \in Job : ClaimOf(k)'
    BY <1>1, <1>6 DEF ClaimOf
  <1>8. funded[j] > 0 /\ kept[j] + reserved[j] + remaining[j] + Headroom <= funded[j]
    BY <1>1, <1>2 DEF AccountOf
  <1>9. /\ reserved'[j] = 0 /\ written'[j] = 0 /\ kept'[j] = kept[j] + stays
        /\ \A k \in Job : k # j => /\ reserved'[k] = reserved[k] /\ written'[k] = written[k]
                                   /\ kept'[k] = kept[k] /\ remaining'[k] = remaining[k]
    BY <1>1 DEF BudgetTypes
  <1>10. \A k \in Job : AccountOf(k)'
    <2>1. ASSUME NEW k \in Job, k # j PROVE AccountOf(k)'
      BY <1>1, <1>6, <1>9, <2>1 DEF AccountOf
    <2>2. kept'[j] + reserved'[j] + remaining'[j] + Headroom <= funded[j]
      BY <1>2, <1>3, <1>4, <1>8, <1>9
    <2>3. AccountOf(j)'
      BY <1>1, <1>2, <1>6, <1>8, <1>9, <2>2 DEF AccountOf
    <2> QED
      BY <2>1, <2>3
  <1>11. PICK d \in [Job -> Nat], e \in [Job -> Nat] : d = Disk /\ e = Disk'
    <2>1. Disk \in [Job -> Nat]
      BY DEF BudgetTypes, Disk
    <2>2. Disk' \in [Job -> Nat]
      BY <1>5 DEF BudgetTypes, Disk
    <2> QED
      BY <2>1, <2>2
  <1>12. e[j] <= d[j] /\ (\A k \in Job : k # j => e[k] = d[k]) /\ e[j] <= funded[j]
    <2>1. \A k \in Job : d[k] = written[k] + kept[k] /\ e[k] = written'[k] + kept'[k]
      BY <1>11 DEF Disk
    <2>2. e[j] = 0 + (kept[j] + stays) /\ d[j] = written[j] + kept[j]
      BY <1>9, <2>1
    <2>3. \A k \in Job : k # j => e[k] = d[k]
      BY <1>9, <2>1
    <2> QED
      BY <1>2, <1>3, <1>8, <2>2, <2>3
  <1>13. DiskHolds'
    <2>1. Sum(e, Job) - e[j] = Sum(d, Job) - d[j]
      BY <1>12, SumUpdate
    <2>2. Sum(d, Job) \in Nat /\ Sum(e, Job) \in Nat /\ foreign \in Nat /\ Capacity \in Nat
      BY SumIsNat, BudgetConstants DEF BudgetTypes
    <2>3. Sum(d, Job) + foreign <= Capacity
      BY <1>11 DEF DiskHolds
    <2>4. d[j] \in Nat /\ e[j] \in Nat
      OBVIOUS
    <2>5. Sum(e, Job) + foreign <= Capacity
      BY <1>12, <2>1, <2>2, <2>3, <2>4
    <2> QED
      BY <1>1, <1>11, <2>5 DEF DiskHolds
  <1> QED
    BY <1>1, <1>2, <1>5, <1>7, <1>8, <1>10, <1>11, <1>12, <1>13, BudgetDisk

LEMMA BudgetForeign ==
    ASSUME BudgetInv, Budgets!ForeignWrite
    PROVE  BudgetInv'
  <1> USE DEF Budgets!budgetVars, BudgetInv
  <1>1. /\ UNCHANGED <<registry, members, jobLease, jobPc, sample, funded, remaining, pending, reserved,
                       written, kept>>
        /\ foreign < MaxForeign /\ Budgets!DiskFree > 0 /\ foreign' = foreign + 1 /\ honest' = FALSE
    BY DEF Budgets!ForeignWrite
  <1>2. BudgetTypes'
    <2>1. foreign' \in 0..MaxForeign
      BY <1>1, BudgetConstants DEF BudgetTypes
    <2> QED
      BY <1>1, <2>1 DEF BudgetTypes
  <1>3. \A k \in Job : AccountOf(k)' /\ ClaimOf(k)'
    BY <1>1 DEF AccountOf, ClaimOf, Up
  <1>4. Disk' = Disk
    BY <1>1 DEF Disk
  <1>5. DiskHolds'
    <2>1. Sum(Disk, Job) \in Nat /\ Capacity - Sum(Disk, Job) - foreign > 0
      BY <1>1, DiskIs
    <2>2. foreign \in Nat /\ Capacity \in Nat
      BY BudgetConstants DEF BudgetTypes
    <2>3. Sum(Disk, Job) + (foreign + 1) <= Capacity
      BY <2>1, <2>2
    <2> QED
      BY <1>1, <1>4, <2>3 DEF DiskHolds
  <1> QED
    BY <1>1, <1>2, <1>3, <1>4, <1>5 DEF Epoch

\* _load: a new epoch when nobody with funds is left, or the registry without
\* the claims whose jobs are gone.
LEMMA LoadIs ==
    ASSUME BudgetInv, NEW j \in Job, NEW free
    PROVE  \/ /\ \A k \in Job : Up(k) /\ k # j => funded[k] = 0
              /\ Budgets!Load(j, free) = [free |-> free, spent |-> 0, claims |-> [k \in {} |-> 0]]
              /\ Up(j) => funded[j] = 0
           \/ /\ registry # NoRegistry
              /\ Register(Budgets!Load(j, free)) /\ Charged(Budgets!Load(j, free), Disk, members)
              /\ Budgets!Load(j, free).free = registry.free
              /\ DOMAIN Budgets!Load(j, free).claims # {}
              /\ \A k \in Job : Up(k) /\ funded[k] > 0 =>
                    /\ k \in DOMAIN Budgets!Load(j, free).claims
                    /\ Budgets!Load(j, free).claims[k] = funded[k]
  <1> USE DEF BudgetInv
  <1>1. CASE registry = NoRegistry
    <2>1. Budgets!Load(j, free) = [free |-> free, spent |-> 0, claims |-> [k \in {} |-> 0]]
      <3>1. {k \in DOMAIN [i \in {} |-> 0] : k = j \/ jobLease[k]} = {}
        OBVIOUS
      <3> QED
        BY <1>1, <3>1 DEF Budgets!Load, Budgets!Fresh
    <2> QED
      BY <1>1, <2>1 DEF ClaimOf, BudgetTypes
  <1>2. CASE registry # NoRegistry
    <2> DEFINE L == {k \in DOMAIN registry.claims : k = j \/ jobLease[k]}
    <2>1. Register(registry) /\ Charged(registry, Disk, members)
      BY <1>2 DEF BudgetTypes, Epoch
    <2>2. L \in SUBSET DOMAIN registry.claims
      OBVIOUS
    <2>3. \A k \in Job : Up(k) /\ funded[k] > 0 => k \in L /\ registry.claims[k] = funded[k]
      <3> SUFFICES ASSUME NEW k \in Job, Up(k), funded[k] > 0
                   PROVE  k \in L /\ registry.claims[k] = funded[k]
        OBVIOUS
      <3>1. jobLease[k] = TRUE /\ k \in DOMAIN registry.claims /\ registry.claims[k] = funded[k]
        BY DEF ClaimOf
      <3>2. jobLease[k]
        BY <3>1
      <3> QED
        BY <3>1, <3>2
    <2>4. CASE L = {}
      <3>1. Budgets!Load(j, free) = [free |-> free, spent |-> 0, claims |-> [k \in {} |-> 0]]
        BY <1>2, <2>4 DEF Budgets!Load, Budgets!Fresh
      <3>2. \A k \in Job : Up(k) => funded[k] = 0
        BY <2>3, <2>4 DEF BudgetTypes
      <3> QED
        BY <3>1, <3>2
    <2>5. CASE L # {}
      <3> DEFINE dropped == Sum(registry.claims, DOMAIN registry.claims \ L)
                 kept1 == [k \in L |-> registry.claims[k]]
      <3>1. Budgets!Load(j, free) =
                [registry EXCEPT !.spent = @ + dropped, !.claims = Budgets!Restricted(@, L)]
        BY <1>2, <2>5, TotalIsSum DEF Budgets!Load
      <3>2. Budgets!Restricted(registry.claims, L) = kept1
        BY DEF Budgets!Restricted
      <3>3. Budgets!Load(j, free) = [free |-> registry.free, spent |-> registry.spent + dropped, claims |-> kept1]
        <4>1. registry = [free |-> registry.free, spent |-> registry.spent, claims |-> registry.claims]
          BY <2>1 DEF Register
        <4> HIDE DEF L, dropped, kept1
        <4> QED
          BY <3>1, <3>2, <4>1
      <3>4. Register(Budgets!Load(j, free)) /\ Charged(Budgets!Load(j, free), Disk, members)
        <4>1. Disk \in [Job -> Nat] /\ members \in SUBSET Job
          BY DEF BudgetTypes, Disk
        <4> HIDE DEF L
        <4> QED
          BY <2>1, <2>2, <3>3, <4>1, ChargedLoad
      <3>5. \A k \in Job : Up(k) /\ funded[k] > 0 => k \in L /\ kept1[k] = funded[k]
        BY <2>3
      <3>6. /\ Budgets!Load(j, free).free = registry.free
            /\ Budgets!Load(j, free).claims = kept1 /\ DOMAIN kept1 = L
        BY <3>3
      <3> HIDE DEF L, kept1
      <3> QED
        BY <1>2, <2>5, <3>4, <3>5, <3>6
    <2> QED
      BY <2>4, <2>5
  <1> QED
    BY <1>1, <1>2

\* A job is gone: its lease and its funds, what it wrote stays.
LEMMA BudgetGone ==
    ASSUME BudgetInv, NEW j \in Job, Budgets!Gone(j), UNCHANGED <<members, honest, foreign>>,
           jobPc' \in {[jobPc EXCEPT ![j] = "closed"], [jobPc EXCEPT ![j] = "dead"]},
           \/ registry' = registry
           \/ /\ registry # NoRegistry /\ Register(registry') /\ Charged(registry', Disk, members)
              /\ registry'.free = registry.free
              /\ \A k \in Job : k # j /\ Up(k) /\ funded[k] > 0 =>
                    k \in DOMAIN registry'.claims /\ registry'.claims[k] = funded[k]
    PROVE  BudgetInv'
  <1> USE DEF BudgetInv, Budgets!Gone
  <1>1. BudgetTypes'
    <2>1. kept' \in [Job -> Nat] /\ written' \in [Job -> Nat] /\ reserved' \in [Job -> Nat]
      BY DEF BudgetTypes
    <2>2. funded' \in [Job -> Nat] /\ remaining' \in [Job -> Nat] /\ pending' \in [Job -> Nat]
      BY DEF BudgetTypes
    <2>3. /\ sample' \in [Job -> 0..Capacity \union {NoSample}]
          /\ jobPc' \in [Job -> {"idle", "fund", "failed", "closed", "dead"}]
      BY DEF BudgetTypes
    <2>4. jobLease' \in [Job -> BOOLEAN]
      BY DEF BudgetTypes
    <2>5. registry' = NoRegistry \/ Register(registry')
      <3>1. CASE registry' = registry
        BY <3>1 DEF BudgetTypes, Register
      <3> QED
        BY <3>1
    <2> QED
      BY <2>1, <2>2, <2>3, <2>4, <2>5 DEF BudgetTypes, Register
  <1>2. Disk' = Disk
    <2>1. \A k \in Job : Disk'[k] = Disk[k]
      <3>1. \A k \in Job : written'[k] + kept'[k] = written[k] + kept[k]
        BY DEF BudgetTypes
      <3> QED
        BY <3>1 DEF Disk
    <2> QED
      BY <2>1 DEF Disk
  <1>3. ~ Up(j)' /\ written'[j] = 0 /\ jobPc'[j] # "fund" /\ reserved'[j] = 0
    BY DEF Up, BudgetTypes
  <1>4. \A k \in Job : k # j => /\ Up(k)' <=> Up(k)
                                /\ jobLease'[k] = jobLease[k] /\ written'[k] = written[k]
                                /\ kept'[k] = kept[k] /\ reserved'[k] = reserved[k]
                                /\ remaining'[k] = remaining[k] /\ funded'[k] = funded[k]
                                /\ sample'[k] = sample[k] /\ jobPc'[k] = jobPc[k]
    BY DEF Up, BudgetTypes
  <1>5. \A k \in Job : AccountOf(k)'
    <2>1. AccountOf(j)'
      BY <1>3 DEF AccountOf
    <2>2. \A k \in Job : k # j => AccountOf(k)'
      BY <1>4 DEF AccountOf
    <2> QED
      BY <2>1, <2>2
  <1>6. \A k \in Job : ClaimOf(k)'
    <2>1. ClaimOf(j)'
      BY <1>3 DEF ClaimOf
    <2>2. ASSUME NEW k \in Job, k # j, Up(k)', funded'[k] > 0 
          PROVE  /\ jobLease'[k] = TRUE /\ registry' # NoRegistry
                 /\ k \in DOMAIN registry'.claims /\ registry'.claims[k] = funded'[k]
      <3>1. Up(k) /\ funded[k] > 0 /\ funded'[k] = funded[k] /\ jobLease'[k] = jobLease[k] /\ ClaimOf(k)
        BY <1>4, <2>2
      <3> QED
        BY <2>2, <3>1, RegisterIsThere DEF ClaimOf
    <2> QED
      BY <2>1, <2>2 DEF ClaimOf
  <1>7. Epoch'
    <2>1. CASE registry' = registry
      BY <1>2, <2>1 DEF Epoch
    <2>2. CASE /\ registry # NoRegistry /\ Register(registry') /\ Charged(registry', Disk, members)
               /\ registry'.free = registry.free
      BY <1>2, <2>2 DEF Epoch, Fits
    <2> QED
      BY <2>1, <2>2
  <1> QED
    BY <1>1, <1>2, <1>5, <1>6, <1>7 DEF DiskHolds

LEMMA BudgetCrash ==
    ASSUME BudgetInv, NEW j \in Job, Budgets!Crash(j)
    PROVE  BudgetInv'
  BY BudgetGone DEF Budgets!Crash, Budgets!epochVars

LEMMA BudgetClose ==
    ASSUME BudgetInv, NEW j \in Job, Budgets!Close(j)
    PROVE  BudgetInv'
  <1> USE DEF BudgetInv
  <1>1. PICK data : data = Budgets!Load(j, 0)
    OBVIOUS
  <1> DEFINE x == Budgets!Retained(j)
  <1>2. /\ jobPc[j] \in {"idle", "failed"} /\ reserved[j] = 0 /\ Budgets!Gone(j)
        /\ jobPc' = [jobPc EXCEPT ![j] = "closed"] /\ UNCHANGED <<members, honest, foreign>>
        /\ \/ registry' = registry
           \/ /\ funded[j] > 0 /\ j \in DOMAIN data.claims
              /\ registry' = [data EXCEPT !.spent = @ + x, !.claims = Budgets!Restricted(@, DOMAIN @ \ {j})]
    BY <1>1 DEF Budgets!Close
  <1>3. ASSUME funded[j] > 0, j \in DOMAIN data.claims,
               registry' = [data EXCEPT !.spent = @ + x, !.claims = Budgets!Restricted(@, DOMAIN @ \ {j})]
        PROVE  /\ registry # NoRegistry /\ Register(registry') /\ Charged(registry', Disk, members)
               /\ registry'.free = registry.free
               /\ \A k \in Job : k # j /\ Up(k) /\ funded[k] > 0 =>
                     k \in DOMAIN registry'.claims /\ registry'.claims[k] = funded[k]
    <2>1. Up(j)
      BY <1>2 DEF Up
    <2>2. /\ registry # NoRegistry /\ Register(data) /\ Charged(data, Disk, members)
          /\ data.free = registry.free
          /\ \A k \in Job : Up(k) /\ funded[k] > 0 => k \in DOMAIN data.claims /\ data.claims[k] = funded[k]
      BY <1>1, <1>3, <2>1, LoadIs
    <2>3. /\ AccountOf(j) /\ funded[j] \in Nat /\ kept[j] \in Nat /\ remaining[j] \in Nat
          /\ written[j] \in Nat /\ Headroom \in Nat
      BY BudgetConstants DEF BudgetTypes
    <2>4. kept[j] + remaining[j] + Headroom <= funded[j] /\ written[j] = 0
      BY <1>2, <1>3, <2>1, <2>3 DEF AccountOf
    <2>5. x \in Nat /\ kept[j] <= x /\ x <= funded[j]
      BY <2>3, <2>4 DEF Budgets!Retained
    <2>6. Disk \in [Job -> Nat] /\ Disk[j] <= x /\ members \in SUBSET Job
      BY <2>3, <2>4, <2>5 DEF Disk, BudgetTypes
    <2> HIDE DEF x
    <2>7. registry' = [free |-> data.free, spent |-> data.spent + x,
                       claims |-> [k \in DOMAIN data.claims \ {j} |-> data.claims[k]]]
      <3>1. data = [free |-> data.free, spent |-> data.spent, claims |-> data.claims]
        BY <2>2 DEF Register
      <3> QED
        BY <1>3, <3>1 DEF Budgets!Restricted
    <2>8. x <= data.claims[j]
      BY <1>3, <2>1, <2>2, <2>5
    <2>9. PICK r : r = registry'
      OBVIOUS
    <2>10. Register(r) /\ Charged(r, Disk, members)
      <3>1. r = [free |-> data.free, spent |-> data.spent + x,
                 claims |-> [k \in DOMAIN data.claims \ {j} |-> data.claims[k]]]
        BY <2>7, <2>9
      <3>2. PICK d \in [Job -> Nat] : d = Disk
        BY <2>6
      <3>3. Charged(data, d, members) /\ d[j] <= x
        BY <2>2, <2>6, <3>2
      <3>4. j \in DOMAIN data.claims
        BY <1>3
      <3>5. Register(r) /\ Charged(r, d, members)
        BY <2>2, <2>5, <2>6, <2>8, <3>1, <3>3, <3>4, ChargedRetire
      <3> QED
        BY <3>2, <3>5
    <2>11. r.free = data.free /\ \A k \in DOMAIN data.claims : k # j =>
                k \in DOMAIN r.claims /\ r.claims[k] = data.claims[k]
      BY <2>7, <2>9
    <2> QED
      BY <2>2, <2>9, <2>10, <2>11
  <1> QED
    BY <1>2, <1>3, BudgetGone

\* claim.add under the lock of the registry, then the credit.
LEMMA BudgetClaim ==
    ASSUME BudgetInv, NEW j \in Job, Budgets!FundClaim(j)
    PROVE  BudgetInv'
  <1> USE DEF BudgetInv
  <1> DEFINE load == Budgets!Load(j, sample[j])
             first == funded[j] = 0
             missing == IF pending[j] > remaining[j] THEN pending[j] - remaining[j] ELSE 0
             minimum == missing + (IF first THEN Headroom ELSE 0)
             window == IF 0 < Hint[j] /\ Hint[j] <= sample[j] THEN Hint[j] ELSE Window
             wish == IF first THEN window + Headroom ELSE Window
             preferred == IF wish > minimum THEN wish ELSE minimum
             available == Budgets!Available(load, sample[j])
             granted == IF preferred < available THEN preferred ELSE available
             had == IF j \in DOMAIN load.claims THEN load.claims[j] ELSE 0
             newEpoch == DOMAIN load.claims = {}
  <1>1. /\ jobPc[j] = "fund" /\ had = funded[j] /\ available >= minimum
        /\ registry' = [load EXCEPT !.claims = [k \in DOMAIN @ \union {j} |->
                            IF k = j THEN had + granted ELSE @[k]]]
        /\ members' = IF newEpoch THEN {j} ELSE members \union {j}
        /\ honest' = IF newEpoch THEN load.free <= Budgets!DiskFree ELSE honest
        /\ funded' = [funded EXCEPT ![j] = @ + granted]
        /\ remaining' = [remaining EXCEPT ![j] =
                            @ + granted - (IF first THEN Headroom ELSE 0) - pending[j]]
        /\ reserved' = [reserved EXCEPT ![j] = @ + pending[j]]
        /\ pending' = [pending EXCEPT ![j] = 0]
        /\ jobPc' = [jobPc EXCEPT ![j] = "idle"]
        /\ UNCHANGED <<jobLease, sample, written, kept, foreign>>
    BY DEF Budgets!FundClaim, Budgets!diskVars
  <1>2. /\ AccountOf(j) /\ Up(j) /\ sample[j] \in 0..Capacity /\ sample[j] \in Nat /\ Capacity \in Nat
        /\ funded[j] \in Nat /\ remaining[j] \in Nat /\ pending[j] \in Nat /\ reserved[j] \in Nat
        /\ written[j] \in Nat /\ kept[j] \in Nat
        /\ Headroom \in Nat \ {0} /\ Window \in Nat /\ Hint[j] \in Nat
    <2>1. AccountOf(j) /\ Up(j) /\ sample[j] # NoSample
      BY <1>1 DEF AccountOf, Up
    <2>2. sample[j] \in 0..Capacity \union {NoSample}
      BY DEF BudgetTypes
    <2>3. Capacity \in Nat /\ Headroom \in Nat \ {0} /\ Window \in Nat /\ Hint[j] \in Nat
      BY BudgetConstants
    <2>4. /\ funded[j] \in Nat /\ remaining[j] \in Nat /\ pending[j] \in Nat /\ reserved[j] \in Nat
          /\ written[j] \in Nat /\ kept[j] \in Nat
      BY DEF BudgetTypes
    <2> QED
      BY <2>1, <2>2, <2>3, <2>4
  \* The registry that is loaded, and the members that it is about.
  <1>3. PICK data, mem :
            /\ data = load /\ mem = (IF newEpoch THEN {} ELSE members)
            /\ Register(data) /\ Charged(data, Disk, mem) /\ mem \in SUBSET Job
            /\ ~ newEpoch => registry # NoRegistry /\ data.free = registry.free
            /\ \A k \in Job : Up(k) /\ funded[k] > 0 /\ k # j =>
                  k \in DOMAIN data.claims /\ data.claims[k] = funded[k]
    <2>1. CASE /\ \A k \in Job : Up(k) /\ k # j => funded[k] = 0
               /\ load = [free |-> sample[j], spent |-> 0, claims |-> [k \in {} |-> 0]]
      <3>1. load.free = sample[j] /\ load.spent = 0 /\ load.claims = [k \in {} |-> 0] /\ DOMAIN load.claims = {}
        BY <2>1
      <3>2. Register(load)
        BY <1>2, <2>1, <3>1 DEF Register
      <3>3. Charged(load, Disk, {})
        <4>1. Sum(load.claims, {}) = 0 /\ Sum(Disk, {}) = 0
          BY SumFew
        <4>2. {} \ {} = {} /\ 0 + 0 = 0
          OBVIOUS
        <4> QED
          BY <1>2, <3>1, <4>1, <4>2 DEF Charged
      <3> HIDE DEF load
      <3> QED
        <4>1. \A k \in Job : Up(k) /\ funded[k] > 0 => k = j
          BY <2>1
        <4>2. newEpoch
          BY <3>1
        <4> HIDE DEF newEpoch
        <4> QED
          BY <3>2, <3>3, <4>1, <4>2
    <2>2. CASE /\ registry # NoRegistry /\ Register(load) /\ Charged(load, Disk, members)
               /\ load.free = registry.free /\ DOMAIN load.claims # {}
               /\ \A k \in Job : Up(k) /\ funded[k] > 0 =>
                     k \in DOMAIN load.claims /\ load.claims[k] = funded[k]
      <3> HIDE DEF load
      <3> QED
        BY <2>2 DEF BudgetTypes
    <2> QED
      BY <2>1, <2>2, LoadIs
  <1>4. PICK room \in Nat : room = data.free - (data.spent + Budgets!Claimed(data))
    <2>1. Budgets!Claimed(data) = Sum(data.claims, DOMAIN data.claims)
      BY TotalIsSum DEF Budgets!Claimed
    <2>2. Sum(data.claims, DOMAIN data.claims) \in Nat
      BY <1>3, SumIsNat DEF Register
    <2>3. data.spent + Sum(data.claims, DOMAIN data.claims) <= data.free /\ data.spent \in Nat /\ data.free \in Nat
      BY <1>2, <1>3 DEF Register, Charged
    <2> QED
      BY <2>1, <2>2, <2>3
  <1>5. available \in Nat /\ available <= room
    <2>1. Budgets!Claimed(data) = Sum(data.claims, DOMAIN data.claims)
      BY TotalIsSum DEF Budgets!Claimed
    <2>2. Sum(data.claims, DOMAIN data.claims) \in Nat
      BY <1>3, SumIsNat DEF Register
    <2>3. data.spent \in Nat /\ data.free \in Nat
      BY <1>2, <1>3 DEF Register
    <2>4. available = Budgets!Available(data, sample[j])
      BY <1>3
    <2> HIDE DEF available
    <2> QED
      BY <1>2, <1>4, <2>1, <2>2, <2>3, <2>4 DEF Budgets!Available
  <1>6. missing \in Nat /\ pending[j] <= remaining[j] + missing
    BY <1>2
  <1>7. minimum = missing + (IF first THEN Headroom ELSE 0)
    OBVIOUS
  <1>8. wish \in Nat
    BY <1>2
  <1> HIDE DEF available, missing, wish
  <1>9. granted \in Nat /\ granted >= minimum /\ granted <= room
    BY <1>1, <1>2, <1>5, <1>6, <1>8
  <1>10. PICK before \in Nat, amount \in Nat :
             /\ before = funded[j] /\ amount = granted /\ amount >= minimum /\ amount <= room
             /\ before = IF j \in DOMAIN data.claims THEN data.claims[j] ELSE 0
    BY <1>1, <1>2, <1>3, <1>9
  <1> HIDE DEF granted
  <1>11. /\ before = 0 => amount >= missing + Headroom /\ remaining'[j] = remaining[j] + amount - Headroom - pending[j]
         /\ before # 0 => amount >= missing /\ remaining'[j] = remaining[j] + amount - pending[j]
    <2>1. remaining'[j] = remaining[j] + granted - (IF first THEN Headroom ELSE 0) - pending[j]
      BY <1>1 DEF BudgetTypes
    <2> QED
      <3>1. CASE first
        <4>1. minimum = missing + Headroom /\ before = 0
          BY <1>10, <3>1
        <4> QED
          BY <1>10, <2>1, <3>1, <4>1
      <3>2. CASE ~ first
        <4>1. minimum = missing + 0 /\ before # 0
          BY <1>10, <3>2
        <4>2. remaining'[j] = remaining[j] + amount - 0 - pending[j]
          BY <1>10, <2>1, <3>2
        <4> QED
          BY <1>2, <1>6, <1>10, <4>1, <4>2
      <3> QED
        BY <3>1, <3>2
  <1>12. remaining'[j] \in Nat
    BY <1>2, <1>6, <1>10, <1>11
  <1>13. registry' = [free |-> data.free, spent |-> data.spent,
                      claims |-> [k \in DOMAIN data.claims \union {j} |->
                                     IF k = j THEN before + amount ELSE data.claims[k]]]
    <2>1. data = [free |-> data.free, spent |-> data.spent, claims |-> data.claims]
      BY <1>3 DEF Register
    <2>2. had = before /\ load = data
      BY <1>1, <1>3, <1>10
    <2>3. registry' = [data EXCEPT !.claims = [k \in DOMAIN @ \union {j} |->
                            IF k = j THEN before + amount ELSE @[k]]]
      <3> HIDE DEF load, had
      <3> QED
        BY <1>1, <1>10, <2>2
    <2> QED
      BY <2>1, <2>3
  <1>14. PICK d \in [Job -> Nat] : d = Disk /\ d[j] = written[j] + kept[j]
    <2>1. Disk \in [Job -> Nat]
      BY DEF BudgetTypes, Disk
    <2> QED
      BY <2>1 DEF Disk
  <1>15. Disk' = d
    BY <1>1, <1>14 DEF Disk
  <1>16. d[j] <= before + amount
    BY <1>2, <1>10, <1>14 DEF AccountOf
  <1>17. PICK r : r = registry'
    OBVIOUS
  <1>18. Register(r) /\ Charged(r, d, mem \union {j})
    <2>1. data.spent + Sum(data.claims, DOMAIN data.claims) + amount <= data.free
      <3>1. Budgets!Claimed(data) = Sum(data.claims, DOMAIN data.claims)
        BY TotalIsSum DEF Budgets!Claimed
      <3>2. Sum(data.claims, DOMAIN data.claims) \in Nat
        BY <1>3, SumIsNat DEF Register
      <3>3. data.spent \in Nat /\ data.free \in Nat
        BY <1>2, <1>3 DEF Register
      <3> QED
        BY <1>4, <1>10, <3>1, <3>2, <3>3
    <2>2. /\ r = [free |-> data.free, spent |-> data.spent, claims |-> r.claims]
          /\ r.claims \in [DOMAIN data.claims \union {j} -> Nat] /\ r.claims[j] = before + amount
          /\ \A k \in DOMAIN data.claims : k # j => r.claims[k] = data.claims[k]
      BY <1>3, <1>10, <1>13, <1>17 DEF Register
    <2>3. Register(data) /\ Charged(data, d, mem) /\ mem \in SUBSET Job
      BY <1>3, <1>14
    <2>4. before = IF j \in DOMAIN data.claims THEN data.claims[j] ELSE 0
      BY <1>10
    <2> QED
      <3>1. j \in Job /\ amount \in Nat /\ before \in Nat /\ d \in [Job -> Nat]
        BY <1>10, <1>14
      <3> HIDE DEF BudgetInv
      <3> QED
        BY <1>16, <2>1, <2>2, <2>3, <2>4, <3>1, ChargedClaim
  <1>19. members' = mem \union {j} /\ members' \in SUBSET Job
    <2>1. newEpoch => mem = {}
      BY <1>3
    <2>2. ~ newEpoch => mem = members
      BY <1>3
    <2> HIDE DEF newEpoch
    <2> QED
      BY <1>1, <1>3, <2>1, <2>2
  <1>20. honest' \in BOOLEAN
    <2>1. honest \in BOOLEAN
      BY DEF BudgetTypes
    <2>2. CASE newEpoch
      <3>1. honest' = (load.free <= Budgets!DiskFree)
        BY <1>1, <2>2
      <3> HIDE DEF load
      <3> QED
        BY <3>1
    <2>3. CASE ~ newEpoch
      <3>1. honest' = honest
        BY <1>1, <2>3
      <3> QED
        BY <2>1, <3>1
    <2> QED
      BY <2>2, <2>3
  <1>21. honest' => Fits(r, d, members', foreign)
    <2>1. foreign \in Nat /\ r.free = data.free /\ data.free \in Nat
      BY <1>2, <1>3, <1>13, <1>17, BudgetConstants DEF BudgetTypes, Register
    <2>2. Sum(d, Job) \in Nat /\ Sum(d, members') \in Nat
      BY <1>19, SumIsNat
    <2>3. CASE newEpoch
      <3>1. honest' => data.free <= Budgets!DiskFree
        BY <1>1, <1>3, <2>3
      <3>2. Budgets!DiskFree = Capacity - Sum(d, Job) - foreign
        BY <1>14, DiskIs
      <3> QED
        BY <1>2, <2>1, <2>2, <3>1, <3>2 DEF Fits
    <2>4. CASE ~ newEpoch
      <3>1. honest' = honest /\ registry # NoRegistry /\ data.free = registry.free /\ mem = members
        BY <1>1, <1>3, <2>4
      <3>2. honest' => Fits(data, d, mem, foreign)
        BY <1>14, <3>1 DEF Epoch, Fits
      <3>3. Fits(data, d, mem, foreign) => Fits(data, d, members', foreign)
        BY <1>3, <1>19, <2>1, FitsMore
      <3> QED
        BY <2>1, <3>2, <3>3 DEF Fits
    <2> QED
      BY <2>3, <2>4
  <1>22. BudgetTypes'
    <2>1. registry' = NoRegistry \/ Register(registry')
      BY <1>17, <1>18
    <2>2. funded' \in [Job -> Nat]
      BY <1>1, <1>2, <1>10 DEF BudgetTypes
    <2>3. remaining' \in [Job -> Nat]
      <3>1. \A k \in Job : k # j => remaining'[k] = remaining[k]
        BY <1>1 DEF BudgetTypes
      <3>2. \A k \in Job : remaining'[k] \in Nat
        BY <1>12, <3>1 DEF BudgetTypes
      <3>3. remaining' = [k \in Job |-> remaining'[k]]
        BY <1>1 DEF BudgetTypes
      <3> QED
        BY <3>2, <3>3
    <2>4. reserved' \in [Job -> Nat] /\ pending' \in [Job -> Nat]
      BY <1>1, <1>2 DEF BudgetTypes
    <2>5. jobPc' \in [Job -> {"idle", "fund", "failed", "closed", "dead"}]
      BY <1>1 DEF BudgetTypes
    <2> QED
      BY <1>1, <1>19, <1>20, <2>1, <2>2, <2>3, <2>4, <2>5 DEF BudgetTypes, Register
  <1>23. \A k \in Job : k # j =>
            /\ funded'[k] = funded[k] /\ remaining'[k] = remaining[k] /\ reserved'[k] = reserved[k]
            /\ jobPc'[k] = jobPc[k]
    BY <1>1 DEF BudgetTypes
  <1>24. funded'[j] = before + amount /\ reserved'[j] = reserved[j] + pending[j] /\ jobPc'[j] = "idle"
    BY <1>1, <1>10 DEF BudgetTypes
  <1>25. \A k \in Job : AccountOf(k)'
    <2>1. \A k \in Job : k # j => AccountOf(k)'
      BY <1>1, <1>23 DEF AccountOf, Up
    <2>2. kept[j] + reserved'[j] + remaining'[j] + Headroom <= before + amount
      <3>1. CASE before = 0
        BY <1>2, <1>10, <1>11, <1>24, <3>1 DEF AccountOf
      <3>2. CASE before # 0
        BY <1>2, <1>10, <1>11, <1>24, <3>2 DEF AccountOf
      <3> QED
        BY <3>1, <3>2
    <2>3. before + amount > 0 /\ Up(j)'
      BY <1>2, <1>10, <1>11, <1>6, <1>24 DEF Up
    <2>4. AccountOf(j)'
      BY <1>1, <1>2, <1>24, <2>2, <2>3 DEF AccountOf
    <2> QED
      BY <2>1, <2>4
  <1>26. \A k \in Job : ClaimOf(k)'
    <2>1. /\ DOMAIN r.claims = DOMAIN data.claims \union {j} /\ r.claims[j] = before + amount
          /\ \A k \in DOMAIN data.claims : k # j => r.claims[k] = data.claims[k]
      BY <1>13, <1>17
    <2>2. r # NoRegistry
      BY <1>18, RegisterIsThere
    <2>3. jobLease'[j] = TRUE
      BY <1>1, <1>2 DEF AccountOf
    <2>4. ClaimOf(j)'
      BY <1>17, <1>24, <2>1, <2>2, <2>3 DEF ClaimOf
    <2>5. ASSUME NEW k \in Job, k # j PROVE ClaimOf(k)'
      <3>1. Up(k)' <=> Up(k)
        BY <1>23, <2>5 DEF Up
      <3>2. Up(k) /\ funded[k] > 0 => k \in DOMAIN data.claims /\ data.claims[k] = funded[k]
        BY <1>3, <2>5
      <3> QED
        BY <1>1, <1>17, <1>23, <2>1, <2>2, <2>5, <3>1, <3>2 DEF ClaimOf
    <2> QED
      BY <2>4, <2>5
  <1>27. Epoch'
    BY <1>1, <1>15, <1>17, <1>18, <1>19, <1>21 DEF Epoch
  <1>28. DiskHolds'
    BY <1>1, <1>14, <1>15 DEF DiskHolds
  <1> QED
    BY <1>22, <1>25, <1>26, <1>27, <1>28

\* Every step of the jobs keeps the accounts.
LEMMA BudgetStep == BudgetInv /\ Budgets!Next => BudgetInv'
  <1> SUFFICES ASSUME BudgetInv, Budgets!Next PROVE BudgetInv'
    OBVIOUS
  <1>1. ASSUME NEW j \in Job, Budgets!JobStep(j) PROVE BudgetInv'
    BY <1>1, BudgetReserve, BudgetSteps, BudgetClaim, BudgetWrite, BudgetRelease, BudgetClose, BudgetCrash
    DEF Budgets!JobStep
  <1> QED
    BY <1>1, BudgetForeign DEF Budgets!Next

\* The invariant of the budgets in the words of their module.
LEMMA BudgetImplies ==
    BudgetInv => /\ Budgets!TypeOK /\ Budgets!LiveClaimKept /\ Budgets!WrittenIsCharged
                 /\ Budgets!EpochWithinSample /\ Budgets!HonestEpochFits
  <1> SUFFICES ASSUME BudgetInv
               PROVE  /\ Budgets!TypeOK /\ Budgets!LiveClaimKept /\ Budgets!WrittenIsCharged
                      /\ Budgets!EpochWithinSample /\ Budgets!HonestEpochFits
    OBVIOUS
  <1> USE DEF BudgetInv
  <1>1. PICK d \in [Job -> Nat], out \in [Job -> Nat] : d = Disk /\ out = Out
    <2>1. Disk \in [Job -> Nat]
      BY DEF BudgetTypes, Disk
    <2>2. \A j \in Job : Up(j) => reserved[j] - written[j] \in Nat
      BY DEF BudgetTypes, AccountOf
    <2>3. Out \in [Job -> Nat]
      BY <2>2 DEF Out
    <2> QED
      BY <2>1, <2>3
  <1>2. Budgets!Outstanding = Sum(out, Job)
    <2>1. Budgets!Outstanding = Budgets!Total(out, Job)
      BY <1>1 DEF Budgets!Outstanding, Budgets!Alive, Out, Up
    <2> QED
      BY <2>1, TotalIsSum
  <1>3. foreign \in Nat /\ members \in SUBSET Job /\ Capacity \in Nat
    BY BudgetConstants DEF BudgetTypes
  <1>4. registry # NoRegistry => Register(registry) /\ Charged(registry, d, members)
    BY <1>1 DEF BudgetTypes, Epoch
  <1>5. \A j \in Job : out[j] > 0 => Up(j) /\ funded[j] > 0 /\ out[j] + d[j] <= funded[j]
    <2> SUFFICES ASSUME NEW j \in Job, out[j] > 0
                 PROVE  Up(j) /\ funded[j] > 0 /\ out[j] + d[j] <= funded[j]
      OBVIOUS
    <2>1. /\ AccountOf(j) /\ written[j] \in Nat /\ reserved[j] \in Nat /\ funded[j] \in Nat
          /\ kept[j] \in Nat /\ remaining[j] \in Nat /\ Headroom \in Nat
      BY BudgetConstants DEF BudgetTypes
    <2>2. Up(j) /\ out[j] = reserved[j] - written[j] /\ d[j] = written[j] + kept[j]
      BY <1>1 DEF Out, Disk
    <2> QED
      BY <2>1, <2>2 DEF AccountOf
  <1>6. registry # NoRegistry =>
            /\ \A j \in DOMAIN registry.claims : out[j] + d[j] <= registry.claims[j]
            /\ \A j \in Job \ DOMAIN registry.claims : out[j] = 0
    <2> SUFFICES ASSUME registry # NoRegistry
                 PROVE  /\ \A j \in DOMAIN registry.claims : out[j] + d[j] <= registry.claims[j]
                        /\ \A j \in Job \ DOMAIN registry.claims : out[j] = 0
      OBVIOUS
    <2>1. \A j \in Job : out[j] > 0 => j \in DOMAIN registry.claims /\ registry.claims[j] = funded[j]
      BY <1>5 DEF ClaimOf
    <2>2. \A j \in DOMAIN registry.claims : j \in Job /\ d[j] <= registry.claims[j]
      BY <1>4 DEF Register, Charged
    <2>3. \A j \in Job : out[j] \in Nat /\ d[j] \in Nat
      OBVIOUS
    <2> QED
      BY <1>5, <2>1, <2>2, <2>3
  <1>7. registry # NoRegistry =>
            /\ Sum(d, members) <= registry.spent + Sum(registry.claims, DOMAIN registry.claims)
            /\ Fits(registry, d, members, foreign) => Sum(out, Job) + Sum(d, Job) + foreign <= Capacity
    BY <1>3, <1>4, <1>6, ChargesCover
  <1>8. registry # NoRegistry => Budgets!Claimed(registry) = Sum(registry.claims, DOMAIN registry.claims)
    BY TotalIsSum DEF Budgets!Claimed
  <1>9. Budgets!WrittenIsCharged
    <2>1. Budgets!Total([j \in Job |-> written[j] + kept[j]], members) = Sum(d, members)
      BY <1>1, TotalIsSum DEF Disk
    <2> QED
      BY <1>7, <1>8, <2>1 DEF Budgets!WrittenIsCharged
  <1>10. Budgets!EpochWithinSample
    BY <1>4, <1>8 DEF Budgets!EpochWithinSample, Charged
  <1>11. Budgets!HonestEpochFits
    <2> SUFFICES ASSUME honest PROVE Sum(out, Job) <= Capacity - Sum(d, Job) - foreign
      BY <1>1, <1>2, DiskIs DEF Budgets!HonestEpochFits
    <2>1. Sum(out, Job) \in Nat /\ Sum(d, Job) \in Nat
      BY SumIsNat
    <2>2. CASE registry # NoRegistry
      <3>1. Fits(registry, d, members, foreign)
        BY <1>1, <2>2 DEF Epoch
      <3> QED
        BY <1>3, <1>7, <2>1, <2>2, <3>1
    <2>3. CASE registry = NoRegistry
      <3>1. \A j \in Job : out[j] = 0
        BY <1>5, <2>3 DEF ClaimOf
      <3>2. Blocks(out, Job) = {}
        BY <3>1 DEF Blocks
      <3>3. Sum(out, Job) = 0
        BY <3>2, FS_EmptySet DEF Sum
      <3>4. Sum(d, Job) + foreign <= Capacity
        BY <1>1 DEF DiskHolds
      <3> QED
        BY <1>3, <2>1, <3>3, <3>4
    <2> QED
      BY <2>2, <2>3
  <1>12. Budgets!LiveClaimKept
    BY DEF Budgets!LiveClaimKept, Budgets!Alive, ClaimOf, Up
  <1>13. Budgets!TypeOK
    <2>1. \A f \in {funded, remaining, pending, reserved, written, kept} : f \in [Job -> Nat]
      BY DEF BudgetTypes
    <2>2. \/ registry = NoRegistry
          \/ /\ DOMAIN registry = {"free", "spent", "claims"}
             /\ registry.free \in 0..Capacity /\ registry.spent \in Nat
             /\ DOMAIN registry.claims \subseteq Job
             /\ \A j \in DOMAIN registry.claims : registry.claims[j] \in Nat
      <3>1. ASSUME Register(registry) PROVE DOMAIN registry = {"free", "spent", "claims"}
        BY <3>1 DEF Register
      <3> QED
        BY <3>1 DEF BudgetTypes, Register
    <2> QED
      BY <2>1, <2>2 DEF BudgetTypes, Budgets!TypeOK
  <1> QED
    BY <1>9, <1>10, <1>11, <1>12, <1>13

-----------------------------------------------------------------------------
(* The three together *)

IInv ==
    /\ part \in Ways \union {"scratch", "capacity"}
    /\ part = "scratch" => ScratchInv
    /\ \A w \in Ways : part = w => ReceiptInv(w)
    /\ part = "capacity" => BudgetInv

LEMMA PartsDiffer == "scratch" \notin Ways /\ "capacity" \notin Ways
  BY DEF Ways

LEMMA PartsInit == Init => IInv
  <1> SUFFICES ASSUME Init PROVE IInv
    OBVIOUS
  <1>1. part \in Ways \union {"scratch", "capacity"} /\ Scratch!Init /\ Budgets!Init
    BY DEF Init
  <1>2. \A w \in Ways : part = w => ReceiptInv(w)
    <2> SUFFICES ASSUME NEW w \in Ways, part = w PROVE ReceiptInv(w)
      OBVIOUS
    <2>1. Receipts(w)!Init
      BY DEF Init
    <2> QED
      BY <2>1, ReceiptInit
  <1> QED
    BY <1>1, <1>2, ScratchInit, BudgetInit DEF IInv

\* A part that rests keeps its invariant: all its variables rest.
LEMMA PartsRest == IInv /\ UNCHANGED vars => IInv'
  <1> SUFFICES ASSUME IInv, UNCHANGED vars PROVE IInv'
    OBVIOUS
  <1>1. part' = part /\ UNCHANGED scratchVars /\ UNCHANGED receiptVars /\ UNCHANGED budgetVars
    BY DEF vars
  <1>2. ScratchInv => ScratchInv'
    BY <1>1 DEF scratchVars, ScratchInv, ScratchTypes, WorkInv, CoverInv, Claims, In, Comes, Unreclaimed,
                Scratch!RootKeepsMarker
  <1>3. \A w \in Ways : ReceiptInv(w) => ReceiptInv(w)'
    BY <1>1 DEF receiptVars, ReceiptInv, FileTypes, PhaseTypes, Stamped
  <1>4. BudgetInv => BudgetInv'
    BY <1>1 DEF budgetVars, BudgetInv, BudgetTypes, AccountOf, ClaimOf, Up, Epoch, DiskHolds, Disk
  <1> QED
    BY <1>1, <1>2, <1>3, <1>4 DEF IInv

LEMMA PartsStep == IInv /\ [Next]_vars => IInv'
  <1> SUFFICES ASSUME IInv, [Next]_vars PROVE IInv'
    OBVIOUS
  <1>1. CASE ScratchMoves
    BY <1>1, ScratchStep, PartsDiffer DEF ScratchMoves, IInv
  <1>2. CASE ReceiptsMove
    <2>1. PICK w \in Ways : part = w /\ Receipts(w)!Next /\ part' = part
      BY <1>2 DEF ReceiptsMove
    <2>2. ReceiptInv(w)'
      BY <2>1, ReceiptStep DEF IInv
    <2> QED
      BY <2>1, <2>2, PartsDiffer DEF IInv
  <1>3. CASE CapacityMoves
    BY <1>3, BudgetStep, PartsDiffer DEF CapacityMoves, IInv
  <1> QED
    BY <1>1, <1>2, <1>3, PartsRest DEF Next

LEMMA PartsAlways == Spec => []IInv
  BY PartsInit, PartsStep, PTL DEF Spec

\* Every variable of the part that moves has its type; no credit, reservation or
\* claim ever falls below zero, no directory is one nobody made, and no receipt
\* has a stamp the clock of the disk has not given.
THEOREM TypeCorrect == Spec => []TypeOK
  <1>1. IInv => TypeOK
    BY ScratchImplies, ReceiptImplies, BudgetImplies DEF IInv, TypeOK
  <1> QED
    BY <1>1, PartsAlways, PTL

\* For any number of owners and workspaces, kills and failures: what a transfer
\* works in stays there whatever other owners recover, bytes lie beside a
\* manifest, an owner that is in has reclaimed what nobody holds, and a root that
\* stays keeps its marker (scratch.py:25-26, 84, 161, 181-236).
THEOREM WorkAlwaysOwned == Spec => []WorkHasItsOwner
  <1>1. IInv => WorkHasItsOwner
    BY ScratchImplies DEF IInv, WorkHasItsOwner
  <1> QED
    BY <1>1, PartsAlways, PTL

\* For any contents, sizes, changes on the server and writes of other programs: a
\* file an ETag or a 304 calls current has the content of the server, by stamps,
\* with late checks and by hashes (_core/compare.py:54, cache.py:384-395).
THEOREM TrustAlwaysTrue == Spec => []TrustedIsTrue
  <1>1. IInv => TrustedIsTrue
    BY ReceiptImplies DEF IInv, TrustedIsTrue
  <1> QED
    BY <1>1, PartsAlways, PTL

\* For any number of jobs, sizes, windows and disks: a live job's claim is in the
\* registry, what an epoch wrote is charged in it, claims and charges fit its
\* sample, and cooperating jobs fit the disk if that sample was right
\* (capacity.py:79-150).
THEOREM WritingAlwaysCharged == Spec => []WrittenIsCharged
  <1>1. IInv => WrittenIsCharged
    BY BudgetImplies DEF IInv, WrittenIsCharged
  <1> QED
    BY <1>1, PartsAlways, PTL
=============================================================================
