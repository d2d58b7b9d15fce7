----------------------------- MODULE SearchQueue -----------------------------
(***************************************************************************)
(* How a row of the database becomes a search document: runPostCommit      *)
(* enqueues it on the Redis stream meili:queue (lib/meili.ts), MeiliIndexer *)
(* drains the stream into Meilisearch and saves its position,              *)
(* scripts/reindexMeili.ts emits the whole corpus again, and the wipe      *)
(* deletes rows, queue and documents under them.                           *)
(*                                                                         *)
(* One document of each of two kinds.  A batch of beacons names several    *)
(* fields *id, so that Meilisearch cannot infer its primary key; the other *)
(* indexes it can infer.  Stream ids are times, and outlive a wipe.        *)
(***************************************************************************)
EXTENDS Integers, Sequences, FiniteSets, SequencesExt

CONSTANTS
  MaxEra,      \* contents a row may take, one per rollback
  MaxLen,      \* STREAM_MAXLEN
  BatchSize,   \* BATCH_SIZE
  Punctual,    \* a wipe deletes when post-commits and the drain have seen its lock
  MaxIds,      \* envelopes ever enqueued
  MaxWipes,    \* wipes, and reindexes
  MaxFaults    \* crashes, failed requests, failed wipes

ASSUME SearchQueueAssumption ==
  /\ MaxEra \in Nat \ {0} /\ MaxLen \in Nat \ {0} /\ BatchSize \in Nat \ {0} /\ Punctual \in BOOLEAN
  /\ MaxIds \in Nat /\ MaxWipes \in Nat /\ MaxFaults \in Nat

Key == {"superblock", "beacon"}
Inferable == {"superblock"}
None == 0
Full == {"full"}

VARIABLES
  rows,      \* the row of each document: its era, or None
  era,       \* the era of what is applied now
  due,       \* rows whose post-commit has not come to the enqueue
  stream, lastAdded, \* meili:queue: envelopes [id, key, era], and the last id given out
  saved,     \* meili:cursor
  drain,     \* MeiliIndexer: pc, lastId, the batch it has read
  index,     \* Meilisearch: whether an index exists, and with which primary key
  docs,      \* Meilisearch: the era of each document, or None
  lock,      \* a wipe holds the lock
  wipe,      \* where the wipe is, and the kinds it covers ("full", or those above its height)
  reindex,   \* where reindexMeili is, and the rows it has read
  lost,      \* kinds with an envelope that was dropped, or overtaken by an older one
  wipes, faults

queue == <<stream, lastAdded>>
server == <<index, docs>>
counters == <<wipes, faults>>
vars == <<rows, era, due, queue, saved, drain, server, lock, wipe, reindex, lost, counters>>

Envelope == [id : 1 .. MaxIds, key : Key, era : 1 .. MaxEra]
TypeOK ==
  /\ rows \in [Key -> 0 .. MaxEra] /\ docs \in [Key -> 0 .. MaxEra] /\ era \in 1 .. MaxEra
  /\ due \subseteq Key \X (1 .. MaxEra)
  /\ Len(stream) <= MaxLen /\ Range(stream) \subseteq Envelope /\ lastAdded \in 0 .. MaxIds
  /\ saved \in 0 .. MaxIds
  /\ drain.pc \in {"off", "load", "check", "read", "flush", "save"} /\ drain.last \in 0 .. MaxIds
  /\ index \in [Key -> {"none", "keyed", "unkeyed"}]
  /\ lock \in BOOLEAN /\ lost \subseteq Key
  /\ wipe.pc \in {"off", "grace", "prune", "rows", "redis", "drop", "clear"}
  /\ reindex.pc \in {"off", "clear", "read", "emit"}

Off == [pc |-> "off", last |-> 0, batch |-> << >>]
NoWipe == [pc |-> "off", of |-> {}]
NoReindex == [pc |-> "off", rows |-> [k \in Key |-> None]]

Init ==
  /\ rows = [k \in Key |-> None] /\ era = 1 /\ due = {}
  /\ stream = << >> /\ lastAdded = 0 /\ saved = 0 /\ drain = Off
  /\ index = [k \in Key |-> "none"] /\ docs = [k \in Key |-> None]
  /\ lock = FALSE /\ wipe = NoWipe /\ reindex = NoReindex /\ lost = {} /\ wipes = 0 /\ faults = 0

-----------------------------------------------------------------------------
(* The producers. *)

\* The bound: ids not yet promised to a post-commit or a reindex.
Room == MaxIds - lastAdded - Cardinality(due) - (IF reindex = NoReindex THEN 0 ELSE Cardinality(Key))

Indexing == ~lock /\ (Punctual => wipe.pc # "drop")

\* applyBlocks has written the row; its post-commit follows, awaited or not.
Apply(k) ==
  /\ Indexing /\ Room > 0 /\ rows[k] = None /\ rows' = [rows EXCEPT ![k] = era] /\ due' = due \cup {<<k, era>>}
  /\ UNCHANGED <<era, queue, saved, drain, server, lock, wipe, reindex, lost, counters>>

\* A rollback deletes rows.  Nobody deletes their documents.
RollBack(k) ==
  /\ Indexing /\ rows[k] # None /\ era < MaxEra /\ (Punctual => due = {})
  /\ rows' = [rows EXCEPT ![k] = None] /\ era' = era + 1
  /\ UNCHANGED <<due, queue, saved, drain, server, lock, wipe, reindex, lost, counters>>

\* Up to where the stream has been drained, as far as the drain will remember.
Position == IF drain.pc \in {"off", "load"} THEN saved ELSE drain.last

\* XADD with MAXLEN: the oldest entries go, read or not.
Added(es, gone) ==
  LET all == stream \o [i \in 1 .. Len(es) |->
               [id |-> lastAdded + i, key |-> es[i][1], era |-> es[i][2]]]
      cut == IF Len(all) > MaxLen THEN Len(all) - MaxLen ELSE 0
  IN  /\ stream' = SubSeq(all, cut + 1, Len(all)) /\ lastAdded' = lastAdded + Len(es)
      /\ lost' = gone \cup {all[i].key : i \in {j \in 1 .. cut : all[j].id > Position}}

Enqueue(d) ==
  /\ d \in due /\ due' = due \ {d} /\ Added(<<d>>, lost)
  /\ UNCHANGED <<rows, era, saved, drain, server, lock, wipe, reindex, counters>>

\* "Errors are warned, not thrown."
EnqueueFails(d) ==
  /\ d \in due /\ due' = due \ {d} /\ lost' = lost \cup {d[1]}
  /\ faults < MaxFaults /\ faults' = faults + 1
  /\ UNCHANGED <<rows, era, queue, saved, drain, server, lock, wipe, reindex, wipes>>

-----------------------------------------------------------------------------
(* MeiliIndexer. *)

Drain(pc) == drain' = [drain EXCEPT !.pc = pc]

\* run(), at boot only: create what is missing, give an empty index its key.
EnsureIndices ==
  /\ drain.pc = "off" /\ Drain("load")
  /\ index' = [k \in Key |-> IF docs[k] = None THEN "keyed" ELSE index[k]]
  /\ UNCHANGED <<rows, era, due, queue, saved, docs, lock, wipe, reindex, lost, counters>>

LoadCursor ==
  /\ drain.pc = "load" /\ drain' = [drain EXCEPT !.pc = "check", !.last = saved]
  /\ UNCHANGED <<rows, era, due, queue, saved, server, lock, wipe, reindex, lost, counters>>

\* While a wipe runs, forget the position: the stream is read from its start afterwards.
CheckLock ==
  /\ drain.pc = "check"
  /\ IF lock THEN drain' = [drain EXCEPT !.last = 0] /\ saved' = 0
             ELSE Drain("read") /\ UNCHANGED saved
  /\ UNCHANGED <<rows, era, due, queue, server, lock, wipe, reindex, lost, counters>>

\* XREAD: a batch behind the position, or nothing before BLOCK runs out.
Read ==
  LET new == SelectSeq(stream, LAMBDA e : e.id > drain.last)
      batch == SubSeq(new, 1, IF Len(new) < BatchSize THEN Len(new) ELSE BatchSize)
  IN  /\ drain.pc = "read"
      /\ IF new = << >> THEN Drain("check")
         ELSE drain' = [drain EXCEPT !.pc = "flush", !.batch = batch]
      /\ UNCHANGED <<rows, era, due, queue, saved, server, lock, wipe, reindex, lost, counters>>

InBatch(k) == \E i \in DOMAIN drain.batch : drain.batch[i].key = k
Newest(k) == drain.batch[CHOOSE i \in DOMAIN drain.batch :
               /\ drain.batch[i].key = k
               /\ \A j \in DOMAIN drain.batch : j > i => drain.batch[j].key # k].era

\* Bug: a document that exists already is kept.
Upserted_KeepsOld(k) == InBatch(k) /\ docs[k] = None /\ (index[k] = "keyed" \/ k \in Inferable)

\* An index that is missing is created by its first documents, without a key to go by.
Upserted(k) == InBatch(k) /\ (index[k] = "keyed" \/ k \in Inferable)

\* One request per index; a failed one is logged.  Then the position moves either way.
Flush ==
  /\ drain.pc = "flush"
  /\ \E failed \in SUBSET {k \in Key : InBatch(k)} :
       /\ Cardinality(failed) <= MaxFaults - faults /\ faults' = faults + Cardinality(failed)
       /\ docs' = [k \in Key |-> IF Upserted(k) /\ k \notin failed THEN Newest(k) ELSE docs[k]]
       /\ index' = [k \in Key |-> IF InBatch(k) /\ k \notin failed /\ index[k] # "keyed"
                                    THEN IF k \in Inferable THEN "keyed" ELSE "unkeyed"
                                    ELSE index[k]]
       /\ lost' = lost \cup failed \cup {k \in Key \ Inferable : InBatch(k) /\ index[k] # "keyed"}
  /\ drain' = [pc |-> "save", last |-> Last(drain.batch).id, batch |-> << >>]
  /\ UNCHANGED <<rows, era, due, queue, saved, lock, wipe, reindex, wipes>>

\* Bug: what is saved is the newest id of the stream.
SaveCursor_Newest ==
  /\ drain.pc = "save" /\ saved' = lastAdded /\ Drain("check")
  /\ UNCHANGED <<rows, era, due, queue, server, lock, wipe, reindex, lost, counters>>

SaveCursor ==
  /\ drain.pc = "save" /\ saved' = drain.last /\ Drain("check")
  /\ UNCHANGED <<rows, era, due, queue, server, lock, wipe, reindex, lost, counters>>

\* XREAD or the save throws: round again.
LoopError ==
  /\ drain.pc \in {"read", "save"} /\ Drain("check") /\ faults < MaxFaults /\ faults' = faults + 1
  /\ UNCHANGED <<rows, era, due, queue, saved, server, lock, wipe, reindex, lost, wipes>>

\* The explorer dies: post-commits on their way are gone, the drain starts again.
Crash ==
  /\ faults < MaxFaults /\ faults' = faults + 1
  /\ due' = {} /\ lost' = lost \cup {d[1] : d \in due} /\ drain' = Off
  /\ UNCHANGED <<rows, era, queue, saved, server, lock, wipe, reindex, wipes>>

-----------------------------------------------------------------------------
(* The wipe. *)

Quiet == due = {} /\ drain.pc \in {"off", "load", "check"}
Phase(pc) == wipe' = [wipe EXCEPT !.pc = pc]

WipeStart(of) ==
  /\ wipe = NoWipe /\ reindex = NoReindex /\ wipes < MaxWipes /\ wipes' = wipes + 1
  /\ wipe' = [pc |-> "grace", of |-> of] /\ lock' = TRUE
  /\ UNCHANGED <<rows, era, due, queue, saved, drain, server, reindex, lost, faults>>

GraceOver ==
  /\ wipe.pc = "grace" /\ (Punctual => Quiet) /\ Phase(IF wipe.of = Full THEN "rows" ELSE "prune")
  /\ UNCHANGED <<rows, era, due, queue, saved, drain, server, lock, reindex, lost, counters>>

\* The document ids of the rows above the height: for a beacon `cpid:tx_id`, which is not the
\* id buildMeiliEnvelopes gives it.
IdMatches == {"superblock"}

PruneDocs ==
  /\ wipe.pc = "prune" /\ Phase("rows")
  /\ docs' = [k \in Key |-> IF k \in wipe.of \cap IdMatches /\ rows[k] # None THEN None ELSE docs[k]]
  /\ UNCHANGED <<rows, era, due, queue, saved, drain, index, lock, reindex, lost, counters>>

DeleteRows ==
  /\ wipe.pc = "rows" /\ Phase("redis")
  /\ rows' = [k \in Key |-> IF wipe.of = Full \/ k \in wipe.of THEN None ELSE rows[k]]
  /\ era' = IF era < MaxEra THEN era + 1 ELSE era
  /\ UNCHANGED <<due, queue, saved, drain, server, lock, reindex, lost, counters>>

\* Bug: a partial wipe leaves the queue as it is.
DropQueue_Kept ==
  /\ wipe.pc = "redis" /\ saved' = 0
  /\ IF wipe.of = Full THEN Phase("drop") /\ lock' = FALSE ELSE Phase("clear") /\ UNCHANGED lock
  /\ UNCHANGED <<rows, era, due, queue, drain, server, reindex, lost, counters>>

\* The queue and the saved position go; with a full wipe the lock too.  Envelopes of rows that
\* survive may be among them.
DropQueue ==
  LET unread == {e.key : e \in {r \in Range(stream) : r.id > Position}} IN
  /\ wipe.pc = "redis" /\ stream' = << >> /\ saved' = 0
  /\ lost' = lost \cup {k \in unread : rows[k] # None /\ docs[k] # rows[k]}
  /\ IF wipe.of = Full THEN Phase("drop") /\ lock' = FALSE ELSE Phase("clear") /\ UNCHANGED lock
  /\ UNCHANGED <<rows, era, due, lastAdded, drain, server, reindex, counters>>

\* A full wipe drops the indexes: keys and settings with the documents.
DropIndexes ==
  /\ wipe.pc = "drop" /\ Phase("clear")
  /\ docs' = [k \in Key |-> None] /\ index' = [k \in Key |-> "none"]
  /\ lost' = lost \cup {k \in Key : docs[k] # None /\ docs[k] = rows[k]}
  /\ UNCHANGED <<rows, era, due, queue, saved, drain, lock, reindex, counters>>

WipeEnds ==
  /\ wipe.pc = "clear" /\ wipe' = NoWipe /\ lock' = FALSE
  /\ UNCHANGED <<rows, era, due, queue, saved, drain, server, reindex, lost, counters>>

\* Cut short: what was pruned of rows that stay is missing.  The watcher clears its lock on the
\* way out, a wipe by hand leaves it to expire.
WipeFails ==
  /\ wipe.pc # "off" /\ faults < MaxFaults /\ faults' = faults + 1
  /\ wipe' = NoWipe /\ lock' \in {FALSE, lock} /\ lost' = lost \cup {k \in Key : rows[k] # None /\ docs[k] # rows[k]}
  /\ UNCHANGED <<rows, era, due, queue, saved, drain, server, reindex, wipes>>

LockExpires ==
  /\ lock /\ wipe = NoWipe /\ lock' = FALSE
  /\ UNCHANGED <<rows, era, due, queue, saved, drain, server, wipe, reindex, lost, counters>>

-----------------------------------------------------------------------------
(* reindexMeili: clear the indexes, then read each table and emit it. *)

ReindexStart ==
  /\ wipe = NoWipe /\ reindex = NoReindex /\ Room >= Cardinality(Key)
  /\ wipes < MaxWipes /\ wipes' = wipes + 1 /\ reindex' = [NoReindex EXCEPT !.pc = "clear"]
  /\ UNCHANGED <<rows, era, due, queue, saved, drain, server, lock, wipe, lost, faults>>

ClearIndices ==
  /\ reindex.pc = "clear" /\ reindex' = [reindex EXCEPT !.pc = "read"]
  /\ docs' = [k \in Key |-> None]
  /\ UNCHANGED <<rows, era, due, queue, saved, drain, index, lock, wipe, lost, counters>>

ReadRows ==
  /\ reindex.pc = "read" /\ reindex' = [pc |-> "emit", rows |-> rows]
  /\ UNCHANGED <<rows, era, due, queue, saved, drain, server, lock, wipe, lost, counters>>

Emitted(k) == reindex.rows[k] # None

\* Every row is emitted again, which makes up for whatever was lost before; a row that was
\* replaced since it was read goes out behind its replacement.
EmitRows ==
  LET keys == {k \in Key : Emitted(k)}
      es == [i \in 1 .. Cardinality(keys) |-> LET k == SetToSeq(keys)[i] IN <<k, reindex.rows[k]>>]
  IN  /\ reindex.pc = "emit" /\ reindex' = NoReindex
      /\ Added(es, (lost \ keys) \cup {k \in keys : reindex.rows[k] # rows[k]})
      /\ UNCHANGED <<rows, era, due, saved, drain, server, lock, wipe, counters>>

ReindexDies ==
  /\ reindex.pc # "off" /\ faults < MaxFaults /\ faults' = faults + 1
  /\ reindex' = NoReindex /\ lost' = lost \cup {k \in Key : docs[k] # rows[k]}
  /\ UNCHANGED <<rows, era, due, queue, saved, drain, server, lock, wipe, wipes>>

-----------------------------------------------------------------------------
DrainStep == EnsureIndices \/ LoadCursor \/ CheckLock \/ Read \/ Flush \/ SaveCursor
WipeStep == GraceOver \/ PruneDocs \/ DeleteRows \/ DropQueue \/ DropIndexes \/ WipeEnds
ReindexStep == ClearIndices \/ ReadRows \/ EmitRows

Next ==
  \/ \E k \in Key : Apply(k) \/ RollBack(k)
  \/ \E d \in due : Enqueue(d) \/ EnqueueFails(d)
  \/ DrainStep \/ LoopError \/ Crash
  \/ \E of \in {Full, {"superblock"}, Key} : WipeStart(of)
  \/ WipeStep \/ WipeFails \/ LockExpires \/ ReindexStart \/ ReindexStep \/ ReindexDies

Safety == Init /\ [][Next]_vars

\* The drain loops for ever, post-commits and scripts go on, a lock has a TTL.
Spec ==
  /\ Safety /\ WF_vars(DrainStep) /\ WF_vars(WipeStep) /\ WF_vars(ReindexStep) /\ WF_vars(LockExpires)
  /\ WF_vars(\E d \in due : Enqueue(d))

-----------------------------------------------------------------------------
Behind(k) == {e \in Range(stream) : e.key = k /\ e.id <= saved}
Unread(k) == {e \in Range(stream) : e.key = k /\ e.id > saved}

\* "The saved position never points ahead of what Meili actually has": a row whose envelope is
\* behind it has its document, unless it goes out again, a request failed or a script is at work.
PositionCovered ==
  wipe = NoWipe /\ reindex = NoReindex =>
    \A k \in Key \ lost : \A e \in Behind(k) :
      e.era = rows[k] => docs[k] = e.era \/ Unread(k) # {} \/ <<k, e.era>> \in due

\* Every row gets its document and keeps it, however often the stream is read again, and
\* whatever is wiped, restarted or emitted again meanwhile; lost says what was dropped.
Converges == <>[](\A k \in Key \ lost : rows[k] # None => docs[k] = rows[k])

\* A partial wipe deletes rows and queue together: when it lets the drain go on, no envelope is
\* left that would bring back a document of a row that is gone.
NoResurrection ==
  [][wipe.pc = "clear" /\ wipe.of # Full /\ wipe' = NoWipe =>
       \A e \in Range(stream) : rows[e.key] = e.era]_vars
=============================================================================
