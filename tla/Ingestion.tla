----------------------------- MODULE Ingestion ------------------------------
(***************************************************************************)
(* Transcript ingestion (IngestionService::ingest_session over             *)
(* codex_incremental::normalize_transcript_since): overlapping processes   *)
(* read one session's growing transcript from a stored checkpoint, append  *)
(* an event per completed call and store the next checkpoint, while the    *)
(* host keeps writing and the project may be forgotten.                    *)
(*                                                                         *)
(* A transcript is the sequence of its complete lines (an unterminated     *)
(* last line is never committed), an offset counts lines, and a SHA-256    *)
(* digest is the prefix it covers.  Event ids and calls are the same       *)
(* thing: stable_event_id is injective within a session.  A torn line is   *)
(* one that no reader can parse: the record a killed host left unfinished, *)
(* with the next one after it.                                             *)
(***************************************************************************)
EXTENDS EncryptedStore, Naturals, Sequences

CONSTANTS
  Ingesters,    \* processes started by status hooks or by the user
  Home,         \* the project path of the session
  MaxLines,     \* bound: lines the host writes into one transcript
  MaxTorn,      \* bound: torn lines among them
  MaxRewrites,  \* bound: times the host starts the file over
  MaxCrashes    \* bound: ingesters killed half-way

CallLine(e) == [kind |-> "call", call |-> e]
OutputLine(e) == [kind |-> "output", call |-> e]
Torn == [kind |-> "torn"]
Lines ==
  {CallLine(e) : e \in EventIds} \cup {OutputLine(e) : e \in EventIds} \cup {Torn}

Cursors == [offset : Nat, digest : Seq(Lines), pending : SUBSET EventIds]
EmptyCursor == [offset |-> 0, digest |-> <<>>, pending |-> {}]

ASSUME IngestionAssumption ==
  /\ Home \in Paths
  /\ None \notin Cursors
  /\ {MaxLines, MaxTorn, MaxRewrites, MaxCrashes} \subseteq Nat

VARIABLES
  transcript,   \* the session file's complete lines
  rewrites,     \* how often it was started over
  crashes,      \* how many ingesters were killed
  cursor,       \* table private_cursors: the session's checkpoint, or None
  pc,           \* the next step of each ingester
  base,         \* its checkpoint: as loaded, then as validated
  next,         \* the checkpoint it is going to store
  batch,        \* the events it has still to append
  held,         \* the project identity it has resolved
  settled,      \* history: events some append statement was executed for
  erased,       \* history: events whose row a forget deleted
  pruned        \* history: events whose row retention deleted

runVars == <<pc, base, next, batch, held>>
historyVars == <<settled, erased, pruned>>
vars == <<storeVars, transcript, rewrites, crashes, cursor, runVars, settled, erased,
          pruned>>

Stages == {"idle", "inspect", "read", "digest", "load", "insert", "reload", "append"}

TypeOK ==
  /\ StoreTypeOK
  /\ transcript \in Seq(Lines)
  /\ rewrites \in 0..MaxRewrites /\ crashes \in 0..MaxCrashes
  /\ cursor \in Cursors \cup {None}
  /\ pc \in [Ingesters -> Stages]
  /\ base \in [Ingesters -> Cursors \cup {None}]
  /\ next \in [Ingesters -> Cursors \cup {None}]
  /\ batch \in [Ingesters -> SUBSET EventIds]
  /\ held \in [Ingesters -> ProjectIds \cup {None}]
  /\ settled \subseteq EventIds /\ erased \subseteq EventIds /\ pruned \subseteq EventIds
  /\ \A g \in Ingesters :
       /\ pc[g] \in {"read", "digest"} => base[g] \in Cursors
       /\ pc[g] \in {"load", "insert", "reload", "append"} => next[g] \in Cursors
       /\ pc[g] = "append" => held[g] \in ProjectIds

Init ==
  /\ StoreInit
  /\ transcript = <<>> /\ rewrites = 0 /\ crashes = 0
  /\ cursor = None
  /\ pc = [g \in Ingesters |-> "idle"]
  /\ base = [g \in Ingesters |-> None]
  /\ next = [g \in Ingesters |-> None]
  /\ batch = [g \in Ingesters |-> {}]
  /\ held = [g \in Ingesters |-> None]
  /\ settled = {} /\ erased = {} /\ pruned = {}

-----------------------------------------------------------------------------
(* Parsing: pairs calls with their outputs, from a set of open calls.      *)

ParseLine(st, l) ==
  CASE l.kind = "call" -> [st EXCEPT !.pending = @ \cup {l.call}]
    [] l.kind = "output" /\ l.call \in st.pending ->
         [pending |-> st.pending \ {l.call}, done |-> st.done \cup {l.call}]
    [] OTHER -> st

Parse(pending, lines) ==
  LET after[n \in 0..Len(lines)] ==
        IF n = 0 THEN [pending |-> pending, done |-> {}]
                 ELSE ParseLine(after[n - 1], lines[n])
  IN  after[Len(lines)]

Completed(lines) == Parse({}, lines).done
Open(lines) == Parse({}, lines).pending

Prefix(n) == SubSeq(transcript, 1, n)

Readable(lines) == \A i \in DOMAIN lines : lines[i] # Torn

(* Faulty variant: a checkpoint that still fits is believed unhashed.       *)
ValidatedUnhashed(cur) ==
  IF cur # None /\ cur.offset <= Len(transcript) THEN cur ELSE EmptyCursor

(* validated_cursor: an unusable checkpoint means starting from byte zero.  *)
(* The code compares two lengths with the file's, the bytes committed and   *)
(* the whole file at the time.  They differ by an unterminated last line,   *)
(* which the transcript here never has: the offset stands for both.         *)
Validated(cur) ==
  IF cur # None /\ cur.offset <= Len(transcript) /\ Prefix(cur.offset) = cur.digest
    THEN cur ELSE EmptyCursor

-----------------------------------------------------------------------------
(* The host: it writes a call, later its output, and may start over.       *)

Write ==
  /\ Len(transcript) < MaxLines
  /\ \/ \E e \in EventIds :
          \/ /\ e \notin Open(transcript) \cup Completed(transcript)
             /\ transcript' = Append(transcript, CallLine(e))
          \/ /\ e \in Open(transcript)
             /\ transcript' = Append(transcript, OutputLine(e))
     \/ /\ Cardinality({i \in DOMAIN transcript : transcript[i] = Torn}) < MaxTorn
        /\ transcript' = Append(transcript, Torn)
  /\ UNCHANGED <<storeVars, rewrites, crashes, cursor, runVars, historyVars>>

Rewrite ==
  /\ rewrites < MaxRewrites /\ transcript # <<>>
  /\ rewrites' = rewrites + 1
  /\ transcript' = <<>>
  /\ UNCHANGED <<storeVars, crashes, cursor, runVars, historyVars>>

-----------------------------------------------------------------------------
(* One run of an ingester. *)

Goto(g, stage) == pc' = [pc EXCEPT ![g] = stage]

Exit(g) ==
  /\ Goto(g, "idle")
  /\ base' = [base EXCEPT ![g] = None]
  /\ next' = [next EXCEPT ![g] = None]
  /\ batch' = [batch EXCEPT ![g] = {}]
  /\ held' = [held EXCEPT ![g] = None]

hostVars == <<transcript, rewrites>>

LoadCursor(g) ==
  /\ pc[g] = "idle"
  /\ Goto(g, "inspect")
  /\ base' = [base EXCEPT ![g] = cursor]
  /\ UNCHANGED <<storeVars, hostVars, crashes, cursor, next, batch, held, historyVars>>

Inspect(g) ==
  /\ pc[g] = "inspect"
  /\ Goto(g, "read")
  /\ base' = [base EXCEPT ![g] = Validated(base[g])]
  /\ UNCHANGED <<storeVars, hostVars, crashes, cursor, next, batch, held, historyVars>>

(* Faulty variants: the open calls carried by the checkpoint are dropped;   *)
(* the new offset is relative to the tail.                                 *)
ReadTailFresh(g) ==
  LET from == base[g].offset
      tail == SubSeq(transcript, from + 1, Len(transcript))
      parsed == Parse({}, tail) IN
    /\ pc[g] = "read"
    /\ Readable(tail)
    /\ Goto(g, "digest")
    /\ batch' = [batch EXCEPT ![g] = parsed.done]
    /\ base' = [base EXCEPT ![g] = [offset |-> from + Len(tail), digest |-> @.digest,
                                    pending |-> parsed.pending]]
    /\ UNCHANGED <<storeVars, hostVars, crashes, cursor, next, held, historyVars>>
ReadTailRelative(g) ==
  LET from == base[g].offset
      tail == SubSeq(transcript, from + 1, Len(transcript))
      parsed == Parse(base[g].pending, tail) IN
    /\ pc[g] = "read"
    /\ Readable(tail)
    /\ Goto(g, "digest")
    /\ batch' = [batch EXCEPT ![g] = parsed.done]
    /\ base' = [base EXCEPT ![g] = [offset |-> Len(tail), digest |-> @.digest,
                                    pending |-> parsed.pending]]
    /\ UNCHANGED <<storeVars, hostVars, crashes, cursor, next, held, historyVars>>

(* Reads to the end of the file and parses; the digest comes separately.   *)
ReadTail(g) ==
  LET from == base[g].offset
      tail == SubSeq(transcript, from + 1, Len(transcript))
      parsed == Parse(base[g].pending, tail) IN
    /\ pc[g] = "read"
    /\ Readable(tail)
    /\ Goto(g, "digest")
    /\ batch' = [batch EXCEPT ![g] = parsed.done]
    /\ base' = [base EXCEPT ![g] = [offset |-> from + Len(tail), digest |-> @.digest,
                                    pending |-> parsed.pending]]
    /\ UNCHANGED <<storeVars, hostVars, crashes, cursor, next, held, historyVars>>

(* A tail with a torn line is refused whole, by this run and every later.   *)
RefuseTail(g) ==
  /\ pc[g] = "read"
  /\ ~Readable(SubSeq(transcript, base[g].offset + 1, Len(transcript)))
  /\ Exit(g)
  /\ UNCHANGED <<storeVars, hostVars, crashes, cursor, historyVars>>

(* digest_prefix reads the file again; it fails if the file is now shorter.*)
Digest(g) ==
  /\ pc[g] = "digest"
  /\ \/ /\ base[g].offset <= Len(transcript)
        /\ Goto(g, "load")
        /\ next' = [next EXCEPT ![g] = [base[g] EXCEPT !.digest = Prefix(base[g].offset)]]
        /\ base' = [base EXCEPT ![g] = None]
        /\ UNCHANGED <<batch, held>>
     \/ /\ base[g].offset > Len(transcript)
        /\ Exit(g)
  /\ UNCHANGED <<storeVars, hostVars, crashes, cursor, historyVars>>

(* resolve_project, statement by statement (see module Recording).         *)
Resolved(g) ==
  /\ projects[Home] # None
  /\ held' = [held EXCEPT ![g] = projects[Home]]
  /\ Goto(g, "append")
  /\ UNCHANGED <<storeVars, base, next, batch>>

LoadProject(g) ==
  /\ pc[g] = "load"
  /\ \/ Resolved(g)
     \/ /\ projects[Home] = None
        /\ Goto(g, "insert")
        /\ UNCHANGED <<storeVars, base, next, batch, held>>
  /\ UNCHANGED <<hostVars, crashes, cursor, historyVars>>

InsertProject(g) ==
  /\ pc[g] = "insert"
  /\ InsertMapping(Home)
  /\ Goto(g, "reload")
  /\ UNCHANGED <<base, next, batch, held, hostVars, crashes, cursor, historyVars>>

(* Faulty variant: the missing record is not checked.                      *)
ReloadProjectUnchecked(g) ==
  /\ pc[g] = "reload"
  /\ held' = [held EXCEPT ![g] = projects[Home]]
  /\ Goto(g, "append")
  /\ UNCHANGED <<storeVars, base, next, batch, hostVars, crashes, cursor, historyVars>>

ReloadProject(g) ==
  /\ pc[g] = "reload"
  /\ \/ Resolved(g)
     \/ projects[Home] = None /\ Exit(g) /\ UNCHANGED storeVars
  /\ UNCHANGED <<hostVars, crashes, cursor, historyVars>>

(* The batch is sorted by timestamps the model does not keep: any order.   *)
AppendOne(g) ==
  /\ pc[g] = "append"
  /\ \E e \in batch[g] :
       /\ AppendEvent(e, held[g])
       /\ batch' = [batch EXCEPT ![g] = @ \ {e}]
       /\ settled' = settled \cup {e}
  /\ UNCHANGED <<pc, base, next, held, hostVars, crashes, cursor, erased, pruned>>

(* Faulty variant: saved before the batch is appended.                     *)
SaveCursorEarly(g) ==
  /\ pc[g] = "append"
  /\ cursor' = next[g]
  /\ Exit(g)
  /\ UNCHANGED <<storeVars, hostVars, crashes, historyVars>>

(* save_cursor: an unconditional upsert, after every append succeeded.     *)
SaveCursor(g) ==
  /\ pc[g] = "append"
  /\ batch[g] = {}
  /\ cursor' = next[g]
  /\ Exit(g)
  /\ UNCHANGED <<storeVars, hostVars, crashes, historyVars>>

Crash(g) ==
  /\ pc[g] # "idle" /\ crashes < MaxCrashes
  /\ crashes' = crashes + 1
  /\ Exit(g)
  /\ UNCHANGED <<storeVars, hostVars, cursor, historyVars>>

(* Faulty variant: the session's checkpoint is deleted too.                *)
ForgetWithCursor ==
  /\ erased' = erased \cup {e \in EventIds : projects[Home] # None /\ events[e] = projects[Home]}
  /\ EraseProject(Home)
  /\ cursor' = None
  /\ UNCHANGED <<hostVars, crashes, runVars, settled, pruned>>

(* forget --apply: the session's checkpoint stays. *)
Forget ==
  /\ erased' = erased \cup {e \in EventIds : projects[Home] # None /\ events[e] = projects[Home]}
  /\ EraseProject(Home)
  /\ UNCHANGED <<hostVars, crashes, cursor, runVars, settled, pruned>>

(* Retention deletes some of the events: which is the matter of Retention.  *)
Prune ==
  \E es \in SUBSET {e \in EventIds : events[e] # None} \ {{}} :
    /\ DeleteBatch(es, {})
    /\ pruned' = pruned \cup es
    /\ UNCHANGED <<hostVars, crashes, cursor, runVars, settled, erased>>

Step(g) ==
  \/ LoadCursor(g) \/ Inspect(g) \/ ReadTail(g) \/ RefuseTail(g) \/ Digest(g)
  \/ LoadProject(g) \/ InsertProject(g) \/ ReloadProject(g)
  \/ AppendOne(g) \/ SaveCursor(g)

Next ==
  \/ \E g \in Ingesters : Step(g) \/ Crash(g)
  \/ Write \/ Rewrite \/ Forget \/ Prune

Spec == Init /\ [][Next]_vars

(* Hooks keep starting ingesters, and a running process keeps running;     *)
(* nothing obliges the host to write, the user to forget or a crash.       *)
Fairness == \A g \in Ingesters : WF_vars(Step(g))

FairSpec == Spec /\ Fairness

-----------------------------------------------------------------------------
(* A checkpoint, stored or about to be, never runs ahead of the store: for *)
(* every call completed in the prefix it covers, an append was executed    *)
(* (ingestion.rs: the cursor is saved after the appends; "if event         *)
(* persistence fails, the cursor does not advance").                       *)
CursorNeverAhead == cursor # None => Completed(cursor.digest) \subseteq settled

(* The open calls a checkpoint carries are exactly those of the prefix it  *)
(* covers, whatever checkpoints they were accumulated through, and it      *)
(* covers no line that nobody could read.                                  *)
CursorExact ==
  cursor # None => /\ cursor.pending = Open(cursor.digest)
                   /\ cursor.offset = Len(cursor.digest)
                   /\ Readable(cursor.digest)

(* docs/roadmap.md: "retained cursors prevent transcript resurrection":    *)
(* an event deleted by a forget is not ingested again.                     *)
NoTranscriptResurrection == \A e \in erased : events[e] = None

(* Every call completed in the transcript is eventually handed to the      *)
(* store, through overlapping runs, crashes and forgets, unless a torn     *)
(* line stops ingestion for good (codex_incremental.rs:67).                *)
EveryCallSettles ==
  \A e \in EventIds :
    e \in Completed(transcript) ~> (e \in settled \/ ~Readable(transcript))

=============================================================================
