---------------------------- MODULE CenterQuery ----------------------------
(***************************************************************************)
(* framework/CF_framework_center.h and CF_framework_cache.h: a user's      *)
(* query answered from the cache, the feedback about what the answer holds *)
(* (to the candidate and to the sync files), and the flush threads that    *)
(* refill the cache.                                                       *)
(*                                                                         *)
(* Time is abstract: cache[u].fresh is now - utm < m_flush_time and        *)
(* cache[u].recent is now - stm <= 60; each may end at any moment.  The    *)
(* candidate (external) is the set told[u] of articles it was told the     *)
(* user got; it recommends none of them.  Ranking is an arbitrary order:   *)
(* it depends on scores from outside.                                      *)
(***************************************************************************)
EXTENDS Naturals, Sequences, FiniteSets, SequencesExt

CONSTANTS Procs,       \* the threads of thread_process
          Flushers,    \* the threads of thread_flushcache
          Users, Articles,
          Reported,    \* lists of articles in the feedback of clients
          None,        \* model value
          Takes,       \* min(m_return_value[rand()], req_num): how many to return
          FlushCount,  \* m_flush_count
          SaveCount,   \* fw_cache_savecount
          QueueSize,   \* of m_flushCache
          MaxQueries, MaxCrashes   \* bounds

ASSUME CenterAssumption ==
  /\ Procs \cap Flushers = {} /\ None \notin Procs \cup Flushers \cup Users
  /\ Reported \subseteq Seq(Articles) /\ Takes \subseteq Nat /\ FlushCount \in Nat
  /\ SaveCount \in Nat \ {0} /\ QueueSize \in Nat \ {0}
  /\ MaxQueries \in Nat /\ MaxCrashes \in Nat

VARIABLES
  cache,     \* m_cache, persistent: per user, or NoEntry
  flag,      \* m_flags: the thread that added the user's flag
  queue,     \* m_flushCache: users to refill
  proc,      \* what each process thread does
  flusher,   \* what each flush thread does
  save,      \* the record in sync.save, or NoRecord
  send,      \* the record in sync.send
  sent,      \* how far thread_feedback is with it
  told,      \* the candidate's memory, per user
  queries, crashes,
  shown      \* history: articles in replies, per user

files == <<save, send, sent>>
bounds == <<queries, crashes>>
vars == <<cache, flag, queue, proc, flusher, files, told, bounds, shown>>

NoEntry == [list |-> <<>>, fresh |-> FALSE, recent |-> FALSE, known |-> FALSE]
NoRecord == [user |-> None, list |-> <<>>, left |-> 0]
Idle == [pc |-> "idle", user |-> None, list |-> <<>>, reply |-> <<>>, flush |-> FALSE,
         entry |-> NoEntry]
Resting == [pc |-> "idle", user |-> None, found |-> {}, list |-> <<>>]

Lists == {s \in BoundedSeq(Articles, SaveCount) : IsInjective(s)}

(* what the scores can make of the articles the candidate found: those with
   the highest, SaveCount at most *)
Orders(found) ==
  {s \in Lists : /\ ToSet(s) \subseteq found
                 /\ Len(s) = SaveCount \/ ToSet(s) = found}

(* what a feedback may hold: articles taken from the cache or reported *)
Pushed == Lists \cup Reported

Init == /\ cache = [u \in Users |-> NoEntry]
        /\ flag = [u \in Users |-> None]
        /\ queue = <<>>
        /\ proc = [p \in Procs |-> Idle]
        /\ flusher = [f \in Flushers |-> Resting]
        /\ save = NoRecord /\ send = NoRecord /\ sent = "reading"
        /\ told = [u \in Users |-> {}]
        /\ queries = 0 /\ crashes = 0
        /\ shown = [u \in Users |-> {}]

-----------------------------------------------------------------------------
(* now passes the entry's flush time, or the minute after its last search *)
Expire(u) == /\ cache[u].fresh
             /\ cache' = [cache EXCEPT ![u].fresh = FALSE]
             /\ UNCHANGED <<flag, queue, proc, flusher, files, told, bounds, shown>>

Minute(u) == /\ cache[u].recent
             /\ cache' = [cache EXCEPT ![u].recent = FALSE]
             /\ UNCHANGED <<flag, queue, proc, flusher, files, told, bounds, shown>>

-----------------------------------------------------------------------------
(* process_query(task) *)
Query(p) ==
  /\ proc[p].pc = "idle"
  /\ queries < MaxQueries
  /\ queries' = queries + 1
  /\ \E u \in Users : proc' = [proc EXCEPT ![p] = [Idle EXCEPT !.pc = "flag", !.user = u]]
  /\ UNCHANGED <<cache, flag, queue, flusher, files, told, crashes, shown>>

(* process_feedback(task): a client reports what its user was shown; nobody
   takes the flag for it *)
ClientFeedback(p) ==
  /\ proc[p].pc = "idle"
  /\ queries < MaxQueries
  /\ queries' = queries + 1
  /\ \E u \in Users, l \in Reported :
       proc' = [proc EXCEPT ![p] = [Idle EXCEPT !.pc = "save client's", !.user = u, !.list = l]]
  /\ UNCHANGED <<cache, flag, queue, flusher, files, told, crashes, shown>>

(* mutant: the flag is not waited for *)
AddFlagNoWait(p) ==
  /\ proc[p].pc = "flag"
  /\ flag' = [flag EXCEPT ![proc[p].user] = p]
  /\ proc' = [proc EXCEPT ![p].pc = "get"]
  /\ UNCHANGED <<cache, queue, flusher, files, told, bounds, shown>>

(* while(m_flags.add(user_id)) cp_sleep(1) *)
AddFlag(p) ==
  /\ proc[p].pc = "flag"
  /\ flag[proc[p].user] = None
  /\ flag' = [flag EXCEPT ![proc[p].user] = p]
  /\ proc' = [proc EXCEPT ![p].pc = "get"]
  /\ UNCHANGED <<cache, queue, flusher, files, told, bounds, shown>>

(* The outcome of CF_framework_cache::get for entry e when n articles are
   asked for: what it takes, what it writes back, and what process_query makes
   of the returned is_flush - whether the user is told, whether the cache is
   flushed.  When few remain less than a minute after the last flush, is_flush
   is never assigned: any value may be there. *)
Got(e, n) ==
  LET k == IF n < Len(e.list) THEN n ELSE Len(e.list)
      taken == SubSeq(e.list, 1, k)
      rest == SubSeq(e.list, k + 1, Len(e.list))
      few == Len(rest) <= FlushCount
  IN CASE ~e.known -> {[list |-> <<>>, reply |-> <<>>, flush |-> TRUE, entry |-> e]}
       [] e.known /\ ~e.fresh ->
            {[list |-> <<>>, reply |-> <<>>, flush |-> ~e.recent,
              entry |-> [e EXCEPT !.list = <<>>, !.recent = TRUE]]}
       [] e.known /\ e.fresh /\ few /\ e.recent ->
            [list : {taken}, reply : {taken, <<>>}, flush : BOOLEAN,
             entry : {[e EXCEPT !.list = rest]}]
       [] OTHER ->
            {[list |-> taken, reply |-> taken, flush |-> few,
              entry |-> [e EXCEPT !.list = rest, !.recent = @ \/ few]]}

(* get: pop_value and the computation *)
CacheGet(p) ==
  /\ proc[p].pc = "get"
  /\ LET u == proc[p].user
     IN \E n \in Takes : \E g \in Got(cache[u], n) :
          /\ proc' = [proc EXCEPT ![p] = [pc |-> "add", user |-> u, list |-> g.list,
                                          reply |-> g.reply, flush |-> g.flush,
                                          entry |-> g.entry]]
  /\ UNCHANGED <<cache, flag, queue, flusher, files, told, bounds, shown>>

(* get: m_cache.add of what remains *)
CacheAdd(p) ==
  /\ proc[p].pc = "add"
  /\ LET u == proc[p].user
     IN cache' = IF proc[p].entry.known
                   THEN [cache EXCEPT ![u].list = proc[p].entry.list,
                                      ![u].recent = proc[p].entry.recent]
                   ELSE cache
  /\ proc' = [proc EXCEPT ![p].pc = IF proc[p].list = <<>> THEN "push" ELSE "save",
                          ![p].entry = NoEntry]
  /\ UNCHANGED <<flag, queue, flusher, files, told, bounds, shown>>

(* Eight-byte words behind the record of l when it is written over the file r:
   a record is a user's number, as many words as articles, and a mark. *)
Left(r, l) == IF r # NoRecord /\ Len(r.list) + r.left > Len(l) THEN Len(r.list) + r.left - Len(l)
                                                               ELSE 0

(* process_feedback: fopen(m_sync_save, "rb+") does not move to the end, so
   the record replaces the first one and leaves the end of a longer one behind
   it.  A write that fails is repeated, unless it fails in fclose.  Nothing is
   written of an empty list. *)
SaveFeedback(p) ==
  /\ proc[p].pc \in {"save", "save client's"}
  /\ \/ proc[p].list # <<>> /\ save' = [user |-> proc[p].user, list |-> proc[p].list,
                                       left |-> Left(save, proc[p].list)]
     \/ UNCHANGED save
  /\ proc' = [proc EXCEPT ![p].pc = IF @ = "save" THEN "tell" ELSE "tell client's"]
  /\ UNCHANGED <<cache, flag, queue, flusher, send, sent, told, bounds, shown>>

(* mutant: a failing candidate_feedback is not repeated *)
TellCandidateOnce(p) ==
  /\ proc[p].pc \in {"tell", "tell client's"}
  /\ \/ told' = [told EXCEPT ![proc[p].user] = @ \cup ToSet(proc[p].list)]
     \/ UNCHANGED told
  /\ proc' = [proc EXCEPT ![p].pc = IF @ = "tell" THEN "push" ELSE "reply",
                          ![p].list = <<>>]
  /\ UNCHANGED <<cache, flag, queue, flusher, files, bounds, shown>>

(* while(candidate_feedback(...)): the candidate takes it in, and its answer
   comes or is lost.  A call that does not reach it changes nothing. *)
TellCandidate(p) ==
  /\ proc[p].pc \in {"tell", "tell client's"}
  /\ told' = [told EXCEPT ![proc[p].user] = @ \cup ToSet(proc[p].list)]
  /\ \/ proc' = [proc EXCEPT ![p].pc = IF @ = "tell" THEN "push" ELSE "reply",
                             ![p].list = <<>>]
     \/ told' # told /\ UNCHANGED proc
  /\ UNCHANGED <<cache, flag, queue, flusher, files, bounds, shown>>

(* mutant: a full queue is not waited for *)
PushFlushAnyway(p) ==
  /\ proc[p].pc = "push"
  /\ queue' = IF proc[p].flush THEN Append(queue, proc[p].user) ELSE queue
  /\ proc' = [proc EXCEPT ![p].pc = "del"]
  /\ UNCHANGED <<cache, flag, flusher, files, told, bounds, shown>>

(* m_flushCache.PushData waits while the queue is full - holding the flag *)
PushFlush(p) ==
  /\ proc[p].pc = "push"
  /\ IF proc[p].flush
       THEN /\ Len(queue) < QueueSize
            /\ queue' = Append(queue, proc[p].user)
       ELSE UNCHANGED queue
  /\ proc' = [proc EXCEPT ![p].pc = "del"]
  /\ UNCHANGED <<cache, flag, flusher, files, told, bounds, shown>>

(* mutant: the flag stays *)
DelFlagNot(p) ==
  /\ proc[p].pc = "del"
  /\ proc' = [proc EXCEPT ![p].pc = "reply", ![p].flush = FALSE]
  /\ UNCHANGED <<cache, flag, queue, flusher, files, told, bounds, shown>>

DelFlag(p) ==
  /\ proc[p].pc = "del"
  /\ flag' = [flag EXCEPT ![proc[p].user] = None]
  /\ proc' = [proc EXCEPT ![p].pc = "reply", ![p].flush = FALSE]
  /\ UNCHANGED <<cache, queue, flusher, files, told, bounds, shown>>

(* thread_process sends the answer and closes *)
Reply(p) ==
  /\ proc[p].pc = "reply"
  /\ shown' = [shown EXCEPT ![proc[p].user] = @ \cup ToSet(proc[p].reply)]
  /\ proc' = [proc EXCEPT ![p] = Idle]
  /\ UNCHANGED <<cache, flag, queue, flusher, files, told, bounds>>

-----------------------------------------------------------------------------
(* thread_flushcache and process_query(uid, log) *)
PopFlush(f) ==
  /\ flusher[f].pc = "idle" /\ queue # <<>>
  /\ flusher' = [flusher EXCEPT ![f] = [Resting EXCEPT !.pc = "fetch", !.user = Head(queue)]]
  /\ queue' = Tail(queue)
  /\ UNCHANGED <<cache, flag, proc, files, told, bounds, shown>>

(* candidate_query: articles the user has not got; no answer or nothing to
   recommend ends the flush *)
Fetch(f) ==
  /\ flusher[f].pc = "fetch"
  /\ \/ \E S \in (SUBSET (Articles \ told[flusher[f].user])) \ {{}} :
          flusher' = [flusher EXCEPT ![f].pc = "rank", ![f].found = S]
     \/ flusher' = [flusher EXCEPT ![f] = Resting]
  /\ UNCHANGED <<cache, flag, queue, proc, files, told, bounds, shown>>

(* The modules are asked for their powers (ICM_Query_Processor); one that does
   not answer is left out of the sum. *)
Rank(f) ==
  /\ flusher[f].pc = "rank"
  /\ \E s \in Orders(flusher[f].found) :
       flusher' = [flusher EXCEPT ![f].pc = "flag", ![f].found = {}, ![f].list = s]
  /\ UNCHANGED <<cache, flag, queue, proc, files, told, bounds, shown>>

(* put_message or get_message fails *)
RankFails(f) ==
  /\ flusher[f].pc = "rank"
  /\ flusher' = [flusher EXCEPT ![f] = Resting]
  /\ UNCHANGED <<cache, flag, queue, proc, files, told, bounds, shown>>

FlushFlag(f) ==
  /\ flusher[f].pc = "flag"
  /\ flag[flusher[f].user] = None
  /\ flag' = [flag EXCEPT ![flusher[f].user] = f]
  /\ flusher' = [flusher EXCEPT ![f].pc = "put"]
  /\ UNCHANGED <<cache, queue, proc, files, told, bounds, shown>>

CachePut(f) ==
  /\ flusher[f].pc = "put"
  /\ LET u == flusher[f].user
     IN /\ cache' = [cache EXCEPT ![u] = [list |-> flusher[f].list, fresh |-> TRUE,
                                          recent |-> FALSE, known |-> TRUE]]
        /\ flag' = [flag EXCEPT ![u] = None]
  /\ flusher' = [flusher EXCEPT ![f] = Resting]
  /\ UNCHANGED <<queue, proc, files, told, bounds, shown>>

-----------------------------------------------------------------------------
(* thread_feedback: sync.save becomes sync.send when there is none.  After a
   restart the file is read again from the start. *)
RenameSave ==
  /\ send = NoRecord /\ save # NoRecord
  /\ send' = save /\ save' = NoRecord /\ sent' = "reading"
  /\ UNCHANGED <<cache, flag, queue, proc, flusher, told, bounds, shown>>

(* mutant: a failing candidate_feedback is skipped *)
ResendOnce ==
  /\ send # NoRecord /\ sent = "reading"
  /\ \/ told' = [told EXCEPT ![send.user] = @ \cup ToSet(send.list)]
     \/ UNCHANGED told
  /\ sent' = "told"
  /\ UNCHANGED <<cache, flag, queue, proc, flusher, save, send, bounds, shown>>

(* its record is repeated until the candidate confirms it *)
Resend ==
  /\ send # NoRecord /\ sent = "reading"
  /\ told' = [told EXCEPT ![send.user] = @ \cup ToSet(send.list)]
  /\ \/ sent' = "told"
     \/ told' # told /\ UNCHANGED sent
  /\ UNCHANGED <<cache, flag, queue, proc, flusher, save, send, bounds, shown>>

(* an fread fails: the loop ends *)
ReadFails ==
  /\ send # NoRecord /\ sent = "reading"
  /\ sent' = "unread"
  /\ UNCHANGED <<cache, flag, queue, proc, flusher, save, send, told, bounds, shown>>

(* What is left behind the record is read as a record of its own: its 12 bytes
   of user and number and the mark take 20 of the bytes left, so that three
   words are one without articles.  It says anything of anyone. *)
ReadLeft ==
  /\ send # NoRecord /\ sent = "told" /\ send.left > 2
  /\ \E u \in Users, S \in SUBSET Articles :
       /\ Cardinality(S) <= send.left - 3
       /\ told' = [told EXCEPT ![u] = @ \cup S]
  /\ UNCHANGED <<cache, flag, queue, proc, flusher, files, bounds, shown>>

(* the end of the loop, told or not: cp_remove_file, whose status is not looked
   at; a file that is still there is read again *)
RemoveSend ==
  /\ send # NoRecord /\ sent # "reading"
  /\ send' \in {NoRecord, send} /\ sent' = "reading"
  /\ UNCHANGED <<cache, flag, queue, proc, flusher, save, told, bounds, shown>>

(* The center dies and starts again: the cache's table and the files stay. *)
Crash ==
  /\ crashes < MaxCrashes
  /\ crashes' = crashes + 1
  /\ flag' = [u \in Users |-> None]
  /\ queue' = <<>>
  /\ proc' = [p \in Procs |-> Idle]
  /\ flusher' = [f \in Flushers |-> Resting]
  /\ sent' = "reading"
  /\ UNCHANGED <<cache, save, send, told, queries, shown>>

-----------------------------------------------------------------------------
Step(p) == \/ AddFlag(p) \/ CacheGet(p) \/ CacheAdd(p) \/ SaveFeedback(p)
           \/ TellCandidate(p) \/ PushFlush(p) \/ DelFlag(p) \/ Reply(p)

Refill(f) == \/ PopFlush(f) \/ Fetch(f) \/ Rank(f) \/ RankFails(f)
             \/ FlushFlag(f) \/ CachePut(f)

SendSaved == RenameSave \/ Resend \/ ReadFails \/ ReadLeft \/ RemoveSend

Next == \/ \E p \in Procs : Query(p) \/ ClientFeedback(p) \/ Step(p)
        \/ \E f \in Flushers : Refill(f)
        \/ \E u \in Users : Expire(u) \/ Minute(u)
        \/ SendSaved
        \/ Crash

(* Every thread goes on, and the candidate's answers are not lost for ever.
   Nothing orders the threads that wait for one flag: as long as queries end, a
   flag that stays free is taken. *)
Fairness == /\ \A p \in Procs : WF_vars(Step(p))
            /\ \A f \in Flushers : WF_vars(Refill(f))

Spec == Init /\ [][Next]_vars /\ Fairness

-----------------------------------------------------------------------------
Entries == [list : Lists, fresh : BOOLEAN, recent : BOOLEAN, known : BOOLEAN]

Doings == [pc : {"idle", "flag", "get", "add", "save", "tell", "push", "del", "reply",
                "save client's", "tell client's"},
           user : Users \cup {None}, list : Pushed, reply : Lists,
           flush : BOOLEAN, entry : Entries]
Refills == [pc : {"idle", "fetch", "rank", "flag", "put"},
            user : Users \cup {None}, found : SUBSET Articles, list : Lists]
Feedbacks == [user : Users \cup {None}, list : Pushed, left : Nat]

(* What each variable ranges over. *)
TypeOK ==
  /\ cache \in [Users -> Entries]
  /\ flag \in [Users -> Procs \cup Flushers \cup {None}]
  /\ queue \in Seq(Users) /\ Len(queue) <= QueueSize
  /\ proc \in [Procs -> Doings]
  /\ flusher \in [Flushers -> Refills]
  /\ save \in Feedbacks /\ send \in Feedbacks
  /\ sent \in {"reading", "told", "unread"}
  /\ told \in [Users -> SUBSET Articles]
  /\ queries \in 0..MaxQueries /\ crashes \in 0..MaxCrashes
  /\ shown \in [Users -> SUBSET Articles]

(* An answer reaches a user only after the candidate has taken in the feedback
   about every article in it, whatever crashes and whatever answer of the
   candidate is lost: process_query waits in process_feedback. *)
ShownWasTold == \A u \in Users : shown[u] \subseteq told[u]

(* The center keeps Recommender's promise: an article leaves a user's list with
   the one thread that takes it, though get() pops the value of the cache and
   adds the rest in a second step, and the answer waits for the feedback. *)
Holding(p) == proc[p].pc \in {"save", "tell", "push", "del", "reply"} /\ proc[p].reply # <<>>
Hand(p) == IF Holding(p) THEN [user |-> proc[p].user, list |-> proc[p].reply]
                         ELSE [user |-> None, list |-> <<>>]
Promise == INSTANCE Recommender WITH
  Calls <- Procs,
  list <- [u \in Users |-> cache[u].list],
  hand <- [p \in Procs |-> Hand(p)]
PromiseSpec == Promise!Spec

(* A saved feedback is not lost on its way through the two files: it leaves
   them only when the candidate has been told of it, or while the thread that
   saved it is still about to tell it.  Two ways out remain, in the code as
   here: thread_feedback removes the file after an fread that failed, and a
   feedback whose thread died in a crash can be written over by the next. *)
Told(r) == ToSet(r.list) \subseteq told[r.user]
InHand(r) == \E p \in Procs : /\ proc[p].pc \in {"tell", "tell client's"}
                              /\ proc[p].user = r.user /\ proc[p].list = r.list
Same(r, s) == r.user = s.user /\ r.list = s.list
FeedbackKept ==
  [][\A r \in {save, send} \ {NoRecord} :
       \/ Same(r, save') \/ Same(r, send') \/ Told(r)' \/ InHand(r)'
       \/ r = send /\ sent = "unread" /\ save' = save
       \/ r = save /\ crashes > 0 /\ ~InHand(r) /\ send' = send]_vars

(* Unless the flush queue fills up, every query that waits for its user's flag
   is answered: whoever holds a flag gives it back.  (When the queue is full
   the thread that waits in PushData holds the very flag that every flush
   thread may be waiting for.) *)
QueriesAnswered ==
  [](Len(queue) < QueueSize) => \A p \in Procs : proc[p].pc = "flag" ~> proc[p].pc = "idle"
=============================================================================
