-------------------------- MODULE CenterQueryProofs --------------------------
(***************************************************************************)
(* Theorems about the center's queries, for every number of threads, users *)
(* and articles and any number of crashes.                                 *)
(***************************************************************************)
EXTENDS CenterQuery, SequenceTheorems, TLAPS

-----------------------------------------------------------------------------
(* What a list of articles is, said without the set of all lists. *)
LEMMA ListsAre ==
  \A s : s \in Lists <=> s \in Seq(Articles) /\ Len(s) <= SaveCount /\ IsInjective(s)
<1> SUFFICES ASSUME NEW s
             PROVE  s \in BoundedSeq(Articles, SaveCount)
                      <=> s \in Seq(Articles) /\ Len(s) <= SaveCount
  BY DEF Lists
<1>1. SaveCount \in Nat
  BY CenterAssumption
<1>2. ASSUME s \in BoundedSeq(Articles, SaveCount)
      PROVE  s \in Seq(Articles) /\ Len(s) <= SaveCount
  <2> PICK m \in 0..SaveCount : s \in [1..m -> Articles]
    BY <1>2 DEF BoundedSeq, SeqOf
  <2> QED
    BY <1>1
<1>3. ASSUME s \in Seq(Articles), Len(s) <= SaveCount
      PROVE  s \in BoundedSeq(Articles, SaveCount)
  <2>1. Len(s) \in 0..SaveCount /\ s \in [1..Len(s) -> Articles]
    BY <1>1, <1>3, LenProperties
  <2> QED
    BY <2>1 DEF BoundedSeq, SeqOf
<1> QED
  BY <1>2, <1>3

(* The parts of a list are lists. *)
LEMMA PartsAreLists ==
  ASSUME NEW s \in Lists, NEW k \in 0..Len(s)
  PROVE  /\ SubSeq(s, 1, k) \in Lists /\ Len(SubSeq(s, 1, k)) = k
         /\ SubSeq(s, k + 1, Len(s)) \in Lists
<1>1. s \in Seq(Articles) /\ Len(s) <= SaveCount /\ IsInjective(s) /\ SaveCount \in Nat
  BY ListsAre, CenterAssumption
<1>2. Len(s) \in Nat /\ DOMAIN s = 1..Len(s)
  BY <1>1, LenProperties
<1>3. ASSUME NEW i \in Nat, NEW j \in Nat, 1 <= i, j <= Len(s), i <= j + 1
      PROVE  SubSeq(s, i, j) \in Lists
  <2>1. /\ SubSeq(s, i, j) \in Seq(Articles) /\ Len(SubSeq(s, i, j)) = j - i + 1
        /\ \A n \in 1..(j - i + 1) : SubSeq(s, i, j)[n] = s[i + n - 1]
    BY <1>1, <1>2, <1>3, SubSeqProperties
  <2>2. IsInjective(SubSeq(s, i, j))
    BY <1>1, <1>2, <1>3, <2>1, LenProperties, SMTT(20) DEF IsInjective
  <2>3. Len(SubSeq(s, i, j)) <= SaveCount
    BY <1>1, <1>2, <1>3, <2>1
  <2> QED
    BY <2>1, <2>2, <2>3, ListsAre, Zenon
<1>4. Len(SubSeq(s, 1, k)) = k
  BY <1>1, <1>2, SubSeqProperties
<1> QED
  BY <1>2, <1>3, <1>4

(* The empty list and a list of one article are lists. *)
LEMMA ShortLists == <<>> \in Lists /\ \A a \in Articles : <<a>> \in Lists
<1>1. SaveCount \in Nat /\ SaveCount >= 1
  BY CenterAssumption
<1>2. <<>> \in Seq(Articles) /\ Len(<<>>) <= SaveCount /\ IsInjective(<<>>)
  BY <1>1 DEF IsInjective
<1>3. ASSUME NEW a \in Articles
      PROVE  <<a>> \in Seq(Articles) /\ Len(<<a>>) <= SaveCount /\ IsInjective(<<a>>)
  BY <1>1 DEF IsInjective
<1> QED
  BY <1>2, <1>3, ListsAre, Zenon

(* What CF_framework_cache::get makes of an entry is of the right types. *)
LEMMA GotTypes ==
  ASSUME NEW e \in Entries, NEW n \in Takes, NEW g \in Got(e, n)
  PROVE  g.list \in Lists /\ g.reply \in Lists /\ g.flush \in BOOLEAN /\ g.entry \in Entries
<1> DEFINE k == IF n < Len(e.list) THEN n ELSE Len(e.list)
           rest == SubSeq(e.list, k + 1, Len(e.list))
<1>1. n \in Nat /\ FlushCount \in Nat
  BY CenterAssumption
<1>2. e.list \in Lists /\ Len(e.list) \in Nat
  BY ListsAre, LenProperties DEF Entries
<1>3. k \in 0..Len(e.list)
  BY <1>1, <1>2
<1>4. SubSeq(e.list, 1, k) \in Lists /\ rest \in Lists
  BY <1>2, <1>3, PartsAreLists
<1>5. <<>> \in Lists
  BY ShortLists
<1>6. /\ e.known \in BOOLEAN /\ e.fresh \in BOOLEAN /\ e.recent \in BOOLEAN
      /\ e = [list |-> e.list, fresh |-> e.fresh, recent |-> e.recent, known |-> e.known]
  BY DEF Entries
<1>7. (Len(rest) <= FlushCount) \in BOOLEAN
  OBVIOUS
<1> HIDE DEF k, rest
<1>8. CASE ~e.known
  <2>1. g = [list |-> <<>>, reply |-> <<>>, flush |-> TRUE, entry |-> e]
    BY <1>8 DEF Got
  <2> QED
    BY <2>1, <1>5
<1>9. CASE e.known /\ ~e.fresh
  <2>1. g = [list |-> <<>>, reply |-> <<>>, flush |-> ~e.recent,
              entry |-> [e EXCEPT !.list = <<>>, !.recent = TRUE]]
    BY <1>9 DEF Got
  <2>2. g.entry \in Entries
    BY <2>1, <1>5 DEF Entries
  <2> QED
    BY <2>1, <2>2, <1>5, <1>6
<1>10. CASE e.known /\ e.fresh /\ Len(rest) <= FlushCount /\ e.recent
  <2>1. g \in [list : {SubSeq(e.list, 1, k)}, reply : {SubSeq(e.list, 1, k), <<>>},
               flush : BOOLEAN, entry : {[e EXCEPT !.list = rest]}]
    BY <1>10 DEF Got, k, rest
  <2>2. [e EXCEPT !.list = rest] \in Entries
    BY <1>4 DEF Entries
  <2> QED
    BY <2>1, <2>2, <1>4, <1>5
<1>11. CASE e.known /\ e.fresh /\ ~(Len(rest) <= FlushCount /\ e.recent)
  <2>1. g = [list |-> SubSeq(e.list, 1, k), reply |-> SubSeq(e.list, 1, k),
             flush |-> Len(rest) <= FlushCount,
             entry |-> [e EXCEPT !.list = rest, !.recent = @ \/ Len(rest) <= FlushCount]]
    BY <1>11 DEF Got, k, rest
  <2>2. [e EXCEPT !.list = rest, !.recent = @ \/ Len(rest) <= FlushCount] \in Entries
    BY <1>4, <1>6 DEF Entries
  <2> QED
    BY <2>1, <2>2, <1>4, <1>7
<1> QED
  BY <1>6, <1>8, <1>9, <1>10, <1>11
-----------------------------------------------------------------------------
(* Who works for whom. *)
Busy ==
  /\ \A p \in Procs : proc[p].pc # "idle" => proc[p].user \in Users
  /\ \A f \in Flushers : flusher[f].pc # "idle" => flusher[f].user \in Users
  /\ save # NoRecord => save.user \in Users
  /\ send # NoRecord => send.user \in Users

(* Whoever is between adding a user's flag and deleting it has it. *)
Owned == {"get", "add", "save", "tell", "push", "del"}
Owner ==
  /\ \A p \in Procs : proc[p].pc \in Owned => flag[proc[p].user] = p
  /\ \A f \in Flushers : flusher[f].pc = "put" => flag[flusher[f].user] = f

(* What a thread is going to answer it has taken and will tell, or has told. *)
Telling ==
  \A p \in Procs :
    /\ proc[p].pc \in {"add", "save", "tell"} => proc[p].reply \in {<<>>, proc[p].list}
    /\ proc[p].pc \in {"save client's", "tell client's"} => proc[p].reply = <<>>
    /\ proc[p].pc \in {"push", "del", "reply"} =>
         ToSet(proc[p].reply) \subseteq told[proc[p].user]

(* Between get's two steps the list it has read stays in the cache: what it
   takes is the list's front, what it will put back the rest. *)
Parts(s, reply, rest) ==
  \E k \in 0..Len(s) : /\ rest = SubSeq(s, k + 1, Len(s))
                       /\ reply \in {<<>>, SubSeq(s, 1, k)}
Popped ==
  \A p \in Procs : proc[p].pc = "add" =>
    IF proc[p].entry.known
      THEN Parts(cache[proc[p].user].list, proc[p].reply, proc[p].entry.list)
      ELSE proc[p].reply = <<>>

(* A record that was confirmed is in the candidate's memory. *)
Sending == sent = "told" => send # NoRecord /\ ToSet(send.list) \subseteq told[send.user]

(* As long as nothing crashed, a saved record is one a thread is about to tell,
   or was told. *)
Saved == save # NoRecord /\ crashes = 0 => Told(save) \/ InHand(save)

IInv == TypeOK /\ Busy /\ Owner /\ Telling /\ Popped /\ Sending /\ Saved /\ ShownWasTold
-----------------------------------------------------------------------------
(* Process thread p goes on as r says, flush thread f as s says. *)
Moves(p, r) == r \in Doings /\ proc' = [proc EXCEPT ![p] = r]
Turns(f, s) == s \in Refills /\ flusher' = [flusher EXCEPT ![f] = s]

(* What is left of an older record is a number of words. *)
LEMMA LeftTypes ==
  ASSUME TypeOK, NEW l \in Pushed
  PROVE  Left(save, l) \in Nat
<1>1. \A k \in Pushed : Len(k) \in Nat
  BY ListsAre, CenterAssumption, LenProperties DEF Pushed
<1>2. save.left \in Nat /\ Len(save.list) \in Nat /\ Len(l) \in Nat
  BY <1>1 DEF TypeOK, Feedbacks
<1> QED
  BY <1>2 DEF Left

(* The records every thread starts from are of the right types. *)
LEMMA IdleTypes ==
  /\ NoEntry \in Entries /\ Resting \in Refills /\ NoRecord \in Feedbacks
  /\ \A u \in Users, l \in Pushed, c \in {"idle", "flag", "save client's"} :
       [Idle EXCEPT !.pc = c, !.user = u, !.list = l] \in Doings
  /\ \A u \in Users : [Idle EXCEPT !.pc = "flag", !.user = u] \in Doings
  /\ \A u \in Users : [Resting EXCEPT !.pc = "fetch", !.user = u] \in Refills
  /\ Idle \in Doings
<1>1. NoEntry \in Entries
  BY ShortLists DEF NoEntry, Entries
<1> QED
  BY <1>1, ShortLists DEF Resting, Refills, NoRecord, Feedbacks, Pushed, Idle, Doings

(* How a step of a process thread changes what it does. *)
LEMMA ProcMoves ==
  ASSUME TypeOK, Busy, NEW p \in Procs
  PROVE  /\ Query(p) => \E u \in Users : Moves(p, [Idle EXCEPT !.pc = "flag", !.user = u])
         /\ ClientFeedback(p) =>
              \E u \in Users, l \in Reported :
                Moves(p, [Idle EXCEPT !.pc = "save client's", !.user = u, !.list = l])
         /\ AddFlag(p) => Moves(p, [proc[p] EXCEPT !.pc = "get"])
         /\ CacheGet(p) =>
              \E n \in Takes : \E g \in Got(cache[proc[p].user], n) :
                Moves(p, [pc |-> "add", user |-> proc[p].user, list |-> g.list,
                          reply |-> g.reply, flush |-> g.flush, entry |-> g.entry])
         /\ CacheAdd(p) =>
              \E c \in {"push", "save"} :
                /\ c = "push" => proc[p].list = <<>>
                /\ Moves(p, [proc[p] EXCEPT !.pc = c, !.entry = NoEntry])
         /\ SaveFeedback(p) =>
              \/ proc[p].pc = "save" /\ Moves(p, [proc[p] EXCEPT !.pc = "tell"])
              \/ /\ proc[p].pc = "save client's"
                 /\ Moves(p, [proc[p] EXCEPT !.pc = "tell client's"])
         /\ TellCandidate(p) =>
              \/ Moves(p, proc[p])
              \/ proc[p].pc = "tell" /\ Moves(p, [proc[p] EXCEPT !.pc = "push", !.list = <<>>])
              \/ /\ proc[p].pc = "tell client's"
                 /\ Moves(p, [proc[p] EXCEPT !.pc = "reply", !.list = <<>>])
         /\ PushFlush(p) => Moves(p, [proc[p] EXCEPT !.pc = "del"])
         /\ DelFlag(p) => Moves(p, [proc[p] EXCEPT !.pc = "reply", !.flush = FALSE])
         /\ Reply(p) => Moves(p, Idle)
<1>1. proc \in [Procs -> Doings] /\ proc[p] \in Doings
  BY DEF TypeOK
<1>2. ASSUME Query(p)
      PROVE  \E u \in Users : Moves(p, [Idle EXCEPT !.pc = "flag", !.user = u])
  BY <1>2, IdleTypes DEF Query, Moves
<1>3. ASSUME ClientFeedback(p)
      PROVE  \E u \in Users, l \in Reported :
               Moves(p, [Idle EXCEPT !.pc = "save client's", !.user = u, !.list = l])
  <2>1. PICK u \in Users, l \in Reported :
          proc' = [proc EXCEPT ![p] = [Idle EXCEPT !.pc = "save client's", !.user = u,
                                                   !.list = l]]
    BY <1>3 DEF ClientFeedback
  <2>2. l \in Pushed
    BY DEF Pushed
  <2> QED
    BY <2>1, <2>2, IdleTypes DEF Moves
<1>4. ASSUME AddFlag(p)
      PROVE  Moves(p, [proc[p] EXCEPT !.pc = "get"])
  BY <1>1, <1>4 DEF AddFlag, Moves, Doings
<1>5. ASSUME CacheGet(p)
      PROVE  \E n \in Takes : \E g \in Got(cache[proc[p].user], n) :
               Moves(p, [pc |-> "add", user |-> proc[p].user, list |-> g.list,
                         reply |-> g.reply, flush |-> g.flush, entry |-> g.entry])
  <2>1. PICK n \in Takes :
          \E g \in Got(cache[proc[p].user], n) :
            proc' = [proc EXCEPT ![p] = [pc |-> "add", user |-> proc[p].user, list |-> g.list,
                         reply |-> g.reply, flush |-> g.flush, entry |-> g.entry]]
    BY <1>5 DEF CacheGet
  <2>4. PICK g \in Got(cache[proc[p].user], n) :
          proc' = [proc EXCEPT ![p] = [pc |-> "add", user |-> proc[p].user, list |-> g.list,
                         reply |-> g.reply, flush |-> g.flush, entry |-> g.entry]]
    BY <2>1
  <2>2. cache[proc[p].user] \in Entries
    BY <1>5 DEF TypeOK, Busy, CacheGet
  <2>3. g.list \in Lists /\ g.reply \in Lists /\ g.flush \in BOOLEAN /\ g.entry \in Entries
    BY <2>2, GotTypes
  <2> QED
    BY <1>1, <2>4, <2>3 DEF Moves, Doings, Pushed
<1>6. ASSUME CacheAdd(p)
      PROVE  \E c \in {"push", "save"} :
               /\ c = "push" => proc[p].list = <<>>
               /\ Moves(p, [proc[p] EXCEPT !.pc = c, !.entry = NoEntry])
  <2> DEFINE c == IF proc[p].list = <<>> THEN "push" ELSE "save"
  <2>1. c \in {"push", "save"} /\ (c = "push" => proc[p].list = <<>>)
    OBVIOUS
  <2>2. proc' = [proc EXCEPT ![p].pc = c, ![p].entry = NoEntry]
    BY <1>6 DEF CacheAdd
  <2> HIDE DEF c
  <2> DEFINE next == [proc[p] EXCEPT !.pc = c, !.entry = NoEntry]
  <2>3. next \in Doings
    BY <1>1, <2>1, IdleTypes, ZenonT(30) DEF Doings
  <2>4. proc' = [proc EXCEPT ![p] = next]
    BY <1>1, <2>2
  <2> HIDE DEF next
  <2>5. Moves(p, next)
    BY <2>3, <2>4 DEF Moves
  <2> QED
    BY <2>1, <2>5 DEF next
<1>7. ASSUME SaveFeedback(p)
      PROVE  \/ proc[p].pc = "save" /\ Moves(p, [proc[p] EXCEPT !.pc = "tell"])
             \/ /\ proc[p].pc = "save client's"
                /\ Moves(p, [proc[p] EXCEPT !.pc = "tell client's"])
  BY <1>1, <1>7 DEF SaveFeedback, Moves, Doings
<1>8. ASSUME TellCandidate(p)
      PROVE  \/ Moves(p, proc[p])
             \/ proc[p].pc = "tell" /\ Moves(p, [proc[p] EXCEPT !.pc = "push", !.list = <<>>])
             \/ /\ proc[p].pc = "tell client's"
                /\ Moves(p, [proc[p] EXCEPT !.pc = "reply", !.list = <<>>])
  BY <1>1, <1>8, ShortLists DEF TellCandidate, Moves, Doings, Pushed
<1>9. ASSUME PushFlush(p)
      PROVE  Moves(p, [proc[p] EXCEPT !.pc = "del"])
  BY <1>1, <1>9 DEF PushFlush, Moves, Doings
<1>10. ASSUME DelFlag(p)
       PROVE  Moves(p, [proc[p] EXCEPT !.pc = "reply", !.flush = FALSE])
  BY <1>1, <1>10 DEF DelFlag, Moves, Doings
<1>11. ASSUME Reply(p)
       PROVE  Moves(p, Idle)
  BY <1>11, IdleTypes DEF Reply, Moves
<1> QED
  BY <1>2, <1>3, <1>4, <1>5, <1>6, <1>7, <1>8, <1>9, <1>10, <1>11

(* How a step of a flush thread changes what it does. *)
LEMMA FlusherTurns ==
  ASSUME TypeOK, NEW f \in Flushers
  PROVE  /\ PopFlush(f) =>
              \E u \in Users : Turns(f, [Resting EXCEPT !.pc = "fetch", !.user = u])
         /\ Fetch(f) => \/ Turns(f, Resting)
                        \/ \E S \in SUBSET Articles :
                             Turns(f, [flusher[f] EXCEPT !.pc = "rank", !.found = S])
         /\ Rank(f) => \E s \in Lists :
              Turns(f, [flusher[f] EXCEPT !.pc = "flag", !.found = {}, !.list = s])
         /\ RankFails(f) => Turns(f, Resting)
         /\ FlushFlag(f) => Turns(f, [flusher[f] EXCEPT !.pc = "put"])
         /\ CachePut(f) => Turns(f, Resting)
<1>1. flusher \in [Flushers -> Refills] /\ flusher[f] \in Refills
  BY DEF TypeOK
<1>2. ASSUME PopFlush(f)
      PROVE  \E u \in Users : Turns(f, [Resting EXCEPT !.pc = "fetch", !.user = u])
  <2>1. queue \in Seq(Users) /\ queue # <<>>
    BY <1>2 DEF PopFlush, TypeOK
  <2>2. Head(queue) \in Users
    BY <2>1
  <2> QED
    BY <1>2, <2>2, IdleTypes DEF PopFlush, Turns
<1>3. ASSUME Fetch(f)
      PROVE  \/ Turns(f, Resting)
             \/ \E S \in SUBSET Articles :
                  Turns(f, [flusher[f] EXCEPT !.pc = "rank", !.found = S])
  <2>1. flusher' = [flusher EXCEPT ![f] = Resting]
        \/ \E S \in SUBSET Articles :
             flusher' = [flusher EXCEPT ![f].pc = "rank", ![f].found = S]
    BY <1>3 DEF Fetch
  <2>2. ASSUME NEW S \in SUBSET Articles,
               flusher' = [flusher EXCEPT ![f].pc = "rank", ![f].found = S]
        PROVE  Turns(f, [flusher[f] EXCEPT !.pc = "rank", !.found = S])
    BY <1>1, <2>2 DEF Turns, Refills
  <2> QED
    BY <2>1, <2>2, IdleTypes DEF Turns
<1>4. ASSUME Rank(f)
      PROVE  \E s \in Lists :
               Turns(f, [flusher[f] EXCEPT !.pc = "flag", !.found = {}, !.list = s])
  BY <1>1, <1>4 DEF Rank, Orders, Turns, Refills
<1>5. ASSUME RankFails(f)
      PROVE  Turns(f, Resting)
  BY <1>5, IdleTypes DEF RankFails, Turns
<1>6. ASSUME FlushFlag(f)
      PROVE  Turns(f, [flusher[f] EXCEPT !.pc = "put"])
  BY <1>1, <1>6 DEF FlushFlag, Turns, Refills
<1>7. ASSUME CachePut(f)
      PROVE  Turns(f, Resting)
  BY <1>7, IdleTypes DEF CachePut, Turns
<1> QED
  BY <1>2, <1>3, <1>4, <1>5, <1>6, <1>7

(* Whatever a process thread's step is, it gives the thread a next record. *)
LEMMA SomeMove ==
  ASSUME TypeOK, Busy, NEW p \in Procs, Query(p) \/ ClientFeedback(p) \/ Step(p)
  PROVE  \E r \in Doings : proc' = [proc EXCEPT ![p] = r]
<1>1. \A r : Moves(p, r) => r \in Doings /\ proc' = [proc EXCEPT ![p] = r]
  BY DEF Moves
<1>2. Query(p) \/ ClientFeedback(p) => \E r : Moves(p, r)
  BY ProcMoves, Zenon
<1>3. AddFlag(p) \/ CacheAdd(p) \/ SaveFeedback(p) => \E r : Moves(p, r)
  BY ProcMoves, Zenon
<1>4. CacheGet(p) => \E r : Moves(p, r)
  BY ProcMoves, Zenon
<1>5. TellCandidate(p) => \E r : Moves(p, r)
  BY ProcMoves, Zenon
<1>6. PushFlush(p) \/ DelFlag(p) \/ Reply(p) => \E r : Moves(p, r)
  BY ProcMoves, Zenon
<1> QED
  BY <1>1, <1>2, <1>3, <1>4, <1>5, <1>6 DEF Step

(* Every step changes what a thread does in one place, or not at all, or all
   threads die. *)
LEMMA ThreadTypes ==
  ASSUME TypeOK, Busy, Next
  PROVE  proc' \in [Procs -> Doings] /\ flusher' \in [Flushers -> Refills]
<1>1. ASSUME NEW p \in Procs, Query(p) \/ ClientFeedback(p) \/ Step(p)
      PROVE  proc' \in [Procs -> Doings] /\ flusher' \in [Flushers -> Refills]
  <2>1. \E r \in Doings : proc' = [proc EXCEPT ![p] = r]
    BY <1>1, SomeMove
  <2>2. flusher' = flusher
    BY <1>1 DEF Query, ClientFeedback, Step, AddFlag, CacheGet, CacheAdd, SaveFeedback,
                TellCandidate, PushFlush, DelFlag, Reply
  <2> QED
    BY <2>1, <2>2 DEF TypeOK
<1>2. ASSUME NEW f \in Flushers, Refill(f)
      PROVE  proc' \in [Procs -> Doings] /\ flusher' \in [Flushers -> Refills]
  <2>1. \E s \in Refills : flusher' = [flusher EXCEPT ![f] = s]
    BY <1>2, FlusherTurns, Zenon DEF Refill, Turns
  <2>2. proc' = proc
    BY <1>2 DEF Refill, PopFlush, Fetch, Rank, RankFails, FlushFlag, CachePut
  <2> QED
    BY <2>1, <2>2 DEF TypeOK
<1>3. ASSUME \/ \E u \in Users : Expire(u) \/ Minute(u)
             \/ SendSaved
      PROVE  proc' \in [Procs -> Doings] /\ flusher' \in [Flushers -> Refills]
  BY <1>3 DEF TypeOK, Expire, Minute, SendSaved, RenameSave, Resend, ReadFails, ReadLeft, RemoveSend
<1>4. ASSUME Crash
      PROVE  proc' \in [Procs -> Doings] /\ flusher' \in [Flushers -> Refills]
  BY <1>4, IdleTypes DEF Crash
<1> QED
  BY <1>1, <1>2, <1>3, <1>4 DEF Next

(* Every step leaves the shared variables within their types. *)
LEMMA SharedTypes ==
  ASSUME TypeOK, Busy, Next
  PROVE  /\ cache' \in [Users -> Entries]
         /\ flag' \in [Users -> Procs \cup Flushers \cup {None}]
         /\ queue' \in Seq(Users) /\ Len(queue') <= QueueSize
         /\ save' \in Feedbacks /\ send' \in Feedbacks /\ sent' \in {"reading", "told", "unread"}
         /\ told' \in [Users -> SUBSET Articles] /\ shown' \in [Users -> SUBSET Articles]
         /\ queries' \in 0..MaxQueries /\ crashes' \in 0..MaxCrashes
<1>1. cache' \in [Users -> Entries]
  <2>1. ASSUME NEW p \in Procs, CacheAdd(p)
        PROVE  cache' \in [Users -> Entries]
    <3>1. proc[p].entry \in Entries
      BY DEF TypeOK, Doings
    <3>2. \/ cache' = cache
          \/ cache' = [cache EXCEPT ![proc[p].user].list = proc[p].entry.list,
                                    ![proc[p].user].recent = proc[p].entry.recent]
      BY <2>1 DEF CacheAdd
    <3>3. cache \in [Users -> Entries] /\ proc[p].user \in Users
      BY <2>1 DEF TypeOK, Busy, CacheAdd
    <3>4. [cache[proc[p].user] EXCEPT !.list = proc[p].entry.list,
                                      !.recent = proc[p].entry.recent] \in Entries
      BY <3>1, <3>3 DEF Entries
    <3> QED
      BY <3>2, <3>3, <3>4
  <2>2. ASSUME NEW f \in Flushers, CachePut(f)
        PROVE  cache' \in [Users -> Entries]
    <3>1. flusher[f].list \in Lists
      BY DEF TypeOK, Refills
    <3> QED
      BY <2>2, <3>1 DEF TypeOK, CachePut, Entries
  <2>3. ASSUME NEW u \in Users, Expire(u) \/ Minute(u)
        PROVE  cache' \in [Users -> Entries]
    <3>1. cache \in [Users -> Entries] /\ cache[u] \in Entries
      BY DEF TypeOK
    <3>2. \/ cache' = [cache EXCEPT ![u].fresh = FALSE]
          \/ cache' = [cache EXCEPT ![u].recent = FALSE]
      BY <2>3 DEF Expire, Minute
    <3>3. [cache[u] EXCEPT !.fresh = FALSE] \in Entries
          /\ [cache[u] EXCEPT !.recent = FALSE] \in Entries
      BY <3>1 DEF Entries
    <3> QED
      BY <3>1, <3>2, <3>3
  <2>4. \/ cache' = cache
        \/ \E p \in Procs : CacheAdd(p)
        \/ \E f \in Flushers : CachePut(f)
        \/ \E u \in Users : Expire(u) \/ Minute(u)
    <3>1. ASSUME NEW p \in Procs, Query(p) \/ ClientFeedback(p) \/ Step(p), ~CacheAdd(p)
          PROVE  cache' = cache
      BY <3>1 DEF Query, ClientFeedback, Step, AddFlag, CacheGet, SaveFeedback,
                  TellCandidate, PushFlush, DelFlag, Reply
    <3>2. ASSUME NEW f \in Flushers, Refill(f), ~CachePut(f)
          PROVE  cache' = cache
      BY <3>2 DEF Refill, PopFlush, Fetch, Rank, RankFails, FlushFlag
    <3> QED
      BY <3>1, <3>2 DEF Next, SendSaved, RenameSave, Resend, ReadFails, ReadLeft, RemoveSend, Crash
  <2> QED
    BY <2>1, <2>2, <2>3, <2>4 DEF TypeOK
<1>2. flag' \in [Users -> Procs \cup Flushers \cup {None}]
  <2>1. flag \in [Users -> Procs \cup Flushers \cup {None}]
    BY DEF TypeOK
  <2>2. ASSUME NEW p \in Procs, Query(p) \/ ClientFeedback(p) \/ Step(p)
        PROVE  \/ flag' = flag
               \/ flag' = [flag EXCEPT ![proc[p].user] = p]
               \/ flag' = [flag EXCEPT ![proc[p].user] = None]
    BY <2>2, Zenon DEF Query, ClientFeedback, Step, AddFlag, CacheGet, CacheAdd, SaveFeedback,
                       TellCandidate, PushFlush, DelFlag, Reply
  <2>3. ASSUME NEW f \in Flushers, Refill(f)
        PROVE  \/ flag' = flag
               \/ flag' = [flag EXCEPT ![flusher[f].user] = f]
               \/ flag' = [flag EXCEPT ![flusher[f].user] = None]
    BY <2>3, Zenon DEF Refill, PopFlush, Fetch, Rank, RankFails, FlushFlag, CachePut
  <2>4. CASE \E u \in Users : Expire(u) \/ Minute(u)
    BY <2>1, <2>4 DEF Expire, Minute
  <2>5. CASE SendSaved
    BY <2>1, <2>5 DEF SendSaved, RenameSave, Resend, ReadFails, ReadLeft, RemoveSend
  <2>6. CASE Crash
    BY <2>6 DEF Crash
  <2>7. CASE \E p \in Procs : Query(p) \/ ClientFeedback(p) \/ Step(p)
    BY <2>1, <2>2, <2>7
  <2>8. CASE \E f \in Flushers : Refill(f)
    BY <2>1, <2>3, <2>8
  <2> QED
    BY <2>4, <2>5, <2>6, <2>7, <2>8, Zenon DEF Next
<1>3. queue' \in Seq(Users) /\ Len(queue') <= QueueSize
  <2>1. QueueSize \in Nat \ {0} /\ queue \in Seq(Users) /\ Len(queue) <= QueueSize
    BY CenterAssumption DEF TypeOK
  <2>2. ASSUME NEW p \in Procs, PushFlush(p)
        PROVE  queue' \in Seq(Users) /\ Len(queue') <= QueueSize
    <3>1. proc[p].user \in Users
      BY <2>2 DEF PushFlush, Busy
    <3>2. queue' = queue \/ (queue' = Append(queue, proc[p].user) /\ Len(queue) < QueueSize)
      BY <2>2 DEF PushFlush
    <3> QED
      BY <2>1, <3>1, <3>2
  <2>3. ASSUME NEW f \in Flushers, PopFlush(f)
        PROVE  queue' \in Seq(Users) /\ Len(queue') <= QueueSize
    <3>1. queue # <<>> /\ queue' = Tail(queue)
      BY <2>3 DEF PopFlush
    <3> QED
      BY <2>1, <3>1
  <2>4. \/ queue' = queue \/ queue' = <<>>
        \/ \E p \in Procs : PushFlush(p)
        \/ \E f \in Flushers : PopFlush(f)
    BY DEF Next, Query, ClientFeedback, Step, AddFlag, CacheGet, CacheAdd, SaveFeedback,
           TellCandidate, DelFlag, Reply, Refill, Fetch, Rank, RankFails, FlushFlag, CachePut,
           Expire, Minute, SendSaved, RenameSave, Resend, ReadFails, ReadLeft, RemoveSend, Crash
  <2>5. <<>> \in Seq(Users) /\ Len(<<>>) <= QueueSize
    BY <2>1
  <2> QED
    BY <2>1, <2>2, <2>3, <2>4, <2>5, Zenon
<1>4. save' \in Feedbacks /\ send' \in Feedbacks /\ sent' \in {"reading", "told", "unread"}
  <2>1. ASSUME NEW p \in Procs, Query(p) \/ ClientFeedback(p) \/ Step(p)
        PROVE  save' \in Feedbacks /\ send' = send /\ sent' = sent
    <3>1. /\ proc[p].user \in Users \cup {None} /\ proc[p].list \in Pushed
          /\ Left(save, proc[p].list) \in Nat
      BY LeftTypes DEF TypeOK, Doings
    <3>2. \/ save' = save
          \/ save' = [user |-> proc[p].user, list |-> proc[p].list,
                      left |-> Left(save, proc[p].list)]
      BY <2>1 DEF Query, ClientFeedback, Step, AddFlag, CacheGet, CacheAdd, SaveFeedback,
                  TellCandidate, PushFlush, DelFlag, Reply, files
    <3>3. send' = send /\ sent' = sent
      BY <2>1 DEF Query, ClientFeedback, Step, AddFlag, CacheGet, CacheAdd, SaveFeedback,
                  TellCandidate, PushFlush, DelFlag, Reply, files
    <3> QED
      BY <3>1, <3>2, <3>3 DEF TypeOK, Feedbacks
  <2>2. ASSUME NEW f \in Flushers, Refill(f)
        PROVE  save' = save /\ send' = send /\ sent' = sent
    BY <2>2 DEF Refill, PopFlush, Fetch, Rank, RankFails, FlushFlag, CachePut, files
  <2>3. ASSUME \/ \E u \in Users : Expire(u) \/ Minute(u)
               \/ SendSaved \/ Crash
        PROVE  save' \in Feedbacks /\ send' \in Feedbacks /\ sent' \in {"reading", "told", "unread"}
    BY <2>3, IdleTypes DEF TypeOK, Expire, Minute, SendSaved, RenameSave, Resend, ReadFails, ReadLeft, RemoveSend, Crash, files
  <2> QED
    BY <2>1, <2>2, <2>3 DEF Next, TypeOK
<1>5. told' \in [Users -> SUBSET Articles] /\ shown' \in [Users -> SUBSET Articles]
  <2>1. ASSUME NEW s \in Lists \cup Pushed
        PROVE  ToSet(s) \subseteq Articles
    BY ListsAre, CenterAssumption DEF ToSet, Pushed
  <2>2. ASSUME NEW p \in Procs, Query(p) \/ ClientFeedback(p) \/ Step(p)
        PROVE  told' \in [Users -> SUBSET Articles] /\ shown' \in [Users -> SUBSET Articles]
    <3>1. ToSet(proc[p].list) \subseteq Articles /\ ToSet(proc[p].reply) \subseteq Articles
      BY <2>1 DEF TypeOK, Doings
    <3> DEFINE S == ToSet(proc[p].list)
               T == ToSet(proc[p].reply)
    <3>2. \/ told' = told
          \/ told' = [told EXCEPT ![proc[p].user] = @ \cup S]
      BY <2>2 DEF Query, ClientFeedback, Step, AddFlag, CacheGet, CacheAdd, SaveFeedback,
                  TellCandidate, PushFlush, DelFlag, Reply
    <3>3. \/ shown' = shown
          \/ shown' = [shown EXCEPT ![proc[p].user] = @ \cup T]
      BY <2>2 DEF Query, ClientFeedback, Step, AddFlag, CacheGet, CacheAdd, SaveFeedback,
                  TellCandidate, PushFlush, DelFlag, Reply
    <3> HIDE DEF S, T
    <3> QED
      BY <3>1, <3>2, <3>3 DEF TypeOK, S, T
  <2>3. ASSUME NEW f \in Flushers, Refill(f)
        PROVE  told' = told /\ shown' = shown
    BY <2>3 DEF Refill, PopFlush, Fetch, Rank, RankFails, FlushFlag, CachePut
  <2>4. ASSUME Resend
        PROVE  told' \in [Users -> SUBSET Articles] /\ shown' = shown
    <3>1. ToSet(send.list) \subseteq Articles
      BY <2>1 DEF TypeOK, Feedbacks
    <3> DEFINE S == ToSet(send.list)
    <3>2. told' = [told EXCEPT ![send.user] = @ \cup S] /\ shown' = shown
      BY <2>4 DEF Resend
    <3> HIDE DEF S
    <3> QED
      BY <3>1, <3>2 DEF TypeOK, S
  <2>5. ASSUME \/ \E u \in Users : Expire(u) \/ Minute(u)
               \/ RenameSave \/ ReadFails \/ RemoveSend \/ Crash
        PROVE  told' = told /\ shown' = shown
    BY <2>5 DEF Expire, Minute, RenameSave, ReadFails, RemoveSend, Crash
  <2>6. ASSUME ReadLeft
        PROVE  told' \in [Users -> SUBSET Articles] /\ shown' = shown
    BY <2>6 DEF ReadLeft, TypeOK
  <2> QED
    BY <2>2, <2>3, <2>4, <2>5, <2>6 DEF Next, SendSaved, TypeOK
<1>6. queries' \in 0..MaxQueries /\ crashes' \in 0..MaxCrashes
  <2>1. ASSUME NEW p \in Procs, Query(p) \/ ClientFeedback(p) \/ Step(p)
        PROVE  /\ queries' = queries \/ (queries < MaxQueries /\ queries' = queries + 1)
               /\ crashes' = crashes
    BY <2>1 DEF Query, ClientFeedback, Step, AddFlag, CacheGet, CacheAdd, SaveFeedback,
                TellCandidate, PushFlush, DelFlag, Reply, bounds
  <2>2. ASSUME NEW f \in Flushers, Refill(f)
        PROVE  queries' = queries /\ crashes' = crashes
    BY <2>2 DEF Refill, PopFlush, Fetch, Rank, RankFails, FlushFlag, CachePut, bounds
  <2>3. ASSUME \/ \E u \in Users : Expire(u) \/ Minute(u)
               \/ SendSaved \/ Crash
        PROVE  /\ crashes' = crashes \/ (crashes < MaxCrashes /\ crashes' = crashes + 1)
               /\ queries' = queries
    BY <2>3 DEF Expire, Minute, SendSaved, RenameSave, Resend, ReadFails, ReadLeft, RemoveSend, Crash, bounds
  <2>4. queries \in 0..MaxQueries /\ crashes \in 0..MaxCrashes
        /\ MaxQueries \in Nat /\ MaxCrashes \in Nat
    BY CenterAssumption DEF TypeOK
  <2>5. /\ queries' = queries \/ (queries < MaxQueries /\ queries' = queries + 1)
        /\ crashes' = crashes \/ (crashes < MaxCrashes /\ crashes' = crashes + 1)
    BY <2>1, <2>2, <2>3 DEF Next
  <2> QED
    BY <2>4, <2>5
<1> QED
  BY <1>1, <1>2, <1>3, <1>4, <1>5, <1>6

(* Every step keeps the types. *)
LEMMA TypeStep ==
  ASSUME TypeOK, Busy, [Next]_vars
  PROVE  TypeOK'
<1>1. CASE Next
  BY <1>1, ThreadTypes, SharedTypes DEF TypeOK
<1>2. CASE UNCHANGED vars
  BY <1>2 DEF TypeOK, vars, files, bounds
<1> QED
  BY <1>1, <1>2

-----------------------------------------------------------------------------
(* The other threads go on with what they do. *)
LEMMA OthersKeep ==
  /\ \A p \in Procs : TypeOK /\ Busy /\ (Query(p) \/ ClientFeedback(p) \/ Step(p)) =>
       /\ \A q \in Procs \ {p} : proc'[q] = proc[q]
       /\ flusher' = flusher
  /\ \A f \in Flushers : TypeOK /\ Refill(f) =>
       /\ \A g \in Flushers \ {f} : flusher'[g] = flusher[g]
       /\ proc' = proc
<1>1. ASSUME NEW p \in Procs, TypeOK, Busy, Query(p) \/ ClientFeedback(p) \/ Step(p)
      PROVE  (\A q \in Procs \ {p} : proc'[q] = proc[q]) /\ flusher' = flusher
  <2>1. \E r : proc' = [proc EXCEPT ![p] = r]
    BY <1>1, SomeMove
  <2>2. flusher' = flusher
    BY <1>1 DEF Query, ClientFeedback, Step, AddFlag, CacheGet, CacheAdd, SaveFeedback,
                TellCandidate, PushFlush, DelFlag, Reply
  <2>3. PICK r : proc' = [proc EXCEPT ![p] = r]
    BY <2>1
  <2>4. proc \in [Procs -> Doings]
    BY <1>1 DEF TypeOK
  <2>5. \A q \in Procs \ {p} : proc'[q] = proc[q]
    BY <2>3, <2>4
  <2> QED
    BY <2>2, <2>5
<1>2. ASSUME NEW f \in Flushers, TypeOK, Refill(f)
      PROVE  (\A g \in Flushers \ {f} : flusher'[g] = flusher[g]) /\ proc' = proc
  <2>1. \E s : flusher' = [flusher EXCEPT ![f] = s]
    BY <1>2, FlusherTurns, Zenon DEF Refill, Turns
  <2>2. proc' = proc
    BY <1>2 DEF Refill, PopFlush, Fetch, Rank, RankFails, FlushFlag, CachePut
  <2> QED
    BY <1>2, <2>1, <2>2 DEF TypeOK
<1> QED
  BY <1>1, <1>2

(* What a step leaves in the hands of its own thread. *)
LEMMA OwnProc ==
  ASSUME TypeOK, Busy, NEW p \in Procs
  PROVE  /\ Query(p) => proc'[p].pc = "flag" /\ proc'[p].user \in Users
         /\ ClientFeedback(p) => /\ proc'[p].pc = "save client's" /\ proc'[p].user \in Users
                                 /\ proc'[p].reply = <<>>
         /\ AddFlag(p) => proc'[p].pc = "get" /\ proc'[p].user = proc[p].user
         /\ CacheGet(p) =>
              /\ proc'[p].pc = "add" /\ proc'[p].user = proc[p].user
              /\ \E n \in Takes : \E g \in Got(cache[proc[p].user], n) :
                   /\ proc'[p].list = g.list /\ proc'[p].reply = g.reply
                   /\ proc'[p].entry = g.entry
         /\ CacheAdd(p) =>
              /\ \/ proc'[p].pc = "push" /\ proc[p].list = <<>>
                 \/ proc'[p].pc = "save"
              /\ proc'[p].user = proc[p].user /\ proc'[p].list = proc[p].list
              /\ proc'[p].reply = proc[p].reply
         /\ SaveFeedback(p) =>
              /\ \/ proc[p].pc = "save" /\ proc'[p].pc = "tell"
                 \/ proc[p].pc = "save client's" /\ proc'[p].pc = "tell client's"
              /\ proc'[p].user = proc[p].user /\ proc'[p].list = proc[p].list
              /\ proc'[p].reply = proc[p].reply
         /\ TellCandidate(p) =>
              \/ proc'[p] = proc[p]
              \/ /\ \/ proc[p].pc = "tell" /\ proc'[p].pc = "push"
                    \/ proc[p].pc = "tell client's" /\ proc'[p].pc = "reply"
                 /\ proc'[p].user = proc[p].user /\ proc'[p].reply = proc[p].reply
         /\ PushFlush(p) => /\ proc'[p].pc = "del" /\ proc'[p].user = proc[p].user
                            /\ proc'[p].reply = proc[p].reply
         /\ DelFlag(p) => /\ proc'[p].pc = "reply" /\ proc'[p].user = proc[p].user
                          /\ proc'[p].reply = proc[p].reply
         /\ Reply(p) => proc'[p] = Idle
<1>1. proc \in [Procs -> Doings] /\ proc[p] \in Doings
  BY DEF TypeOK
<1>2. ASSUME NEW r, Moves(p, r)
      PROVE  proc'[p] = r
  BY <1>1, <1>2 DEF Moves
<1>3. Query(p) => proc'[p].pc = "flag" /\ proc'[p].user \in Users
  <2>1. ASSUME Query(p)
        PROVE  \E u \in Users : proc'[p] = [Idle EXCEPT !.pc = "flag", !.user = u]
    BY <2>1, <1>2, ProcMoves
  <2> QED
    BY <2>1 DEF Idle
<1>4. ClientFeedback(p) => /\ proc'[p].pc = "save client's" /\ proc'[p].user \in Users
                           /\ proc'[p].reply = <<>>
  <2>1. ASSUME ClientFeedback(p)
        PROVE  \E u \in Users, l \in Reported :
                 proc'[p] = [Idle EXCEPT !.pc = "save client's", !.user = u, !.list = l]
    <3>1. PICK u \in Users, l \in Reported :
            Moves(p, [Idle EXCEPT !.pc = "save client's", !.user = u, !.list = l])
      BY <2>1, ProcMoves, Zenon
    <3> QED
      BY <1>2, <3>1
  <2> QED
    BY <2>1 DEF Idle
<1>5. AddFlag(p) => proc'[p].pc = "get" /\ proc'[p].user = proc[p].user
  BY <1>1, <1>2, ProcMoves DEF Doings
<1>6. CacheGet(p) =>
        /\ proc'[p].pc = "add" /\ proc'[p].user = proc[p].user
        /\ \E n \in Takes : \E g \in Got(cache[proc[p].user], n) :
             proc'[p].list = g.list /\ proc'[p].reply = g.reply /\ proc'[p].entry = g.entry
  <2>1. SUFFICES ASSUME CacheGet(p)
                 PROVE  /\ proc'[p].pc = "add" /\ proc'[p].user = proc[p].user
                        /\ \E n \in Takes : \E g \in Got(cache[proc[p].user], n) :
                             /\ proc'[p].list = g.list /\ proc'[p].reply = g.reply
                             /\ proc'[p].entry = g.entry
    OBVIOUS
  <2>2. PICK n \in Takes :
          \E g \in Got(cache[proc[p].user], n) :
            Moves(p, [pc |-> "add", user |-> proc[p].user, list |-> g.list,
                      reply |-> g.reply, flush |-> g.flush, entry |-> g.entry])
    BY <2>1, ProcMoves, Zenon
  <2>3. PICK g \in Got(cache[proc[p].user], n) :
          proc'[p] = [pc |-> "add", user |-> proc[p].user, list |-> g.list,
                      reply |-> g.reply, flush |-> g.flush, entry |-> g.entry]
    BY <1>2, <2>2
  <2> QED
    BY <2>3
<1>7. CacheAdd(p) =>
        /\ \/ proc'[p].pc = "push" /\ proc[p].list = <<>>
           \/ proc'[p].pc = "save"
        /\ proc'[p].user = proc[p].user /\ proc'[p].list = proc[p].list
        /\ proc'[p].reply = proc[p].reply
  <2>1. CacheAdd(p) =>
          \E c \in {"push", "save"} : /\ c = "push" => proc[p].list = <<>>
                                      /\ Moves(p, [proc[p] EXCEPT !.pc = c, !.entry = NoEntry])
    BY ProcMoves, Zenon
  <2> QED
    BY <1>1, <1>2, <2>1 DEF Doings
<1>8. SaveFeedback(p) =>
        /\ \/ proc[p].pc = "save" /\ proc'[p].pc = "tell"
           \/ proc[p].pc = "save client's" /\ proc'[p].pc = "tell client's"
        /\ proc'[p].user = proc[p].user /\ proc'[p].list = proc[p].list
        /\ proc'[p].reply = proc[p].reply
  <2>1. SaveFeedback(p) =>
          \/ proc[p].pc = "save" /\ Moves(p, [proc[p] EXCEPT !.pc = "tell"])
          \/ proc[p].pc = "save client's" /\ Moves(p, [proc[p] EXCEPT !.pc = "tell client's"])
    BY ProcMoves, Zenon
  <2> QED
    BY <1>1, <1>2, <2>1 DEF Doings
<1>9. TellCandidate(p) =>
        \/ proc'[p] = proc[p]
        \/ /\ \/ proc[p].pc = "tell" /\ proc'[p].pc = "push"
              \/ proc[p].pc = "tell client's" /\ proc'[p].pc = "reply"
           /\ proc'[p].user = proc[p].user /\ proc'[p].reply = proc[p].reply
  <2>1. TellCandidate(p) =>
          \/ Moves(p, proc[p])
          \/ proc[p].pc = "tell" /\ Moves(p, [proc[p] EXCEPT !.pc = "push", !.list = <<>>])
          \/ /\ proc[p].pc = "tell client's"
             /\ Moves(p, [proc[p] EXCEPT !.pc = "reply", !.list = <<>>])
    BY ProcMoves, Zenon
  <2> QED
    BY <1>1, <1>2, <2>1 DEF Doings
<1>10. PushFlush(p) => /\ proc'[p].pc = "del" /\ proc'[p].user = proc[p].user
                       /\ proc'[p].reply = proc[p].reply
  <2>1. PushFlush(p) => Moves(p, [proc[p] EXCEPT !.pc = "del"])
    BY ProcMoves, Zenon
  <2> QED
    BY <1>1, <1>2, <2>1 DEF Doings
<1>11. DelFlag(p) => /\ proc'[p].pc = "reply" /\ proc'[p].user = proc[p].user
                     /\ proc'[p].reply = proc[p].reply
  <2>1. DelFlag(p) => Moves(p, [proc[p] EXCEPT !.pc = "reply", !.flush = FALSE])
    BY ProcMoves, Zenon
  <2> QED
    BY <1>1, <1>2, <2>1 DEF Doings
<1>12. Reply(p) => proc'[p] = Idle
  BY <1>2, ProcMoves
<1> QED
  BY <1>3, <1>4, <1>5, <1>6, <1>7, <1>8, <1>9, <1>10, <1>11, <1>12

(* The same for a flush thread. *)
LEMMA OwnFlusher ==
  ASSUME TypeOK, NEW f \in Flushers
  PROVE  /\ PopFlush(f) => flusher'[f].pc = "fetch" /\ flusher'[f].user \in Users
         /\ Fetch(f) \/ Rank(f) \/ RankFails(f) =>
              \/ flusher'[f] = Resting
              \/ /\ flusher'[f].pc \in {"rank", "flag"} /\ flusher[f].pc # "idle"
                 /\ flusher'[f].user = flusher[f].user
         /\ FlushFlag(f) => flusher'[f].pc = "put" /\ flusher'[f].user = flusher[f].user
         /\ CachePut(f) => flusher'[f] = Resting
<1>1. flusher \in [Flushers -> Refills] /\ flusher[f] \in Refills
  BY DEF TypeOK
<1>2. ASSUME NEW s, Turns(f, s)
      PROVE  flusher'[f] = s
  BY <1>1, <1>2 DEF Turns
<1>3. PopFlush(f) => flusher'[f].pc = "fetch" /\ flusher'[f].user \in Users
  <2>1. PopFlush(f) => \E u \in Users : Turns(f, [Resting EXCEPT !.pc = "fetch", !.user = u])
    BY FlusherTurns, Zenon
  <2> QED
    BY <1>2, <2>1 DEF Resting
<1>4. ASSUME Fetch(f) \/ Rank(f) \/ RankFails(f)
      PROVE  \/ flusher'[f] = Resting
             \/ /\ flusher'[f].pc \in {"rank", "flag"} /\ flusher[f].pc # "idle"
                /\ flusher'[f].user = flusher[f].user
  <2>1. \/ Turns(f, Resting)
        \/ \E S \in SUBSET Articles : Turns(f, [flusher[f] EXCEPT !.pc = "rank", !.found = S])
        \/ \E s \in Lists : Turns(f, [flusher[f] EXCEPT !.pc = "flag", !.found = {}, !.list = s])
    BY <1>4, FlusherTurns, Zenon
  <2>2. flusher[f].pc # "idle"
    BY <1>4 DEF Fetch, Rank, RankFails
  <2> QED
    BY <1>1, <1>2, <2>1, <2>2 DEF Refills
<1>5. FlushFlag(f) => flusher'[f].pc = "put" /\ flusher'[f].user = flusher[f].user
  <2>1. FlushFlag(f) => Turns(f, [flusher[f] EXCEPT !.pc = "put"])
    BY FlusherTurns, Zenon
  <2> QED
    BY <1>1, <1>2, <2>1 DEF Refills
<1>6. CachePut(f) => flusher'[f] = Resting
  BY <1>2, FlusherTurns, Zenon
<1> QED
  BY <1>3, <1>4, <1>5, <1>6

-----------------------------------------------------------------------------
(* Whoever is at work works for a user, and so do the two feedback files. *)
LEMMA BusyStep ==
  ASSUME TypeOK, Busy, [Next]_vars
  PROVE  Busy'
<1>1. ASSUME NEW p \in Procs, Query(p) \/ ClientFeedback(p) \/ Step(p)
      PROVE  Busy'
  <2>1. proc'[p].pc # "idle" => proc'[p].user \in Users
    <3>1. CASE Query(p) \/ ClientFeedback(p)
      BY <3>1, OwnProc, Zenon
    <3>2. CASE Step(p)
      <4>1. proc[p].user \in Users
        BY <3>2 DEF Busy, Step, AddFlag, CacheGet, CacheAdd, SaveFeedback, TellCandidate,
                    PushFlush, DelFlag, Reply
      <4>2. proc'[p].user = proc[p].user \/ proc'[p] = Idle
        BY <3>2, OwnProc, Zenon DEF Step
      <4> QED
        BY <4>1, <4>2 DEF Idle
    <3> QED
      BY <1>1, <3>1, <3>2
  <2>2. (\A q \in Procs \ {p} : proc'[q] = proc[q]) /\ flusher' = flusher
    BY <1>1, OthersKeep, Zenon
  <2>3. save' # NoRecord => save'.user \in Users
    <3>1. save' = save \/ (SaveFeedback(p) /\ save'.user = proc[p].user)
      <4>1. CASE SaveFeedback(p)
        <5>1. \/ save' = save
              \/ save' = [user |-> proc[p].user, list |-> proc[p].list,
                          left |-> Left(save, proc[p].list)]
          BY <4>1, Zenon DEF SaveFeedback
        <5> QED
          BY <4>1, <5>1
      <4>2. CASE ~SaveFeedback(p)
        BY <1>1, <4>2 DEF Query, ClientFeedback, Step, AddFlag, CacheGet, CacheAdd,
                          TellCandidate, PushFlush, DelFlag, Reply, files
      <4> QED
        BY <4>1, <4>2
    <3>2. SaveFeedback(p) => proc[p].user \in Users
      BY DEF Busy, SaveFeedback
    <3> QED
      BY <3>1, <3>2 DEF Busy
  <2>4. send' = send
    BY <1>1 DEF Query, ClientFeedback, Step, AddFlag, CacheGet, CacheAdd, SaveFeedback,
                TellCandidate, PushFlush, DelFlag, Reply, files
  <2> QED
    BY <2>1, <2>2, <2>3, <2>4 DEF Busy
<1>2. ASSUME NEW f \in Flushers, Refill(f)
      PROVE  Busy'
  <2>1. flusher'[f].pc # "idle" => flusher'[f].user \in Users
    <3>1. \/ flusher'[f].user \in Users \/ flusher'[f] = Resting
          \/ flusher[f].pc # "idle" /\ flusher'[f].user = flusher[f].user
      <4>1. FlushFlag(f) => flusher[f].pc # "idle"
        BY DEF FlushFlag
      <4> QED
        BY <1>2, <4>1, OwnFlusher, Zenon DEF Refill
    <3> QED
      BY <3>1 DEF Busy, Resting
  <2>2. (\A g \in Flushers \ {f} : flusher'[g] = flusher[g]) /\ proc' = proc
    BY <1>2, OthersKeep, Zenon
  <2>3. save' = save /\ send' = send
    BY <1>2 DEF Refill, PopFlush, Fetch, Rank, RankFails, FlushFlag, CachePut, files
  <2> QED
    BY <2>1, <2>2, <2>3 DEF Busy
<1>3. ASSUME Crash
      PROVE  Busy'
  BY <1>3 DEF Busy, Crash, Idle, Resting
<1>4. ASSUME \/ \E u \in Users : Expire(u) \/ Minute(u)
             \/ SendSaved \/ UNCHANGED vars
      PROVE  Busy'
  BY <1>4 DEF Busy, Expire, Minute, SendSaved, RenameSave, Resend, ReadFails, ReadLeft, RemoveSend, vars, files
<1> QED
  BY <1>1, <1>2, <1>3, <1>4 DEF Next

(* The flag: nobody has it but the thread that added it. *)
LEMMA OwnerStep ==
  ASSUME TypeOK, Busy, Owner, [Next]_vars
  PROVE  Owner'
<1>0. /\ Procs \cap Flushers = {} /\ None \notin Procs \cup Flushers
      /\ flag \in [Users -> Procs \cup Flushers \cup {None}]
      /\ \A p \in Procs : proc[p].pc \in Owned => proc[p].user \in Users
      /\ \A f \in Flushers : flusher[f].pc \in {"flag", "put"} => flusher[f].user \in Users
  BY CenterAssumption DEF TypeOK, Busy, Owned
<1>1. ASSUME NEW p \in Procs, Query(p) \/ ClientFeedback(p) \/ Step(p)
      PROVE  Owner'
  <2>1. (\A q \in Procs \ {p} : proc'[q] = proc[q]) /\ flusher' = flusher
    BY <1>1, OthersKeep, Zenon
  <2>2. CASE AddFlag(p)
    <3>1. proc'[p].user = proc[p].user /\ proc[p].user \in Users
      BY <2>2, OwnProc, Zenon DEF Busy, AddFlag
    <3>2. flag[proc[p].user] = None /\ flag' = [flag EXCEPT ![proc[p].user] = p]
      BY <2>2 DEF AddFlag
    <3> QED
      BY <1>0, <2>1, <3>1, <3>2 DEF Owner
  <2>3. CASE DelFlag(p)
    <3>1. proc'[p].pc = "reply"
      BY <2>3, OwnProc, Zenon
    <3>2. /\ proc[p].user \in Users /\ flag[proc[p].user] = p
          /\ flag' = [flag EXCEPT ![proc[p].user] = None]
      BY <2>3, <1>0 DEF DelFlag, Owner, Owned
    <3> QED
      BY <1>0, <2>1, <3>1, <3>2 DEF Owner, Owned
  <2>4. CASE ~AddFlag(p) /\ ~DelFlag(p)
    <3>1. flag' = flag
      BY <1>1, <2>4 DEF Query, ClientFeedback, Step, CacheGet, CacheAdd, SaveFeedback,
                  TellCandidate, PushFlush, Reply
    <3>2. proc'[p].pc \in Owned => proc[p].pc \in Owned /\ proc'[p].user = proc[p].user
      <4>1. CASE Query(p) \/ ClientFeedback(p) \/ Reply(p)
        <5>1. proc'[p].pc \in {"flag", "save client's"} \/ proc'[p] = Idle
          BY <4>1, OwnProc, Zenon
        <5>2. Idle.pc = "idle"
          BY DEF Idle
        <5>3. proc'[p].pc \in {"flag", "save client's", "idle"}
          BY <5>1, <5>2
        <5> QED
          BY <5>3 DEF Owned
      <4>2. CASE CacheGet(p) \/ CacheAdd(p) \/ PushFlush(p)
        <5>1. proc'[p].user = proc[p].user
          BY <4>2, OwnProc, Zenon
        <5> QED
          BY <4>2, <5>1 DEF Owned, CacheGet, CacheAdd, PushFlush
      <4>3. CASE SaveFeedback(p) \/ TellCandidate(p)
        <5>1. \/ proc'[p] = proc[p]
              \/ proc[p].pc \in {"save", "tell"} /\ proc'[p].user = proc[p].user
              \/ proc'[p].pc \in {"tell client's", "reply"}
          BY <4>3, OwnProc
        <5> QED
          BY <5>1 DEF Owned
      <4> QED
        BY <1>1, <2>4, <4>1, <4>2, <4>3, Zenon DEF Step
    <3> QED
      BY <2>1, <3>1, <3>2 DEF Owner
  <2> QED
    BY <2>2, <2>3, <2>4
<1>2. ASSUME NEW f \in Flushers, Refill(f)
      PROVE  Owner'
  <2>1. (\A g \in Flushers \ {f} : flusher'[g] = flusher[g]) /\ proc' = proc
    BY <1>2, OthersKeep, Zenon
  <2>2. CASE FlushFlag(f)
    <3>1. flusher'[f].user = flusher[f].user /\ flusher[f].user \in Users
      BY <2>2, OwnFlusher, Zenon DEF Busy, FlushFlag
    <3>2. flag[flusher[f].user] = None /\ flag' = [flag EXCEPT ![flusher[f].user] = f]
      BY <2>2 DEF FlushFlag
    <3> QED
      BY <1>0, <2>1, <3>1, <3>2 DEF Owner
  <2>3. CASE CachePut(f)
    <3>1. flusher'[f].pc = "idle"
      <4>1. flusher'[f] = Resting
        BY <2>3, OwnFlusher, Zenon
      <4> QED
        BY <4>1 DEF Resting
    <3>2. /\ flusher[f].user \in Users /\ flag[flusher[f].user] = f
          /\ flag' = [flag EXCEPT ![flusher[f].user] = None]
      BY <2>3, <1>0 DEF CachePut, Owner
    <3> QED
      BY <1>0, <2>1, <3>1, <3>2 DEF Owner
  <2>4. CASE PopFlush(f) \/ Fetch(f) \/ Rank(f) \/ RankFails(f)
    <3>1. flag' = flag
      BY <2>4 DEF PopFlush, Fetch, Rank, RankFails
    <3>2. flusher'[f].pc # "put"
      <4>1. flusher'[f].pc \in {"fetch", "rank", "flag"} \/ flusher'[f] = Resting
        BY <2>4, OwnFlusher
      <4> QED
        BY <4>1 DEF Resting
    <3> QED
      BY <2>1, <3>1, <3>2 DEF Owner
  <2> QED
    BY <1>2, <2>2, <2>3, <2>4 DEF Refill
<1>3. ASSUME Crash
      PROVE  Owner'
  BY <1>3 DEF Owner, Owned, Crash, Idle, Resting
<1>4. ASSUME \/ \E u \in Users : Expire(u) \/ Minute(u)
             \/ SendSaved \/ UNCHANGED vars
      PROVE  Owner'
  BY <1>4 DEF Owner, Expire, Minute, SendSaved, RenameSave, Resend, ReadFails, ReadLeft, RemoveSend, vars, files
<1> QED
  BY <1>1, <1>2, <1>3, <1>4 DEF Next
-----------------------------------------------------------------------------
(* What get() returns and what it keeps are the two ends of the list it read;
   what process_query makes of it answers all of it or nothing. *)
LEMMA GotParts ==
  ASSUME NEW e \in Entries, NEW n \in Takes, NEW g \in Got(e, n)
  PROVE  /\ g.reply \in {<<>>, g.list} /\ g.entry.known = e.known
         /\ IF e.known THEN Parts(e.list, g.reply, g.entry.list) ELSE g.reply = <<>>
<1> DEFINE k == IF n < Len(e.list) THEN n ELSE Len(e.list)
           rest == SubSeq(e.list, k + 1, Len(e.list))
           few == Len(rest) <= FlushCount
<1>1. n \in Nat
  BY CenterAssumption
<1>2. e.list \in Seq(Articles) /\ Len(e.list) \in Nat
  BY ListsAre, LenProperties DEF Entries
<1>3. k \in 0..Len(e.list)
  BY <1>1, <1>2
<1>4. e \in [list : Lists, fresh : BOOLEAN, recent : BOOLEAN, known : BOOLEAN]
  BY DEF Entries
<1> HIDE DEF k, rest
<1>5. CASE ~e.known
  <2>1. g = [list |-> <<>>, reply |-> <<>>, flush |-> TRUE, entry |-> e]
    BY <1>5 DEF Got
  <2> QED
    BY <2>1, <1>5
<1>6. CASE e.known /\ ~e.fresh
  <2>1. g = [list |-> <<>>, reply |-> <<>>, flush |-> ~e.recent,
              entry |-> [e EXCEPT !.list = <<>>, !.recent = TRUE]]
    BY <1>6 DEF Got
  <2>2. g.entry.list = <<>> /\ g.entry.known = e.known
    BY <2>1, <1>4
  <2>3. SubSeq(e.list, Len(e.list) + 1, Len(e.list)) = <<>>
    BY <1>2, SubSeqEmpty
  <2>4. Len(e.list) \in 0..Len(e.list)
    BY <1>2
  <2> QED
    BY <2>1, <2>2, <2>3, <2>4, <1>6 DEF Parts
<1>7. CASE e.known /\ e.fresh /\ few /\ e.recent
  <2>1. g \in [list : {SubSeq(e.list, 1, k)}, reply : {SubSeq(e.list, 1, k), <<>>},
               flush : BOOLEAN, entry : {[e EXCEPT !.list = rest]}]
    BY <1>7 DEF Got, k, rest
  <2>2. g.entry.list = rest /\ g.entry.known = e.known
    BY <2>1, <1>4
  <2>3. rest = SubSeq(e.list, k + 1, Len(e.list))
    BY DEF rest
  <2> QED
    BY <2>1, <2>2, <2>3, <1>3, <1>7 DEF Parts
<1>8. CASE e.known /\ e.fresh /\ ~(few /\ e.recent)
  <2>1. g = [list |-> SubSeq(e.list, 1, k), reply |-> SubSeq(e.list, 1, k), flush |-> few,
             entry |-> [e EXCEPT !.list = rest, !.recent = @ \/ few]]
    BY <1>8 DEF Got, k, rest
  <2> HIDE DEF few
  <2>2. g.entry.list = rest /\ g.entry.known = e.known
    BY <2>1, <1>4
  <2>3. rest = SubSeq(e.list, k + 1, Len(e.list))
    BY DEF rest
  <2> QED
    BY <2>1, <2>2, <2>3, <1>3, <1>8 DEF Parts
<1> QED
  BY <1>4, <1>5, <1>6, <1>7, <1>8

(* The candidate forgets nothing. *)
LEMMA ToldGrows ==
  ASSUME TypeOK, Busy, [Next]_vars
  PROVE  \A u \in Users : told[u] \subseteq told'[u]
<1>1. ASSUME NEW p \in Procs, Query(p) \/ ClientFeedback(p) \/ Step(p)
      PROVE  \A u \in Users : told[u] \subseteq told'[u]
  <2> DEFINE S == ToSet(proc[p].list)
  <2>1. told' = told \/ told' = [told EXCEPT ![proc[p].user] = @ \cup S]
    BY <1>1 DEF Query, ClientFeedback, Step, AddFlag, CacheGet, CacheAdd, SaveFeedback,
                TellCandidate, PushFlush, DelFlag, Reply
  <2> HIDE DEF S
  <2> QED
    BY <2>1 DEF TypeOK
<1>2. ASSUME NEW f \in Flushers, Refill(f)
      PROVE  told' = told
  BY <1>2 DEF Refill, PopFlush, Fetch, Rank, RankFails, FlushFlag, CachePut
<1>3. ASSUME Resend
      PROVE  \A u \in Users : told[u] \subseteq told'[u]
  BY <1>3 DEF Resend, TypeOK
<1>4. ASSUME \/ \E u \in Users : Expire(u) \/ Minute(u)
             \/ RenameSave \/ ReadFails \/ RemoveSend \/ Crash \/ UNCHANGED vars
      PROVE  told' = told
  BY <1>4 DEF Expire, Minute, RenameSave, ReadFails, RemoveSend, Crash, vars
<1>5. ASSUME ReadLeft
      PROVE  \A u \in Users : told[u] \subseteq told'[u]
  BY <1>5 DEF ReadLeft, TypeOK
<1> QED
  BY <1>1, <1>2, <1>3, <1>4, <1>5 DEF Next, SendSaved

(* What a thread is going to answer stays taken and, from the telling on, told. *)
LEMMA TellingStep ==
  ASSUME TypeOK, Busy, Telling, [Next]_vars
  PROVE  Telling'
<1> DEFINE Tells(p) ==
      /\ proc[p].pc \in {"add", "save", "tell"} => proc[p].reply \in {<<>>, proc[p].list}
      /\ proc[p].pc \in {"save client's", "tell client's"} => proc[p].reply = <<>>
      /\ proc[p].pc \in {"push", "del", "reply"} =>
           ToSet(proc[p].reply) \subseteq told[proc[p].user]
<1>1. ASSUME NEW q \in Procs, proc'[q] = proc[q]
      PROVE  Tells(q)'
  <2>1. told[proc[q].user] \subseteq told'[proc[q].user] \/ proc[q].pc = "idle"
    BY ToldGrows DEF Busy
  <2> QED
    BY <1>1, <2>1 DEF Telling
<1>2. ASSUME NEW q \in Procs, proc'[q] = Idle
      PROVE  Tells(q)'
  <2>1. Idle.pc = "idle"
    BY DEF Idle
  <2> QED
    BY <1>2, <2>1
<1>3. ToSet(<<>>) = {}
  BY DEF ToSet
<1>4. ASSUME NEW p \in Procs, Query(p) \/ ClientFeedback(p) \/ Step(p)
      PROVE  Telling'
  <2>1. \A q \in Procs \ {p} : proc'[q] = proc[q]
    BY <1>4, OthersKeep, Zenon
  <2>2. Tells(p)'
    <3>1. CASE Query(p) \/ AddFlag(p)
      <4>1. proc'[p].pc \in {"flag", "get"}
        BY <3>1, OwnProc
      <4> QED
        BY <4>1
    <3>2. CASE ClientFeedback(p)
      <4>1. proc'[p].pc = "save client's" /\ proc'[p].reply = <<>>
        BY <3>2, OwnProc, Zenon
      <4> QED
        BY <4>1
    <3>3. CASE CacheGet(p)
      <4>1. PICK n \in Takes :
              \E g \in Got(cache[proc[p].user], n) :
                 /\ proc'[p].pc = "add"
                 /\ proc'[p].list = g.list /\ proc'[p].reply = g.reply
        BY <3>3, OwnProc, Zenon
      <4>2. PICK g \in Got(cache[proc[p].user], n) :
               /\ proc'[p].pc = "add"
               /\ proc'[p].list = g.list /\ proc'[p].reply = g.reply
        BY <4>1
      <4>3. cache[proc[p].user] \in Entries
        BY <3>3 DEF CacheGet, Busy, TypeOK
      <4>4. g.reply \in {<<>>, g.list}
        BY <4>3, GotParts
      <4> QED
        BY <4>2, <4>4
    <3>4. CASE CacheAdd(p)
      <4>1. /\ \/ proc'[p].pc = "push" /\ proc[p].list = <<>>
               \/ proc'[p].pc = "save"
            /\ proc'[p].list = proc[p].list /\ proc'[p].reply = proc[p].reply
        BY <3>4, OwnProc, Zenon
      <4>2. proc[p].reply \in {<<>>, proc[p].list}
        BY <3>4 DEF CacheAdd, Telling
      <4>3. proc'[p].pc = "push" => ToSet(proc'[p].reply) = {}
        BY <4>1, <4>2, <1>3
      <4> QED
        BY <4>1, <4>2, <4>3
    <3>5. CASE SaveFeedback(p)
      <4>1. /\ \/ proc[p].pc = "save" /\ proc'[p].pc = "tell"
               \/ proc[p].pc = "save client's" /\ proc'[p].pc = "tell client's"
            /\ proc'[p].list = proc[p].list /\ proc'[p].reply = proc[p].reply
        BY <3>5, OwnProc, Zenon
      <4> QED
        BY <4>1 DEF Telling
    <3>6. CASE TellCandidate(p)
      <4>1. \/ proc'[p] = proc[p]
            \/ /\ \/ proc[p].pc = "tell" /\ proc'[p].pc = "push"
                  \/ proc[p].pc = "tell client's" /\ proc'[p].pc = "reply"
               /\ proc'[p].user = proc[p].user /\ proc'[p].reply = proc[p].reply
        BY <3>6, OwnProc, Zenon
      <4>2. proc[p].reply \in {<<>>, proc[p].list} /\ proc[p].user \in Users
        BY <3>6 DEF TellCandidate, Telling, Busy
      <4>3. ToSet(proc[p].list) \subseteq told'[proc[p].user]
        BY <3>6, <4>2 DEF TellCandidate, TypeOK
      <4>4. ToSet(proc[p].reply) \subseteq told'[proc[p].user]
        BY <4>2, <4>3, <1>3
      <4> QED
        BY <4>1, <4>4, <1>1
    <3>7. CASE PushFlush(p) \/ DelFlag(p)
      <4>1. /\ proc'[p].pc \in {"del", "reply"} /\ proc'[p].user = proc[p].user
            /\ proc'[p].reply = proc[p].reply
        BY <3>7, OwnProc
      <4>2. ToSet(proc[p].reply) \subseteq told[proc[p].user] /\ proc[p].user \in Users
        BY <3>7 DEF PushFlush, DelFlag, Telling, Busy
      <4>3. ToSet(proc[p].reply) \subseteq told'[proc[p].user]
        BY <4>2, ToldGrows
      <4> QED
        BY <4>1, <4>3
    <3>8. CASE Reply(p)
      BY <3>8, <1>2, OwnProc, Zenon
    <3> QED
      BY <1>4, <3>1, <3>2, <3>3, <3>4, <3>5, <3>6, <3>7, <3>8, Zenon DEF Step
  <2> QED
    BY <1>1, <2>1, <2>2 DEF Telling
<1>5. ASSUME Crash
      PROVE  Telling'
  <2>1. \A q \in Procs : proc'[q] = Idle
    BY <1>5 DEF Crash
  <2> QED
    BY <1>2, <2>1 DEF Telling
<1>6. ASSUME \/ \E f \in Flushers : Refill(f)
             \/ \E u \in Users : Expire(u) \/ Minute(u)
             \/ SendSaved \/ UNCHANGED vars
      PROVE  Telling'
  <2>1. proc' = proc
    BY <1>6, OthersKeep DEF Expire, Minute, SendSaved, RenameSave, Resend, ReadFails, ReadLeft, RemoveSend, vars
  <2> QED
    BY <1>1, <2>1 DEF Telling
<1> QED
  BY <1>4, <1>5, <1>6 DEF Next
-----------------------------------------------------------------------------
(* How the lists in the cache change. *)
LEMMA CacheLists ==
  ASSUME TypeOK, Busy
  PROVE  /\ \A p \in Procs : CacheAdd(p) => \A u \in Users :
              cache'[u].list = IF u = proc[p].user /\ proc[p].entry.known
                                 THEN proc[p].entry.list ELSE cache[u].list
         /\ \A f \in Flushers : CachePut(f) => \A u \in Users :
              cache'[u].list = IF u = flusher[f].user THEN flusher[f].list ELSE cache[u].list
         /\ \A u \in Users : Expire(u) \/ Minute(u) =>
              \A v \in Users : cache'[v].list = cache[v].list
<1>1. cache \in [Users -> Entries]
  BY DEF TypeOK
<1>2. ASSUME NEW p \in Procs, CacheAdd(p), NEW u \in Users
      PROVE  cache'[u].list = IF u = proc[p].user /\ proc[p].entry.known
                                THEN proc[p].entry.list ELSE cache[u].list
  <2>1. CASE proc[p].entry.known
    <3>1. cache' = [cache EXCEPT ![proc[p].user].list = proc[p].entry.list,
                                 ![proc[p].user].recent = proc[p].entry.recent]
      BY <1>2, <2>1 DEF CacheAdd
    <3> QED
      BY <1>1, <2>1, <3>1 DEF Entries
  <2>2. CASE ~proc[p].entry.known
    BY <1>2, <2>2 DEF CacheAdd
  <2> QED
    BY <2>1, <2>2
<1>3. ASSUME NEW f \in Flushers, CachePut(f), NEW u \in Users
      PROVE  cache'[u].list = IF u = flusher[f].user THEN flusher[f].list ELSE cache[u].list
  BY <1>1, <1>3 DEF CachePut
<1>4. ASSUME NEW u \in Users, Expire(u) \/ Minute(u), NEW v \in Users
      PROVE  cache'[v].list = cache[v].list
  <2>1. \/ cache' = [cache EXCEPT ![u].fresh = FALSE]
        \/ cache' = [cache EXCEPT ![u].recent = FALSE]
    BY <1>4 DEF Expire, Minute
  <2> QED
    BY <1>1, <2>1 DEF Entries
<1> QED
  BY <1>2, <1>3, <1>4

(* Nothing else changes the cache. *)
LEMMA CacheKeeps ==
  ASSUME TypeOK, [Next]_vars,
         \A p \in Procs : ~CacheAdd(p), \A f \in Flushers : ~CachePut(f),
         \A u \in Users : ~Expire(u) /\ ~Minute(u)
  PROVE  cache' = cache
<1>1. ASSUME NEW p \in Procs, Query(p) \/ ClientFeedback(p) \/ Step(p)
      PROVE  cache' = cache
  BY <1>1 DEF Query, ClientFeedback, Step, AddFlag, CacheGet, SaveFeedback, TellCandidate,
              PushFlush, DelFlag, Reply
<1>2. ASSUME NEW f \in Flushers, Refill(f)
      PROVE  cache' = cache
  BY <1>2 DEF Refill, PopFlush, Fetch, Rank, RankFails, FlushFlag
<1>3. ASSUME SendSaved \/ Crash \/ UNCHANGED vars
      PROVE  cache' = cache
  BY <1>3 DEF SendSaved, RenameSave, Resend, ReadFails, ReadLeft, RemoveSend, Crash, vars
<1> QED
  BY <1>1, <1>2, <1>3 DEF Next

(* The list a thread has read stays in the cache until the thread is done: to
   change it others would have to have the user's flag. *)
LEMMA ListStays ==
  ASSUME TypeOK, Busy, Owner, [Next]_vars,
         NEW q \in Procs, proc[q].pc = "add", ~CacheAdd(q)
  PROVE  cache'[proc[q].user].list = cache[proc[q].user].list
<1>1. proc[q].user \in Users /\ flag[proc[q].user] = q
  BY DEF Busy, Owner, Owned
<1>2. ASSUME NEW p \in Procs, CacheAdd(p)
      PROVE  cache'[proc[q].user].list = cache[proc[q].user].list
  <2>1. flag[proc[p].user] = p
    BY <1>2 DEF CacheAdd, Owner, Owned
  <2>2. proc[p].user # proc[q].user
    BY <1>1, <1>2, <2>1
  <2> QED
    BY <1>1, <1>2, <2>2, CacheLists
<1>3. ASSUME NEW f \in Flushers, CachePut(f)
      PROVE  cache'[proc[q].user].list = cache[proc[q].user].list
  <2>1. flag[flusher[f].user] = f
    BY <1>3 DEF CachePut, Owner
  <2>2. flusher[f].user # proc[q].user
    BY <1>1, <2>1, CenterAssumption
  <2> QED
    BY <1>1, <1>3, <2>2, CacheLists
<1>4. ASSUME NEW u \in Users, Expire(u) \/ Minute(u)
      PROVE  cache'[proc[q].user].list = cache[proc[q].user].list
  BY <1>1, <1>4, CacheLists
<1> QED
  BY <1>2, <1>3, <1>4, CacheKeeps

(* A thread between the cache's get and its add has the user's flag, so that no
   other changes the entry it has taken its share of. *)
LEMMA PoppedStep ==
  ASSUME TypeOK, Busy, Owner, Popped, [Next]_vars
  PROVE  Popped'
<1> DEFINE Pops(p) ==
      proc[p].pc = "add" =>
        IF proc[p].entry.known
          THEN Parts(cache[proc[p].user].list, proc[p].reply, proc[p].entry.list)
          ELSE proc[p].reply = <<>>
<1>1. ASSUME NEW q \in Procs, proc'[q] = proc[q], ~CacheAdd(q)
      PROVE  Pops(q)'
  <2>1. proc[q].pc = "add" => cache'[proc[q].user].list = cache[proc[q].user].list
    BY <1>1, ListStays
  <2> QED
    BY <1>1, <2>1 DEF Popped, Parts
<1>2. ASSUME NEW p \in Procs, Query(p) \/ ClientFeedback(p) \/ Step(p)
      PROVE  Popped'
  <2>1. \A q \in Procs \ {p} : proc'[q] = proc[q]
    BY <1>2, OthersKeep, Zenon
  <2>2. \A q \in Procs \ {p} : ~CacheAdd(q)
    <3>1. ASSUME NEW q \in Procs \ {p}, CacheAdd(q)
          PROVE  FALSE
      <4>1. proc'[q].pc # proc[q].pc
        <5>1. proc'[q].pc = "push" \/ proc'[q].pc = "save"
          BY <3>1, OwnProc, Zenon
        <5> QED
          BY <3>1, <5>1 DEF CacheAdd
      <4> QED
        BY <2>1, <4>1
    <3> QED
      BY <3>1
  <2>3. Pops(p)'
    <3>1. CASE CacheGet(p)
      <4>1. PICK n \in Takes :
              \E g \in Got(cache[proc[p].user], n) :
                 /\ proc'[p].pc = "add" /\ proc'[p].user = proc[p].user
                 /\ proc'[p].entry = g.entry /\ proc'[p].reply = g.reply
        BY <3>1, OwnProc, Zenon
      <4>2. PICK g \in Got(cache[proc[p].user], n) :
               /\ proc'[p].pc = "add" /\ proc'[p].user = proc[p].user
               /\ proc'[p].entry = g.entry /\ proc'[p].reply = g.reply
        BY <4>1
      <4>3. cache[proc[p].user] \in Entries /\ cache' = cache
        BY <3>1 DEF CacheGet, Busy, TypeOK
      <4>4. /\ g.entry.known = cache[proc[p].user].known
            /\ IF cache[proc[p].user].known
                 THEN Parts(cache[proc[p].user].list, g.reply, g.entry.list)
                 ELSE g.reply = <<>>
        BY <4>3, GotParts
      <4> QED
        BY <4>2, <4>3, <4>4
    <3>2. CASE ~CacheGet(p)
      <4>1. Idle.pc = "idle"
        BY DEF Idle
      <4>2. \/ proc'[p].pc \in {"flag", "save client's", "get", "push", "save", "tell",
                               "tell client's", "reply", "del"}
            \/ proc'[p] = Idle
            \/ proc'[p] = proc[p] /\ TellCandidate(p)
        <5>1. CASE Query(p) \/ ClientFeedback(p) \/ AddFlag(p) \/ CacheAdd(p)
          BY <5>1, OwnProc
        <5>2. CASE SaveFeedback(p)
          BY <5>2, OwnProc
        <5>3. CASE TellCandidate(p)
          BY <5>3, OwnProc
        <5>4. CASE PushFlush(p) \/ DelFlag(p) \/ Reply(p)
          BY <5>4, OwnProc
        <5> QED
          BY <1>2, <3>2, <5>1, <5>2, <5>3, <5>4, Zenon DEF Step
      <4>3. TellCandidate(p) => proc[p].pc # "add"
        BY DEF TellCandidate
      <4>4. proc'[p].pc # "add"
        BY <4>1, <4>2, <4>3
      <4> QED
        BY <4>4
    <3> QED
      BY <3>1, <3>2
  <2> QED
    BY <1>1, <2>1, <2>2, <2>3 DEF Popped
<1>3. ASSUME Crash
      PROVE  Popped'
  <2>1. Idle.pc = "idle"
    BY DEF Idle
  <2> QED
    BY <1>3, <2>1 DEF Crash, Popped
<1>4. ASSUME \/ \E f \in Flushers : Refill(f)
             \/ \E u \in Users : Expire(u) \/ Minute(u)
             \/ SendSaved \/ UNCHANGED vars
      PROVE  Popped'
  <2>1. proc' = proc
    BY <1>4, OthersKeep DEF Expire, Minute, SendSaved, RenameSave, Resend, ReadFails, ReadLeft, RemoveSend, vars
  <2>2. ASSUME NEW q \in Procs, CacheAdd(q)
        PROVE  FALSE
    <3>1. proc'[q].pc = "push" \/ proc'[q].pc = "save"
      BY <2>2, OwnProc, Zenon
    <3> QED
      BY <2>1, <2>2, <3>1 DEF CacheAdd
  <2> QED
    BY <1>1, <2>1, <2>2 DEF Popped
<1> QED
  BY <1>2, <1>3, <1>4 DEF Next
-----------------------------------------------------------------------------
(* What is marked as sent in the feedback file, the candidate has been told. *)
LEMMA SendingStep ==
  ASSUME TypeOK, Busy, Sending, [Next]_vars
  PROVE  Sending'
<1>1. ASSUME send' = send, sent' = sent
      PROVE  Sending'
  <2>1. CASE sent # "told"
    BY <1>1, <2>1 DEF Sending
  <2>2. CASE sent = "told"
    <3>1. send # NoRecord /\ ToSet(send.list) \subseteq told[send.user] /\ send.user \in Users
      BY <2>2 DEF Sending, Busy
    <3>2. told[send.user] \subseteq told'[send.user]
      BY <3>1, ToldGrows
    <3> QED
      BY <1>1, <3>1, <3>2 DEF Sending
  <2> QED
    BY <2>1, <2>2
<1>2. ASSUME Resend
      PROVE  Sending'
  <2>1. send # NoRecord /\ send.user \in Users /\ send' = send
    BY <1>2 DEF Resend, Busy
  <2>2. ToSet(send.list) \subseteq told'[send.user]
    BY <1>2, <2>1 DEF Resend, TypeOK
  <2> QED
    BY <2>1, <2>2 DEF Sending
<1>3. ASSUME RenameSave \/ ReadFails \/ RemoveSend \/ Crash
      PROVE  Sending'
  BY <1>3 DEF RenameSave, ReadFails, RemoveSend, Crash, Sending
<1>4. ASSUME NEW p \in Procs, Query(p) \/ ClientFeedback(p) \/ Step(p)
      PROVE  send' = send /\ sent' = sent
  BY <1>4 DEF Query, ClientFeedback, Step, AddFlag, CacheGet, CacheAdd, SaveFeedback,
              TellCandidate, PushFlush, DelFlag, Reply, files
<1>5. ASSUME NEW f \in Flushers, Refill(f)
      PROVE  send' = send /\ sent' = sent
  BY <1>5 DEF Refill, PopFlush, Fetch, Rank, RankFails, FlushFlag, CachePut, files
<1>6. ASSUME ReadLeft \/ \E u \in Users : Expire(u) \/ Minute(u)
      PROVE  send' = send /\ sent' = sent
  BY <1>6 DEF ReadLeft, Expire, Minute, files
<1>7. ASSUME UNCHANGED vars
      PROVE  send' = send /\ sent' = sent
  BY <1>7 DEF vars, files
<1> QED
  BY <1>1, <1>2, <1>3, <1>4, <1>5, <1>6, <1>7 DEF Next, SendSaved

(* What a thread is about to tell stays in its hands until it is told, but for a
   crash. *)
LEMMA HandKept ==
  ASSUME TypeOK, Busy, [Next]_vars, ~Crash, NEW q \in Procs,
         proc[q].pc \in {"tell", "tell client's"}
  PROVE  \/ proc'[q] = proc[q]
         \/ ToSet(proc[q].list) \subseteq told'[proc[q].user]
<1>1. CASE TellCandidate(q)
  <2>1. proc[q].user \in Users
    BY DEF Busy
  <2> QED
    BY <1>1, <2>1 DEF TellCandidate, TypeOK
<1>2. ASSUME NEW p \in Procs, Query(p) \/ ClientFeedback(p) \/ Step(p)
      PROVE  proc'[q] = proc[q] \/ TellCandidate(q)
  <2>1. CASE p = q
    BY <1>2, <2>1 DEF Query, ClientFeedback, Step, AddFlag, CacheGet, CacheAdd, SaveFeedback,
                      PushFlush, DelFlag, Reply
  <2>2. CASE p # q
    BY <1>2, <2>2, OthersKeep, Zenon
  <2> QED
    BY <2>1, <2>2
<1>3. ASSUME NEW f \in Flushers, Refill(f)
      PROVE  proc' = proc
  BY <1>3 DEF Refill, PopFlush, Fetch, Rank, RankFails, FlushFlag, CachePut
<1>4. ASSUME SendSaved \/ UNCHANGED vars \/ \E u \in Users : Expire(u) \/ Minute(u)
      PROVE  proc' = proc
  BY <1>4 DEF SendSaved, RenameSave, Resend, ReadFails, ReadLeft, RemoveSend, Expire, Minute, vars
<1> QED
  BY <1>1, <1>2, <1>3, <1>4 DEF Next

(* No record comes into sync.save but that of a thread that goes on to tell it. *)
LEMMA SavedStep ==
  ASSUME TypeOK, Busy, Saved, [Next]_vars
  PROVE  Saved'
<1>1. CASE Crash
  <2>1. crashes' # 0
    BY <1>1, CenterAssumption DEF Crash, TypeOK
  <2> QED
    BY <2>1 DEF Saved
<1>2. CASE save' = NoRecord
  BY <1>2 DEF Saved
<1>3. ASSUME NEW p \in Procs, SaveFeedback(p), save' # save
      PROVE  Saved'
  <2>1. save'.user = proc[p].user /\ save'.list = proc[p].list
    <3>1. save' = [user |-> proc[p].user, list |-> proc[p].list,
                   left |-> Left(save, proc[p].list)]
      BY <1>3, Zenon DEF SaveFeedback
    <3> QED
      BY <3>1
  <2>2. /\ proc'[p].user = proc[p].user /\ proc'[p].list = proc[p].list
        /\ proc'[p].pc \in {"tell", "tell client's"}
    BY <1>3, OwnProc
  <2>3. InHand(save)'
    BY <2>1, <2>2 DEF InHand
  <2> QED
    BY <2>3 DEF Saved
<1>4. ASSUME save' = save, crashes' = crashes, ~Crash, save # NoRecord, crashes = 0
      PROVE  Told(save)' \/ InHand(save)'
  <2>1. save.user \in Users
    BY <1>4 DEF Busy
  <2>2. CASE Told(save)
    <3>1. ToSet(save.list) \subseteq told'[save.user]
      BY <2>1, <2>2, ToldGrows DEF Told
    <3> QED
      BY <1>4, <3>1 DEF Told
  <2>3. CASE InHand(save)
    <3>1. PICK q \in Procs : /\ proc[q].pc \in {"tell", "tell client's"}
                             /\ proc[q].user = save.user /\ proc[q].list = save.list
      BY <2>3 DEF InHand
    <3>2. \/ proc'[q] = proc[q]
          \/ ToSet(proc[q].list) \subseteq told'[proc[q].user]
      BY <1>4, <3>1, HandKept
    <3> QED
      BY <1>4, <3>1, <3>2 DEF InHand, Told
  <2> QED
    BY <1>4, <2>2, <2>3 DEF Saved
<1>5. \/ Crash \/ save' = NoRecord
      \/ save' = save /\ crashes' = crashes
      \/ \E p \in Procs : SaveFeedback(p) /\ save' # save
  <2>1. ASSUME NEW p \in Procs, Query(p) \/ ClientFeedback(p) \/ Step(p), ~SaveFeedback(p)
        PROVE  save' = save /\ crashes' = crashes
    BY <2>1 DEF Query, ClientFeedback, Step, AddFlag, CacheGet, CacheAdd, TellCandidate,
                PushFlush, DelFlag, Reply, files, bounds
  <2>2. ASSUME NEW p \in Procs, SaveFeedback(p)
        PROVE  crashes' = crashes
    BY <2>2 DEF SaveFeedback, bounds
  <2>3. ASSUME NEW f \in Flushers, Refill(f)
        PROVE  save' = save /\ crashes' = crashes
    BY <2>3 DEF Refill, PopFlush, Fetch, Rank, RankFails, FlushFlag, CachePut, files, bounds
  <2>4. ASSUME SendSaved
        PROVE  crashes' = crashes /\ (save' = save \/ save' = NoRecord)
    BY <2>4 DEF SendSaved, RenameSave, Resend, ReadFails, ReadLeft, RemoveSend, files, bounds
  <2>5. ASSUME UNCHANGED vars \/ \E u \in Users : Expire(u) \/ Minute(u)
        PROVE  save' = save /\ crashes' = crashes
    BY <2>5 DEF Expire, Minute, vars, files, bounds
  <2> QED
    BY <2>1, <2>2, <2>3, <2>4, <2>5 DEF Next
<1> QED
  BY <1>1, <1>2, <1>3, <1>4, <1>5 DEF Saved

(* A reply shows what was told, and the candidate forgets nothing. *)
LEMMA ShownStep ==
  ASSUME TypeOK, Busy, Telling, ShownWasTold, [Next]_vars
  PROVE  ShownWasTold'
<1>1. ASSUME NEW u \in Users
      PROVE  shown[u] \subseteq told'[u]
  BY <1>1, ToldGrows DEF ShownWasTold
<1>2. ASSUME NEW p \in Procs, Reply(p)
      PROVE  ShownWasTold'
  <2>1. /\ proc[p].user \in Users /\ told' = told
        /\ ToSet(proc[p].reply) \subseteq told[proc[p].user]
    BY <1>2 DEF Reply, Busy, Telling
  <2> DEFINE T == ToSet(proc[p].reply)
  <2>2. shown' = [shown EXCEPT ![proc[p].user] = @ \cup T]
    BY <1>2 DEF Reply
  <2> HIDE DEF T
  <2> QED
    BY <1>1, <2>1, <2>2 DEF ShownWasTold, TypeOK, T
<1>3. ASSUME NEW p \in Procs, Query(p) \/ ClientFeedback(p) \/ Step(p), ~Reply(p)
      PROVE  shown' = shown
  BY <1>3 DEF Query, ClientFeedback, Step, AddFlag, CacheGet, CacheAdd, SaveFeedback,
              TellCandidate, PushFlush, DelFlag
<1>4. ASSUME NEW f \in Flushers, Refill(f)
      PROVE  shown' = shown
  BY <1>4 DEF Refill, PopFlush, Fetch, Rank, RankFails, FlushFlag, CachePut
<1>5. ASSUME \/ \E u \in Users : Expire(u) \/ Minute(u)
             \/ SendSaved \/ Crash \/ UNCHANGED vars
      PROVE  shown' = shown
  BY <1>5 DEF Expire, Minute, SendSaved, RenameSave, Resend, ReadFails, ReadLeft, RemoveSend, Crash, vars
<1> QED
  BY <1>1, <1>2, <1>3, <1>4, <1>5 DEF Next, ShownWasTold

(* Nothing is held, told or shown at the start. *)
LEMMA InitInvariant == Init => IInv
<1> SUFFICES ASSUME Init PROVE IInv
  OBVIOUS
<1>1. TypeOK
  <2>1. cache \in [Users -> Entries] /\ flag \in [Users -> Procs \cup Flushers \cup {None}]
    BY IdleTypes DEF Init
  <2>2. queue \in Seq(Users) /\ Len(queue) <= QueueSize
    <3>1. QueueSize \in Nat /\ queue = <<>>
      BY CenterAssumption DEF Init
    <3> QED
      BY <3>1
  <2>3. proc \in [Procs -> Doings] /\ flusher \in [Flushers -> Refills]
    BY IdleTypes DEF Init
  <2>4. save \in Feedbacks /\ send \in Feedbacks /\ sent \in {"reading", "told", "unread"}
    BY IdleTypes DEF Init
  <2>5. told \in [Users -> SUBSET Articles] /\ shown \in [Users -> SUBSET Articles]
    BY DEF Init
  <2>6. queries \in 0..MaxQueries /\ crashes \in 0..MaxCrashes
    BY CenterAssumption DEF Init
  <2> QED
    BY <2>1, <2>2, <2>3, <2>4, <2>5, <2>6 DEF TypeOK
<1>2. ToSet(<<>>) = {} /\ Idle.pc = "idle" /\ Resting.pc = "idle"
  BY DEF ToSet, Idle, Resting
<1>3. \A p \in Procs : proc[p].pc = "idle"
  BY <1>2 DEF Init
<1>4. \A f \in Flushers : flusher[f].pc = "idle"
  BY <1>2 DEF Init
<1>5. Busy /\ Owner /\ Telling /\ Popped
  BY <1>3, <1>4 DEF Init, Busy, Owner, Owned, Telling, Popped
<1>6. Sending /\ Saved /\ ShownWasTold
  BY DEF Init, Sending, Saved, ShownWasTold
<1> QED
  BY <1>1, <1>5, <1>6 DEF IInv

(* The inductive invariant of the center's queries: who works for whom, who has
   which flag, and what is on its way to a user or to the candidate. *)
THEOREM Invariance == Spec => []IInv
<1>1. IInv /\ [Next]_vars => IInv'
  BY TypeStep, BusyStep, OwnerStep, TellingStep, PoppedStep, SendingStep, SavedStep,
     ShownStep DEF IInv
<1> QED
  BY InitInvariant, <1>1, PTL DEF Spec

(* Every variable of the center's queries keeps its type: lists stay short and
   free of repetitions, and the flush queue within its size. *)
THEOREM TypeCorrect == Spec => []TypeOK
<1>1. IInv => TypeOK
  BY DEF IInv
<1> QED
  BY <1>1, Invariance, PTL

(* What a user was shown the candidate was told of before, whatever crashes and
   whatever answer of the candidate is lost. *)
THEOREM NothingShownUntold == Spec => []ShownWasTold
<1>1. IInv => ShownWasTold
  BY DEF IInv
<1> QED
  BY <1>1, Invariance, PTL

(* A saved feedback leaves the two sync files when it was told or its thread is
   about to tell it; else after a failed fread, or, its thread having crashed,
   under another feedback. *)
THEOREM FeedbackDelivered == Spec => FeedbackKept
<1> DEFINE Kept(r) == \/ Same(r, save') \/ Same(r, send') \/ Told(r)' \/ InHand(r)'
                      \/ r = send /\ sent = "unread" /\ save' = save
                      \/ r = save /\ crashes > 0 /\ ~InHand(r) /\ send' = send
<1>1. ASSUME IInv, Next, NEW r \in {save, send} \ {NoRecord}
      PROVE  Kept(r)
  <2>1. TypeOK /\ Busy /\ Sending /\ Saved
    BY <1>1 DEF IInv
  <2>2. r.user \in Users
    BY <2>1 DEF Busy
  <2>3. Told(r) => Told(r)'
    BY <1>1, <2>1, <2>2, ToldGrows DEF Told
  <2>4. CASE save' = save /\ send' = send
    BY <2>4 DEF Same
  <2>5. ASSUME NEW p \in Procs, SaveFeedback(p)
        PROVE  Kept(r)
    <3>1. send' = send /\ ~Crash
      <4>1. crashes' = crashes /\ send' = send
        BY <2>5 DEF SaveFeedback, bounds
      <4>2. Crash => crashes' # crashes
        BY <2>1 DEF Crash, TypeOK
      <4> QED
        BY <4>1, <4>2
    <3>2. CASE r = send
      BY <3>1, <3>2 DEF Same
    <3>3. CASE r = save /\ InHand(r)
      <4>1. PICK q \in Procs : /\ proc[q].pc \in {"tell", "tell client's"}
                               /\ proc[q].user = r.user /\ proc[q].list = r.list
        BY <3>3 DEF InHand
      <4>2. \/ proc'[q] = proc[q]
            \/ ToSet(proc[q].list) \subseteq told'[proc[q].user]
        BY <1>1, <2>1, <3>1, <4>1, HandKept
      <4> QED
        BY <4>1, <4>2 DEF InHand, Told
    <3>4. CASE r = save /\ ~InHand(r)
      <4>1. crashes \in Nat
        BY <2>1, CenterAssumption DEF TypeOK
      <4>2. crashes > 0 \/ crashes = 0
        BY <4>1
      <4> QED
        BY <1>1, <2>1, <2>3, <3>1, <3>4, <4>2 DEF Saved
    <3> QED
      BY <3>2, <3>3, <3>4
  <2>6. CASE RenameSave
    BY <2>6 DEF RenameSave, Same
  <2>7. CASE RemoveSend
    <3>1. save' = save /\ (send' = send \/ sent = "told" \/ sent = "unread")
      BY <2>1, <2>7 DEF RemoveSend, TypeOK
    <3>2. CASE r = send /\ sent = "told"
      BY <2>1, <2>3, <3>2 DEF Sending, Told
    <3> QED
      BY <3>1, <3>2 DEF Same
  <2>8. ASSUME NEW p \in Procs, Query(p) \/ ClientFeedback(p) \/ Step(p), ~SaveFeedback(p)
        PROVE  save' = save /\ send' = send
    BY <2>8 DEF Query, ClientFeedback, Step, AddFlag, CacheGet, CacheAdd,
                TellCandidate, PushFlush, DelFlag, Reply, files
  <2>9. ASSUME NEW f \in Flushers, Refill(f)
        PROVE  save' = save /\ send' = send
    BY <2>9 DEF Refill, PopFlush, Fetch, Rank, RankFails, FlushFlag, CachePut, files
  <2>10. ASSUME \/ \E u \in Users : Expire(u) \/ Minute(u)
                \/ Resend \/ ReadFails \/ ReadLeft \/ Crash
         PROVE  save' = save /\ send' = send
    BY <2>10 DEF Expire, Minute, Resend, ReadFails, ReadLeft, Crash, files
  <2> QED
    BY <1>1, <2>4, <2>5, <2>6, <2>7, <2>8, <2>9, <2>10 DEF Next, SendSaved
<1>2. IInv /\ [Next]_vars => [\A r \in {save, send} \ {NoRecord} : Kept(r)]_vars
  BY <1>1
<1> QED
  BY <1>2, Invariance, PTL DEF Spec, FeedbackKept
-----------------------------------------------------------------------------
(* The refinement: what each thread holds for its user. *)
LEMMA HandStays ==
  ASSUME NEW q \in Procs,
         \/ proc'[q] = proc[q]
         \/ ~Holding(q) /\ ~Holding(q)'
         \/ /\ Holding(q) /\ Holding(q)'
            /\ proc'[q].user = proc[q].user /\ proc'[q].reply = proc[q].reply
  PROVE  Hand(q)' = Hand(q)
BY DEF Hand, Holding

(* A thread's steps other than the one that takes and the one that answers
   leave in its hands what is there. *)
LEMMA HandsStay ==
  ASSUME TypeOK, Busy, Telling, NEW p \in Procs,
         Query(p) \/ ClientFeedback(p) \/ Step(p), ~CacheAdd(p), ~Reply(p)
  PROVE  \A q \in Procs : Hand(q)' = Hand(q)
<1>1. \A q \in Procs \ {p} : proc'[q] = proc[q]
  BY OthersKeep, Zenon
<1>2. CASE Query(p) \/ ClientFeedback(p) \/ AddFlag(p) \/ CacheGet(p)
  <2>1. proc[p].pc \in {"idle", "flag", "get"}
    BY <1>2 DEF Query, ClientFeedback, AddFlag, CacheGet
  <2>2. proc'[p].pc \in {"flag", "save client's", "get", "add"}
    BY <1>2, OwnProc
  <2>3. ~Holding(p) /\ ~Holding(p)'
    BY <2>1, <2>2 DEF Holding
  <2> QED
    BY <1>1, <2>3, HandStays
<1>3. CASE SaveFeedback(p) \/ PushFlush(p) \/ DelFlag(p)
  <2>1. /\ proc'[p].user = proc[p].user /\ proc'[p].reply = proc[p].reply
        /\ \/ proc[p].pc = "save" /\ proc'[p].pc = "tell"
           \/ proc[p].pc = "save client's" /\ proc'[p].pc = "tell client's"
           \/ PushFlush(p) /\ proc'[p].pc = "del"
           \/ DelFlag(p) /\ proc'[p].pc = "reply"
    BY <1>3, OwnProc, Zenon
  <2>2. Holding(p) = Holding(p)'
    BY <2>1 DEF Holding, PushFlush, DelFlag
  <2> QED
    BY <1>1, <2>1, <2>2, HandStays
<1>4. CASE TellCandidate(p)
  <2>1. \/ proc'[p] = proc[p]
        \/ /\ \/ proc[p].pc = "tell" /\ proc'[p].pc = "push"
              \/ proc[p].pc = "tell client's" /\ proc'[p].pc = "reply"
           /\ proc'[p].user = proc[p].user /\ proc'[p].reply = proc[p].reply
    BY <1>4, OwnProc, Zenon
  <2>2. proc[p].pc = "tell client's" => proc[p].reply = <<>>
    BY DEF Telling
  <2>3. proc'[p] = proc[p] \/ Holding(p) = Holding(p)'
    BY <2>1, <2>2 DEF Holding
  <2> QED
    BY <1>1, <2>1, <2>3, HandStays
<1> QED
  BY <1>2, <1>3, <1>4 DEF Step

(* A step that changes neither lists nor hands is a step of the promise. *)
LEMMA QuietStep ==
  ASSUME TypeOK, Busy,
         \A u \in Users : cache'[u].list = cache[u].list,
         \A q \in Procs : Hand(q)' = Hand(q),
         shown' = shown,
         told' = told \/ \E u \in Users, S \in SUBSET Articles :
                           told' = [told EXCEPT ![u] = @ \cup S]
  PROVE  [Promise!Next]_(Promise!vars)
<1>1. [u \in Users |-> cache[u].list]' = [u \in Users |-> cache[u].list]
  OBVIOUS
<1>2. [q \in Procs |-> Hand(q)]' = [q \in Procs |-> Hand(q)]
  OBVIOUS
<1>3. CASE told' = told
  BY <1>1, <1>2, <1>3, Zenon DEF Promise!vars
<1>4. CASE \E u \in Users, S \in SUBSET Articles : told' = [told EXCEPT ![u] = @ \cup S]
  <2>1. Promise!Tell
    BY <1>1, <1>2, <1>4, Zenon DEF Promise!Tell
  <2> QED
    BY <2>1 DEF Promise!Next
<1> QED
  BY <1>3, <1>4

(* Putting back what remains is a taking, or a loss of what was not given to
   the user, or nothing. *)
LEMMA AddStep ==
  ASSUME IInv, NEW p \in Procs, CacheAdd(p)
  PROVE  [Promise!Next]_(Promise!vars)
<1> DEFINE u == proc[p].user
           s == cache[u].list
           lists == [v \in Users |-> cache[v].list]
           hands == [q \in Procs |-> Hand(q)]
<1>1. /\ TypeOK /\ Busy /\ Telling /\ u \in Users /\ proc[p].pc = "add"
      /\ told' = told /\ shown' = shown
  BY DEF IInv, CacheAdd, Busy
<1>2. s \in Seq(Articles) /\ Len(s) \in Nat
  BY <1>1, ListsAre, LenProperties DEF TypeOK, Entries
<1>3. /\ proc'[p].pc \in {"push", "save"}
      /\ proc'[p].user = u /\ proc'[p].reply = proc[p].reply
  BY <1>1, OwnProc
<1>4. \A q \in Procs \ {p} : proc'[q] = proc[q]
  BY <1>1, OthersKeep, Zenon DEF Step
<1>5. \A v \in Users : cache'[v].list = IF v = u /\ proc[p].entry.known
                                          THEN proc[p].entry.list ELSE cache[v].list
  BY <1>1, CacheLists
<1>6. Hand(p) = [user |-> None, list |-> <<>>]
  BY <1>1 DEF Hand, Holding
<1>7. CASE proc[p].reply = <<>>
  <2>1. ~Holding(p) /\ ~Holding(p)'
    BY <1>3, <1>7 DEF Holding
  <2>2. \A q \in Procs : Hand(q)' = Hand(q)
    BY <1>4, <2>1, HandStays
  <2>3. CASE ~proc[p].entry.known
    BY <1>1, <1>5, <2>2, <2>3, QuietStep
  <2>4. CASE proc[p].entry.known
    <3>1. PICK k \in 0..Len(s) : proc[p].entry.list = SubSeq(s, k + 1, Len(s))
      BY <1>1, <2>4 DEF IInv, Popped, Parts
    <3>2. CASE k = 0
      <4>1. proc[p].entry.list = s
        BY <1>2, <3>1, <3>2, SubSeqFull
      <4>2. \A v \in Users : cache'[v].list = cache[v].list
        BY <1>5, <4>1
      <4> QED
        BY <1>1, <2>2, <4>2, QuietStep
    <3>3. CASE k # 0
      <4>1. k \in 1..Len(s)
        BY <1>2, <3>3
      <4>2. lists' = [lists EXCEPT ![u] = SubSeq(@, k + 1, Len(@))]
        BY <1>1, <1>5, <2>4, <3>1
      <4>3. k \in 1..Len(lists[u])
        BY <1>1, <4>1
      <4>4. hands' = hands
        BY <2>2
      <4>5. Promise!Drop
        BY <1>1, <4>2, <4>3, <4>4 DEF Promise!Drop, Promise!Leave
      <4> QED
        BY <4>5 DEF Promise!Next
    <3> QED
      BY <3>2, <3>3
  <2> QED
    BY <2>3, <2>4
<1>8. CASE proc[p].reply # <<>>
  <2>1. Parts(s, proc[p].reply, proc[p].entry.list) /\ proc[p].entry.known
    BY <1>1, <1>8 DEF IInv, Popped
  <2>2. PICK k \in 0..Len(s) : /\ proc[p].entry.list = SubSeq(s, k + 1, Len(s))
                               /\ proc[p].reply = SubSeq(s, 1, k)
    BY <1>8, <2>1 DEF Parts
  <2>3. k \in 1..Len(s)
    <3>1. k = 0 => SubSeq(s, 1, k) = <<>>
      BY SubSeqEmpty
    <3> QED
      BY <1>2, <1>8, <2>2, <3>1
  <2>4. lists' = [lists EXCEPT ![u] = SubSeq(@, k + 1, Len(@))]
    BY <1>1, <1>5, <2>1, <2>2
  <2>5. lists[u] = s
    BY <1>1
  <2>6. hands' = [hands EXCEPT ![p] = [user |-> u, list |-> SubSeq(lists[u], 1, k)]]
    <3>1. Hand(p)' = [user |-> u, list |-> proc[p].reply]
      BY <1>3, <1>8 DEF Hand, Holding
    <3>2. \A q \in Procs \ {p} : Hand(q)' = Hand(q)
      BY <1>4, HandStays
    <3> QED
      BY <2>2, <2>5, <3>1, <3>2
  <2>7. hands[p] = [user |-> None, list |-> <<>>]
    BY <1>6
  <2>8. k \in 1..Len(lists[u])
    BY <2>3, <2>5
  <2>9. Promise!Take(p)
    <3> HIDE DEF u, s, lists, hands
    <3> QED
      BY <1>1, <2>4, <2>6, <2>7, <2>8
         DEF Promise!Take, Promise!Leave, Promise!First, Promise!Nobody, lists, hands
  <2> QED
    BY <2>9 DEF Promise!Next
<1> QED
  BY <1>7, <1>8

(* Answering shows the user what was told of. *)
LEMMA ReplyStep ==
  ASSUME IInv, NEW p \in Procs, Reply(p)
  PROVE  [Promise!Next]_(Promise!vars)
<1> DEFINE u == proc[p].user
           hands == [q \in Procs |-> Hand(q)]
<1>1. /\ TypeOK /\ Busy /\ u \in Users /\ proc[p].pc = "reply" /\ told' = told
      /\ cache' = cache /\ ToSet(proc[p].reply) \subseteq told[u]
      /\ shown' = [shown EXCEPT ![u] = @ \cup ToSet(proc[p].reply)]
  BY DEF IInv, Reply, Busy, Telling
<1>2. \A q \in Procs \ {p} : proc'[q] = proc[q]
  BY <1>1, OthersKeep, Zenon DEF Step
<1>3. ~Holding(p)'
  <2>1. proc'[p] = Idle
    BY <1>1, OwnProc, Zenon
  <2>2. Idle.pc = "idle"
    BY DEF Idle
  <2> QED
    BY <2>1, <2>2 DEF Holding
<1>4. CASE proc[p].reply = <<>>
  <2>1. ~Holding(p)
    BY <1>4 DEF Holding
  <2>2. \A q \in Procs : Hand(q)' = Hand(q)
    BY <1>2, <1>3, <2>1, HandStays
  <2>3. ToSet(proc[p].reply) = {}
    BY <1>4 DEF ToSet
  <2>4. shown' = shown
    BY <1>1, <2>3 DEF TypeOK
  <2> QED
    BY <1>1, <2>2, <2>4, QuietStep
<1>5. CASE proc[p].reply # <<>>
  <2>1. hands[p] = [user |-> u, list |-> proc[p].reply]
    BY <1>1, <1>5 DEF Hand, Holding
  <2>2. hands' = [hands EXCEPT ![p] = [user |-> None, list |-> <<>>]]
    <3>1. Hand(p)' = [user |-> None, list |-> <<>>]
      BY <1>3 DEF Hand
    <3>2. \A q \in Procs \ {p} : Hand(q)' = Hand(q)
      BY <1>2, HandStays
    <3> QED
      BY <3>1, <3>2
  <2>3. hands[p] # [user |-> None, list |-> <<>>]
    BY <1>1, <2>1, CenterAssumption
  <2>4. Promise!Show(p)
    <3>1. hands[p].list = proc[p].reply /\ hands[p].user = u
      BY <2>1
    <3>2. [v \in Users |-> cache[v].list]' = [v \in Users |-> cache[v].list]
      BY <1>1
    <3>3. /\ Promise!ToSet(hands[p].list) \subseteq told[hands[p].user]
          /\ shown' = [shown EXCEPT ![hands[p].user] = @ \cup Promise!ToSet(hands[p].list)]
      <4>1. \A s : Promise!ToSet(s) = ToSet(s)
        BY DEF Promise!ToSet, ToSet
      <4> QED
        BY <1>1, <3>1, <4>1
    <3> QED
      BY <1>1, <2>2, <2>3, <3>2, <3>3, Zenon DEF Promise!Show, Promise!Nobody
  <2> QED
    BY <2>4 DEF Promise!Next
<1> QED
  BY <1>4, <1>5

(* A new list is a refill. *)
LEMMA PutStep ==
  ASSUME IInv, NEW f \in Flushers, CachePut(f)
  PROVE  [Promise!Next]_(Promise!vars)
<1> DEFINE u == flusher[f].user
           lists == [v \in Users |-> cache[v].list]
<1>1. /\ TypeOK /\ Busy /\ u \in Users /\ told' = told /\ shown' = shown /\ proc' = proc
      /\ flusher[f].list \in Seq(Articles)
  BY ListsAre DEF IInv, CachePut, Busy, TypeOK, Refills
<1>2. \A v \in Users : cache'[v].list = IF v = u THEN flusher[f].list ELSE cache[v].list
  BY <1>1, CacheLists
<1>3. [q \in Procs |-> Hand(q)]' = [q \in Procs |-> Hand(q)]
  BY <1>1, HandStays
<1>4. lists'[u] \in Seq(Articles) /\ lists' = [lists EXCEPT ![u] = lists'[u]]
  BY <1>1, <1>2
<1>5. Promise!Refill
  <2> HIDE DEF u
  <2> QED
    BY <1>1, <1>3, <1>4 DEF Promise!Refill
<1> QED
  BY <1>5 DEF Promise!Next

(* A crash loses what the threads had in their hands, and nothing else. *)
LEMMA CrashStep ==
  ASSUME Crash
  PROVE  Promise!Lose
<1>1. cache' = cache /\ told' = told /\ shown' = shown
  BY DEF Crash
<1>2. ASSUME NEW q \in Procs
      PROVE  Hand(q)' = [user |-> None, list |-> <<>>]
  <2>1. proc'[q] = Idle /\ Idle.pc = "idle"
    BY DEF Crash, Idle
  <2> QED
    BY <2>1 DEF Hand, Holding
<1> QED
  BY <1>1, <1>2 DEF Promise!Lose, Promise!Nobody

(* Every step of the center is one of the abstract recommender or a stutter. *)
LEMMA StepKeepsPromise ==
  ASSUME IInv, [Next]_vars
  PROVE  [Promise!Next]_(Promise!vars)
<1>1. TypeOK /\ Busy /\ Telling
  BY DEF IInv
<1>2. ASSUME NEW s \in Pushed
      PROVE  ToSet(s) \subseteq Articles
  BY ListsAre, CenterAssumption DEF ToSet, Pushed
<1>3. ASSUME NEW p \in Procs, Query(p) \/ ClientFeedback(p) \/ Step(p), ~CacheAdd(p), ~Reply(p)
      PROVE  [Promise!Next]_(Promise!vars)
  <2>1. \A q \in Procs : Hand(q)' = Hand(q)
    BY <1>1, <1>3, HandsStay
  <2>2. cache' = cache /\ shown' = shown
    BY <1>3 DEF Query, ClientFeedback, Step, AddFlag, CacheGet, SaveFeedback, TellCandidate,
                PushFlush, DelFlag
  <2>3. \/ told' = told
        \/ /\ told' = [told EXCEPT ![proc[p].user] = @ \cup ToSet(proc[p].list)]
           /\ proc[p].user \in Users
    BY <1>1, <1>3 DEF Query, ClientFeedback, Step, AddFlag, CacheGet, SaveFeedback,
                TellCandidate, PushFlush, DelFlag, Busy
  <2>4. ToSet(proc[p].list) \in SUBSET Articles
    BY <1>1, <1>2 DEF TypeOK, Doings
  <2> QED
    BY <1>1, <2>1, <2>2, <2>3, <2>4, QuietStep
<1>4. ASSUME NEW f \in Flushers, Refill(f), ~CachePut(f)
      PROVE  [Promise!Next]_(Promise!vars)
  <2>1. cache' = cache /\ shown' = shown /\ told' = told /\ proc' = proc
    BY <1>4 DEF Refill, PopFlush, Fetch, Rank, RankFails, FlushFlag
  <2> QED
    BY <1>1, <2>1, HandStays, QuietStep
<1>5. ASSUME NEW u \in Users, Expire(u) \/ Minute(u)
      PROVE  [Promise!Next]_(Promise!vars)
  <2>1. shown' = shown /\ told' = told /\ proc' = proc
    BY <1>5 DEF Expire, Minute
  <2>2. \A v \in Users : cache'[v].list = cache[v].list
    BY <1>1, <1>5, CacheLists
  <2> QED
    BY <1>1, <2>1, <2>2, HandStays, QuietStep
<1>6. ASSUME SendSaved \/ UNCHANGED vars
      PROVE  [Promise!Next]_(Promise!vars)
  <2>1. cache' = cache /\ shown' = shown /\ proc' = proc
    BY <1>6 DEF SendSaved, RenameSave, Resend, ReadFails, ReadLeft, RemoveSend, vars
  <2>2. ToSet(send.list) \in SUBSET Articles
    BY <1>1, <1>2 DEF TypeOK, Feedbacks
  <2>3. \/ told' = told
        \/ \E u \in Users, S \in SUBSET Articles : told' = [told EXCEPT ![u] = @ \cup S]
    <3>1. CASE Resend
      BY <1>1, <2>2, <3>1 DEF Resend, Busy
    <3>2. CASE ReadLeft
      BY <3>2 DEF ReadLeft
    <3>3. CASE RenameSave \/ ReadFails \/ RemoveSend \/ UNCHANGED vars
      BY <3>3 DEF RenameSave, ReadFails, RemoveSend, vars
    <3> QED
      BY <1>6, <3>1, <3>2, <3>3 DEF SendSaved
  <2>4. CASE told' = told
    BY <1>1, <2>1, <2>4, HandStays, QuietStep
  <2>5. ASSUME NEW u \in Users, NEW S \in SUBSET Articles, told' = [told EXCEPT ![u] = @ \cup S]
        PROVE  [Promise!Next]_(Promise!vars)
    BY <1>1, <2>1, <2>5, HandStays, QuietStep
  <2> QED
    BY <2>3, <2>4, <2>5
<1>7. Crash => [Promise!Next]_(Promise!vars)
  BY CrashStep DEF Promise!Next
<1> QED
  BY <1>3, <1>4, <1>5, <1>6, <1>7, AddStep, ReplyStep, PutStep DEF Next, Step, Refill

(* The center implements the recommender: each article leaves a user's list with
   the one request that takes it and is shown after the candidate was told. *)
THEOREM KeepsPromise == Spec => PromiseSpec
<1>1. Init => Promise!Init
  <2> SUFFICES ASSUME Init PROVE Promise!Init
    OBVIOUS
  <2>1. \A u \in Users : cache[u].list = <<>>
    BY DEF Init, NoEntry
  <2>2. \A p \in Procs : Hand(p) = [user |-> None, list |-> <<>>]
    BY DEF Init, Idle, Hand, Holding
  <2> QED
    BY <2>1, <2>2 DEF Init, Promise!Init, Promise!Nobody
<1>2. IInv /\ [Next]_vars => [Promise!Next]_(Promise!vars)
  BY StepKeepsPromise
<1> QED
  BY <1>1, <1>2, Invariance, PTL DEF Spec, PromiseSpec, Promise!Spec
=============================================================================
