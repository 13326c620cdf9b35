---------------------------- MODULE CenterProofs ----------------------------
(***************************************************************************)
(* Theorems about the center's updates, for every number of threads,       *)
(* modules and requests and any number of failing calls; and about the     *)
(* messages of its clients, for any messages and every size of the buffer. *)
(***************************************************************************)
EXTENDS CenterUpdate, CenterMessage, FiniteSetTheorems, SequenceTheorems, TLAPS

-----------------------------------------------------------------------------
(* The inductive invariant. *)

(* A thread that is not idle has a task, and one that waits for the modules
   has had the candidate's answer to it. *)
Working ==
  \A p \in Procs : /\ proc[p].pc = "idle" <=> proc[p].task = None
                   /\ proc[p].pc = "wait" => /\ proc[p].task \in seen \cup refused
                                              /\ Kind[proc[p].task] # "subscribe"

(* The modules are given only what the candidate has answered, and what counts as
   acknowledged was applied. *)
Known ==
  \A t \in Tasks : /\ todo[t] # {} => t \in seen \cup refused
                   /\ \A m \in Modules : t \in applied[m] => t \in seen \cup refused
                   /\ \A m \in acked[t] : t \in applied[m]

(* A code was earned: the candidate has answered the request, a 0 means that it
   has taken a subscription in or that all modules acknowledged. *)
Earned ==
  \A t \in Tasks : /\ reply[t] \in Codes => t \in seen \cup refused
                   /\ reply[t] = 0 /\ Kind[t] = "subscribe" => t \in seen
                   /\ reply[t] = 0 /\ Kind[t] # "subscribe" => acked[t] = Modules

(* A request the modules have, or are about to get, is not Fresh. *)
Begun(t) == todo[t] # {} \/ \E m \in Modules : t \in applied[m]

Taken == \A t \in Tasks : Begun(t) => reply[t] # Pending \/ \E p \in Procs : proc[p].task = t

(* The actions answered before a request came in have had the candidate's
   answer, and those it took in are from the history query on in the request's
   history. *)
Prepared ==
  /\ \A t \in Tasks : before[t] \subseteq seen \cup refused
  /\ \A t \in Actions : Begun(t) => before[t] \subseteq history[t] \cup refused
  /\ \A p \in Procs : proc[p].pc \in {"update", "wait"} /\ proc[p].task \in Actions =>
                        before[proc[p].task] \subseteq history[proc[p].task] \cup refused

IInv == TypeOK /\ Working /\ Known /\ Earned /\ Taken /\ Prepared

-----------------------------------------------------------------------------
(* A count of the modules without code 0 is a code, and 0 only if all have it. *)
LEMMA CodesFinite ==
  /\ Cardinality(Modules) \in Nat
  /\ \A S \in SUBSET Modules :
       /\ Cardinality(Modules) - Cardinality(S) \in Codes
       /\ Cardinality(Modules) - Cardinality(S) = 0 => S = Modules
<1>1. IsFiniteSet(Modules)
  BY UpdateAssumption
<1>2. Cardinality(Modules) \in Nat
  BY <1>1, FS_CardinalityType
<1>3. ASSUME NEW S \in SUBSET Modules
      PROVE  /\ Cardinality(S) \in Nat /\ Cardinality(S) <= Cardinality(Modules)
             /\ Cardinality(S) = Cardinality(Modules) => S = Modules
  BY <1>1, FS_Subset, FS_CardinalityType
<1> QED
  BY <1>2, <1>3 DEF Codes

(* The center starts in the invariant. *)
LEMMA InitInvariant == Init => IInv
<1> SUFFICES ASSUME Init PROVE IInv
  OBVIOUS
<1> USE UpdateAssumption DEF Init, Rest, Pending
<1>1. TypeOK
  BY EmptySeq DEF TypeOK
<1>2. Working /\ Known /\ Taken
  BY DEF Working, Known, Taken, Begun
<1>3. Earned
  BY CodesFinite DEF Earned, Codes
<1>4. Prepared
  BY DEF Prepared, Actions, Begun
<1> QED
  BY <1>1, <1>2, <1>3, <1>4 DEF IInv

-----------------------------------------------------------------------------
(* The type, action by action. *)
LEMMA ListenType == TypeOK /\ (\E l \in Listeners : Listen(l)) => TypeOK'
<1> SUFFICES ASSUME TypeOK, NEW l \in Listeners, Listen(l) PROVE TypeOK'
  OBVIOUS
<1> USE UpdateAssumption DEF TypeOK
<1>1. CASE Accept(l)
  BY <1>1 DEF Accept, Fresh, Answered
<1>2. CASE Receive(l)
  <2>1. taskQueue' \in Seq(Tasks) /\ Len(taskQueue') = Len(taskQueue) + 1
    BY <1>2, AppendProperties DEF Receive
  <2>2. Len(taskQueue) \in Nat
    BY LenProperties
  <2> QED
    BY <1>2, <2>1, <2>2 DEF Receive
<1>3. CASE ReceiveFails(l)
  BY <1>3 DEF ReceiveFails, Fails
<1> QED
  BY <1>1, <1>2, <1>3 DEF Listen

(* Sending an answer keeps the types of what it touches. *)
LEMMA SendType ==
  ASSUME TypeOK, NEW p \in Procs, NEW code \in Codes \cup {-1}, Send(p, code)
  PROVE  /\ reply' \in [Tasks -> Codes \cup {-1, Pending, Closed}]
         /\ proc' \in [Procs -> [pc : {"idle", "history", "update", "wait"},
                                 task : Tasks \cup {None}]]
BY DEF TypeOK, Send, Rest

(* The steps of thread_process keep the types. *)
LEMMA ProcessType == TypeOK /\ Working /\ (\E p \in Procs : Process(p)) => TypeOK'
<1> SUFFICES ASSUME TypeOK, Working, NEW p \in Procs, Process(p) PROVE TypeOK'
  OBVIOUS
<1> USE UpdateAssumption DEF TypeOK
<1>0. proc[p].pc # "idle" => proc[p].task \in Tasks
  BY DEF Working
<1>1. CASE PopTask(p)
  <2>1. Head(taskQueue) \in Tasks /\ Tail(taskQueue) \in Seq(Tasks)
        /\ Len(Tail(taskQueue)) = Len(taskQueue) - 1 /\ Len(taskQueue) \in Nat
    BY <1>1, HeadTailProperties, LenProperties DEF PopTask
  <2>2. proc' \in [Procs -> [pc : {"idle", "history", "update", "wait"}, task : Tasks \cup {None}]]
    BY <1>1, <2>1 DEF PopTask, First
  <2>3. taskQueue' \in Seq(Tasks) /\ Len(taskQueue') <= QueueSize
    BY <1>1, <2>1 DEF PopTask
  <2> QED
    BY <1>1, <2>2, <2>3 DEF PopTask
<1>2. CASE QueryHistory(p)
  BY <1>2, <1>0 DEF QueryHistory
<1>3. CASE QueryHistoryFails(p)
  BY <1>3, SendType DEF QueryHistoryFails, Fails
<1>4. CASE UpdateCandidate(p)
  BY <1>4, <1>0 DEF UpdateCandidate, Refuses
<1>9. CASE Subscribe(p)
  <2>1. 0 \in Codes
    BY CodesFinite DEF Codes
  <2> QED
    BY <1>9, <1>0, <2>1, SendType DEF Subscribe, Refuses
<1>5. CASE UpdateCandidateFails(p)
  BY <1>5, <1>0, SendType DEF UpdateCandidateFails, Fails
<1>6. CASE Combine(p)
  <2>1. Cardinality(Modules) - Cardinality(acked[proc[p].task]) \in Codes
    BY <1>6, <1>0, CodesFinite DEF Combine
  <2> QED BY <1>6, <2>1, SendType DEF Combine
<1>7. CASE PutMessageFails(p)
  BY <1>7, <1>0, SendType DEF PutMessageFails, Fails
<1>8. CASE GetMessageFails(p)
  BY <1>8, SendType DEF GetMessageFails, Fails
<1> QED
  BY <1>1, <1>2, <1>3, <1>4, <1>5, <1>6, <1>7, <1>8, <1>9 DEF Process

(* The calls to the modules keep the types. *)
LEMMA CalculateType ==
  TypeOK /\ (\E t \in Tasks, m \in Modules : Calculate(t, m)) => TypeOK'
<1> SUFFICES ASSUME TypeOK, NEW t \in Tasks, NEW m \in Modules, Calculate(t, m)
             PROVE  TypeOK'
  OBVIOUS
<1>1. CASE ProcessTask(t, m)
  BY <1>1 DEF TypeOK, ProcessTask
<1>2. CASE ProcessTaskFails(t, m)
  BY <1>2, UpdateAssumption DEF TypeOK, ProcessTaskFails, Fails
<1> QED
  BY <1>1, <1>2 DEF Calculate

-----------------------------------------------------------------------------
(* The other parts of the invariant. *)
LEMMA ListenInvariant == IInv /\ (\E l \in Listeners : Listen(l)) => IInv'
<1> SUFFICES ASSUME IInv, NEW l \in Listeners, Listen(l) PROVE IInv'
  OBVIOUS
<1>1. TypeOK'
  BY ListenType DEF IInv
<1> USE UpdateAssumption DEF IInv, TypeOK
<1>2. CASE Accept(l)
  <2> PICK t \in Fresh : before' = [before EXCEPT ![t] = Answered]
    BY <1>2 DEF Accept
  <2>1. UNCHANGED <<proc, reply, seen, refused, history, todo, acked, applied>>
    BY <1>2 DEF Accept
  <2>2. t \in Tasks /\ ~Begun(t)
    BY DEF Fresh, Taken
  <2>3. Answered \subseteq seen \cup refused
    BY DEF Answered, Actions, Earned
  <2>4. Working' /\ Known' /\ Earned' /\ Taken'
    BY <2>1 DEF Working, Known, Earned, Taken, Begun
  <2>5. \A p \in Procs : proc[p].task # t
    BY DEF Fresh
  <2>6. Prepared'
    BY <2>1, <2>2, <2>3, <2>5 DEF Prepared, Begun, Actions
  <2> QED BY <1>1, <2>4, <2>6
<1>3. CASE Receive(l)
  BY <1>1, <1>3 DEF Receive, Working, Known, Earned, Taken, Begun, Prepared
<1>4. CASE ReceiveFails(l)
  <2>1. /\ reply' = [reply EXCEPT ![listener[l]] = Closed]
        /\ UNCHANGED <<proc, seen, refused, history, todo, acked, applied, before>>
    BY <1>4 DEF ReceiveFails
  <2>2. Closed \notin Codes /\ Closed # 0 /\ Closed # Pending
    BY DEF Closed, Codes, Pending
  <2>3. Working' /\ Known' /\ Prepared'
    BY <2>1 DEF Working, Known, Prepared, Begun
  <2>4. Earned' /\ Taken'
    BY <2>1, <2>2 DEF Earned, Taken, Begun
  <2> QED BY <1>1, <2>3, <2>4
<1> QED
  BY <1>2, <1>3, <1>4 DEF Listen

(* A thread that sends an answer leaves the invariant alone if the answer is
   -1 or a code that was earned. *)
LEMMA SendInvariant ==
  ASSUME IInv, NEW p \in Procs, NEW code \in Codes \cup {-1}, Send(p, code),
         proc[p].pc # "idle",
         seen \subseteq seen', refused \subseteq refused',
         todo' = todo \/ todo' = [todo EXCEPT ![proc[p].task] = {}],
         code \in Codes => proc[p].task \in seen' \cup refused',
         code = 0 /\ Kind[proc[p].task] = "subscribe" => proc[p].task \in seen',
         code = 0 /\ Kind[proc[p].task] # "subscribe" => acked[proc[p].task] = Modules,
         UNCHANGED <<history, acked, applied, before>>
  PROVE  Working' /\ Known' /\ Earned' /\ Taken' /\ Prepared'
<1> USE UpdateAssumption DEF IInv, TypeOK, Send, Rest
<1>1. proc[p].task \in Tasks
  BY DEF Working
<1>2. \A t \in Tasks : todo'[t] # {} => todo[t] # {}
  OBVIOUS
<1>3. code # Pending /\ -1 \notin Codes
  BY CodesFinite DEF Codes, Pending
<1>4. \A q \in Procs : proc'[q] = IF q = p THEN Rest ELSE proc[q]
  OBVIOUS
<1>5. Working'
  BY <1>4 DEF Working
<1>6. Known'
  BY <1>2 DEF Known
<1>7. Earned'
  BY <1>1, <1>3 DEF Earned
<1>8. Taken'
  BY <1>1, <1>2, <1>3, <1>4 DEF Taken, Begun
<1>9. Prepared'
  <2>1. \A t \in Tasks : Begun(t)' => Begun(t)
    BY <1>2 DEF Begun
  <2>2. \A t \in Tasks : before'[t] \subseteq seen' \cup refused'
    BY DEF Prepared
  <2>3. \A t \in Actions : Begun(t)' => before'[t] \subseteq history'[t] \cup refused'
    BY <2>1 DEF Prepared, Actions
  <2>4. \A q \in Procs : proc'[q].pc \in {"update", "wait"} /\ proc'[q].task \in Actions =>
                           before'[proc'[q].task] \subseteq history'[proc'[q].task] \cup refused'
    BY <1>4 DEF Prepared
  <2> QED BY <2>2, <2>3, <2>4 DEF Prepared
<1> QED
  BY <1>5, <1>6, <1>7, <1>8, <1>9

(* The steps of thread_process keep the whole invariant. *)
LEMMA ProcessInvariant == IInv /\ (\E p \in Procs : Process(p)) => IInv'
<1> SUFFICES ASSUME IInv, NEW p \in Procs, Process(p) PROVE IInv'
  OBVIOUS
<1>1. TypeOK'
  BY ProcessType DEF IInv
<1> SUFFICES Working' /\ Known' /\ Earned' /\ Taken' /\ Prepared'
  BY <1>1 DEF IInv
<1>0. proc[p].pc # "idle" => proc[p].task \in Tasks
  BY DEF IInv, Working, TypeOK
<1>2. -1 \in Codes \cup {-1} /\ -1 \notin Codes /\ 0 \in Codes
  BY CodesFinite DEF Codes
<1>3. CASE PopTask(p)
  <2> USE UpdateAssumption DEF IInv, TypeOK
  <2>1. Head(taskQueue) \in Tasks
    BY <1>3, HeadTailProperties DEF PopTask
  <2>2. \A q \in Procs : proc'[q] = IF q = p THEN [pc |-> First(Head(taskQueue)), task |-> Head(taskQueue)]
                                    ELSE proc[q]
    BY <1>3 DEF PopTask
  <2>3. First(Head(taskQueue)) \in {"history", "update"}
        /\ (First(Head(taskQueue)) = "update" => Head(taskQueue) \notin Actions)
    BY DEF First, Actions
  <2>4. UNCHANGED <<reply, seen, refused, history, todo, acked, applied, before>>
    BY <1>3 DEF PopTask
  <2>5. Working'
    <3>1. /\ proc'[p].pc # "idle" /\ proc'[p].pc # "wait" /\ proc'[p].task # None
          /\ \A q \in Procs : q # p => proc'[q] = proc[q]
      BY <2>1, <2>2, <2>3
    <3> HIDE DEF TypeOK
    <3> QED BY <2>4, <3>1 DEF Working
  <2>6. Known' /\ Earned'
    BY <2>4 DEF Known, Earned
  <2>7. proc[p].task = None
    BY <1>3 DEF Working, PopTask
  <2>8. Taken'
    <3>1. \A t \in Tasks, q \in Procs : proc[q].task = t => proc'[q].task = t
      BY <2>2, <2>7
    <3>2. \A t \in Tasks : Begun(t)' <=> Begun(t)
      BY <2>4 DEF Begun
    <3> HIDE DEF TypeOK
    <3> QED BY <2>4, <3>1, <3>2 DEF Taken
  <2>9. ASSUME NEW q \in Procs, proc'[q].pc \in {"update", "wait"}, proc'[q].task \in Actions
        PROVE  before[proc'[q].task] \subseteq history[proc'[q].task] \cup refused
    <3>1. q # p
      BY <2>2, <2>3, <2>9
    <3> QED BY <2>2, <2>9, <3>1 DEF Prepared
  <2>10. Prepared'
    BY <2>4, <2>9 DEF Prepared, Begun
  <2> QED BY <2>5, <2>6, <2>8, <2>10
<1>4. CASE QueryHistory(p)
  <2> USE UpdateAssumption DEF IInv, TypeOK
  <2>1. \A q \in Procs : /\ proc'[q].task = proc[q].task
                         /\ proc'[q].pc = IF q = p THEN "update" ELSE proc[q].pc
    BY <1>4 DEF QueryHistory
  <2>2. UNCHANGED <<reply, seen, refused, todo, acked, applied, before>>
        /\ history' = [history EXCEPT ![proc[p].task] = seen \cap Actions]
        /\ proc[p].pc = "history" /\ proc[p].task \in Tasks
    BY <1>4, <1>0 DEF QueryHistory
  <2>3. Working'
    BY <2>1, <2>2 DEF Working
  <2>4. Known' /\ Earned'
    BY <2>2 DEF Known, Earned
  <2>5. Taken'
    <3>1. \A t \in Tasks : Begun(t)' => Begun(t)
      BY <2>2 DEF Begun
    <3>2. \A t \in Tasks : (\E q \in Procs : proc[q].task = t) => \E q \in Procs : proc'[q].task = t
      BY <2>1
    <3> HIDE DEF TypeOK
    <3> QED BY <2>2, <3>1, <3>2 DEF Taken
  <2>6. \A t \in Tasks : before[t] \subseteq (seen \cap Actions) \cup refused
    BY DEF Prepared
  <2>7. \A t \in Tasks : history'[t] = history[t] \/ before[t] \subseteq history'[t] \cup refused
    BY <2>2, <2>6
  <2>8. before[proc[p].task] \subseteq history'[proc[p].task] \cup refused
    BY <2>2, <2>6
  <2>9. \A t \in Actions : Begun(t)' => before'[t] \subseteq history'[t] \cup refused'
    BY <2>2, <2>7 DEF Prepared, Begun, Actions
  <2>10. ASSUME NEW q \in Procs, proc'[q].pc \in {"update", "wait"}, proc'[q].task \in Actions
         PROVE  before'[proc'[q].task] \subseteq history'[proc'[q].task] \cup refused'
    <3>1. CASE q = p
      BY <2>1, <2>2, <2>8, <3>1
    <3>2. CASE q # p
      <4>1. before[proc[q].task] \subseteq history[proc[q].task] \cup refused /\ proc[q].task \in Tasks
        BY <2>1, <2>10, <3>2 DEF Prepared, Actions
      <4> QED BY <2>1, <2>2, <2>7, <4>1
    <3> QED BY <3>1, <3>2
  <2>11. Prepared'
    BY <2>2, <2>6, <2>9, <2>10 DEF Prepared
  <2> QED BY <2>3, <2>4, <2>5, <2>11
<1>5. CASE QueryHistoryFails(p)
  BY <1>5, <1>2, SendInvariant DEF QueryHistoryFails
<1>6. CASE Subscribe(p)
  BY <1>6, <1>0, <1>2, SendInvariant DEF Subscribe, Refuses
<1>7. CASE UpdateCandidate(p)
  <2> USE UpdateAssumption DEF IInv, TypeOK
  <2>1. \A q \in Procs : /\ proc'[q].task = proc[q].task
                         /\ proc'[q].pc = IF q = p THEN "wait" ELSE proc[q].pc
    BY <1>7 DEF UpdateCandidate
  <2>2. /\ proc[p].task \in Tasks /\ proc[p].pc = "update"
        /\ seen \subseteq seen' /\ refused \subseteq refused'
        /\ proc[p].task \in seen' \cup refused' /\ Kind[proc[p].task] # "subscribe"
        /\ UNCHANGED <<reply, history, acked, applied, before>>
    BY <1>7, <1>0 DEF UpdateCandidate, Refuses
  <2>3. \A t \in Tasks : t # proc[p].task => todo'[t] = todo[t]
    BY <1>7 DEF UpdateCandidate
  <2>4. Working'
    BY <2>1, <2>2 DEF Working
  <2>5. Known' /\ Earned'
    BY <2>2, <2>3 DEF Known, Earned
  <2>6. \A t \in Tasks : t # proc[p].task /\ Begun(t)' => Begun(t)
    BY <2>2, <2>3 DEF Begun
  <2>7. Taken'
    <3>1. \A t \in Tasks : (\E q \in Procs : proc[q].task = t) => \E q \in Procs : proc'[q].task = t
      BY <2>1
    <3>2. \E q \in Procs : proc'[q].task = proc[p].task
      BY <2>1
    <3> HIDE DEF TypeOK
    <3> QED BY <2>2, <2>6, <3>1, <3>2 DEF Taken
  <2>8. \A q \in Procs : proc'[q].pc \in {"update", "wait"} /\ proc'[q].task \in Actions =>
                           before'[proc'[q].task] \subseteq history'[proc'[q].task] \cup refused'
    BY <2>1, <2>2 DEF Prepared
  <2>9. \A t \in Actions : Begun(t)' => before'[t] \subseteq history'[t] \cup refused'
    BY <2>2, <2>6 DEF Prepared, Actions
  <2>10. \A t \in Tasks : before'[t] \subseteq seen' \cup refused'
    BY <2>2 DEF Prepared
  <2>11. Prepared'
    BY <2>8, <2>9, <2>10 DEF Prepared
  <2> QED BY <2>4, <2>5, <2>7, <2>11
<1>8. CASE UpdateCandidateFails(p)
  BY <1>8, <1>2, SendInvariant DEF UpdateCandidateFails
<1>9. CASE Combine(p)
  <2> DEFINE code == Cardinality(Modules) - Cardinality(acked[proc[p].task])
  <2>1. acked[proc[p].task] \in SUBSET Modules /\ proc[p].task \in seen \cup refused
       /\ Kind[proc[p].task] # "subscribe"
    BY <1>9, <1>0 DEF Combine, IInv, TypeOK, Working
  <2>2. code \in Codes /\ (code = 0 => acked[proc[p].task] = Modules)
    BY <2>1, CodesFinite
  <2> QED
    BY <1>9, <2>1, <2>2, SendInvariant DEF Combine
<1>10. CASE PutMessageFails(p)
  BY <1>10, <1>2, SendInvariant DEF PutMessageFails
<1>11. CASE GetMessageFails(p)
  BY <1>11, <1>2, SendInvariant DEF GetMessageFails
<1> QED
  BY <1>3, <1>4, <1>5, <1>6, <1>7, <1>8, <1>9, <1>10, <1>11 DEF Process

(* The calls to the modules keep the whole invariant. *)
LEMMA CalculateInvariant ==
  IInv /\ (\E t \in Tasks, m \in Modules : Calculate(t, m)) => IInv'
<1> SUFFICES ASSUME IInv, NEW t \in Tasks, NEW m \in Modules, Calculate(t, m)
             PROVE  IInv'
  OBVIOUS
<1>1. TypeOK'
  BY CalculateType DEF IInv
<1> USE UpdateAssumption DEF IInv, TypeOK
<1>2. /\ m \in todo[t]
      /\ todo' = [todo EXCEPT ![t] = @ \ {m}]
      /\ applied' = applied \/ applied' = [applied EXCEPT ![m] = @ \cup {t}]
      /\ \/ acked' = acked
         \/ /\ acked' = [acked EXCEPT ![t] = @ \cup {m}]
            /\ applied' = [applied EXCEPT ![m] = @ \cup {t}]
      /\ UNCHANGED <<proc, reply, seen, refused, history, before>>
  <2>1. CASE ProcessTask(t, m)
    BY <2>1 DEF ProcessTask
  <2>2. CASE ProcessTaskFails(t, m)
    <3>1. applied' = applied \/ applied' = [applied EXCEPT ![m] = @ \cup {t}]
      BY <2>2 DEF ProcessTaskFails
    <3>2. /\ m \in todo[t]
          /\ todo' = [todo EXCEPT ![t] = @ \ {m}]
          /\ UNCHANGED <<proc, reply, seen, refused, history, acked, before>>
      BY <2>2 DEF ProcessTaskFails
    <3> QED BY <3>1, <3>2
  <2> QED BY <2>1, <2>2 DEF Calculate
<1>3. Working'
  BY <1>2 DEF Working
<1>4. \A s \in Tasks : acked'[s] = acked[s] \/ (s = t /\ acked'[s] = acked[s] \cup {m} /\ t \in applied'[m])
  BY <1>2
<1>5. \A n \in Modules : applied[n] \subseteq applied'[n] /\ applied'[n] \subseteq applied[n] \cup {t}
  BY <1>2
<1>6. t \in seen \cup refused /\ \A s \in Tasks : todo'[s] # {} => todo[s] # {}
  BY <1>2 DEF Known
<1>7. Known'
  <2>1. \A s \in Tasks : todo'[s] # {} => s \in seen' \cup refused'
    BY <1>2, <1>6 DEF Known
  <2>2. \A s \in Tasks, n \in Modules : s \in applied'[n] => s \in seen' \cup refused'
    BY <1>2, <1>5, <1>6 DEF Known
  <2>3. ASSUME NEW s \in Tasks, NEW n \in acked'[s] PROVE s \in applied'[n]
    <3>1. CASE n \in acked[s]
      BY <1>5, <3>1 DEF Known
    <3>2. CASE n \notin acked[s]
      BY <1>4, <2>3, <3>2
    <3> QED BY <3>1, <3>2
  <2> QED BY <2>1, <2>2, <2>3 DEF Known
<1>8. Earned'
  <2>1. ASSUME NEW s \in Tasks, acked[s] = Modules PROVE acked'[s] = Modules
    <3>1. Modules \cup {m} = Modules
      OBVIOUS
    <3> HIDE DEF TypeOK
    <3> QED BY <1>4, <2>1, <3>1
  <2>2. UNCHANGED <<reply, seen, refused>>
    BY <1>2
  <2> HIDE DEF TypeOK
  <2> QED BY <2>1, <2>2 DEF Earned
<1>9. \A s \in Tasks : Begun(s)' => Begun(s)
  BY <1>2 DEF Begun
<1>10. Taken' /\ Prepared'
  BY <1>2, <1>9 DEF Taken, Prepared, Actions
<1> QED
  BY <1>1, <1>3, <1>7, <1>8, <1>10

-----------------------------------------------------------------------------
(* The invariant holds in every state the center reaches. *)
THEOREM Invariance == Spec => []IInv
<1>1. Init => IInv
  BY InitInvariant
<1>2. IInv /\ [Next]_vars => IInv'
  <2>1. CASE Next
    BY <2>1, ListenInvariant, ProcessInvariant, CalculateInvariant DEF Next
  <2>2. CASE UNCHANGED vars
    BY <2>2 DEF vars, IInv, TypeOK, Working, Known, Earned, Taken, Prepared, Begun,
                Answered, Actions
  <2> QED BY <2>1, <2>2
<1> QED
  BY <1>1, <1>2, PTL DEF Spec

(* The variables keep their types. *)
THEOREM TypeCorrect == Spec => []TypeOK
BY Invariance, PTL DEF IInv

(* Code 0 means that the candidate has taken in a subscription, and of an action
   or a document that the candidate has answered it and every module has it. *)
THEOREM ZeroIsComplete == Spec => []CodeZeroMeansAll
<1>1. IInv => CodeZeroMeansAll
  BY CodesFinite DEF IInv, TypeOK, Earned, Known, CodeZeroMeansAll, Codes
<1> QED
  BY <1>1, Invariance, PTL

(* No module has an action or a document that the candidate has not answered. *)
THEOREM CandidateFirst == Spec => []ModulesAfterCandidate
<1>1. IInv => ModulesAfterCandidate
  BY DEF IInv, TypeOK, Known, ModulesAfterCandidate
<1> QED
  BY <1>1, Invariance, PTL

(* What was answered before an action came in, and not refused by the candidate,
   is in the history the modules get with it. *)
THEOREM HistoryComplete == Spec => []HistoryHoldsAnswered
<1>1. IInv => HistoryHoldsAnswered
  BY DEF IInv, Prepared, Begun, HistoryHoldsAnswered
<1> QED
  BY <1>1, Invariance, PTL

-----------------------------------------------------------------------------
(* Sums, counted. *)

(* What SumTo counts *)
CellsTo(n, k) == UNION {{i} \X (1..n[i]) : i \in 1..k}

(* The sum of finitely many numbers is a number, and what it counts is finite. *)
LEMMA SumType ==
  ASSUME NEW k \in Nat, NEW n, \A i \in 1..k : n[i] \in Nat
  PROVE  IsFiniteSet(CellsTo(n, k)) /\ SumTo(n, k) = Cardinality(CellsTo(n, k)) /\ SumTo(n, k) \in Nat
<1> DEFINE row == [i \in 1..k |-> {i} \X (1..n[i])]
           rows == {{i} \X (1..n[i]) : i \in 1..k}
<1>1. IsFiniteSet(1..k)
  <2>1. 1 \in Int /\ k \in Int
    OBVIOUS
  <2> QED
    BY <2>1, FS_Interval
<1>2. row \in Surjection(1..k, rows)
  BY DEF Surjection
<1>3. IsFiniteSet(rows)
  BY <1>1, <1>2, FS_Surjection
<1>4. \A r \in rows : IsFiniteSet(r)
  <2> SUFFICES ASSUME NEW i \in 1..k PROVE IsFiniteSet({i} \X (1..n[i]))
    OBVIOUS
  <2>1. 1 \in Int /\ n[i] \in Int
    OBVIOUS
  <2> QED
    BY <2>1, FS_Interval, FS_Singleton, FS_Product
<1> HIDE DEF row, rows
<1>5. IsFiniteSet(UNION rows)
  BY <1>3, <1>4, FS_UNION
<1>6. IsFiniteSet(CellsTo(n, k)) /\ SumTo(n, k) = Cardinality(CellsTo(n, k))
  BY <1>5 DEF CellsTo, SumTo, rows
<1> QED
  BY <1>6, FS_CardinalityType

(* The sum of no numbers is zero. *)
LEMMA SumNone == ASSUME NEW n PROVE SumTo(n, 0) = 0
<1>1. SumTo(n, 0) = Cardinality({})
  BY DEF SumTo
<1> QED
  BY <1>1, FS_EmptySet

(* One more number adds itself to the sum. *)
LEMMA SumNext ==
  ASSUME NEW k \in Nat, NEW n, \A i \in 1..(k + 1) : n[i] \in Nat
  PROVE  SumTo(n, k + 1) = SumTo(n, k) + n[k + 1]
<1> DEFINE A == CellsTo(n, k)
           B == {k + 1} \X (1..n[k + 1])
<1>1. CellsTo(n, k + 1) = A \cup B
  <2>1. 1..(k + 1) = (1..k) \cup {k + 1}
    OBVIOUS
  <2> QED
    BY <2>1 DEF CellsTo
<1>2. A \cap B = {}
  BY DEF CellsTo
<1>3. /\ IsFiniteSet(A) /\ SumTo(n, k) = Cardinality(A) /\ SumTo(n, k) \in Nat
      /\ SumTo(n, k + 1) = Cardinality(A \cup B)
  <2>1. (\A i \in 1..k : n[i] \in Nat) /\ k + 1 \in Nat
    OBVIOUS
  <2>2. IsFiniteSet(A) /\ SumTo(n, k) = Cardinality(A) /\ SumTo(n, k) \in Nat
    BY <2>1, SumType
  <2>3. SumTo(n, k + 1) = Cardinality(CellsTo(n, k + 1))
    BY <2>1, SumType
  <2> QED
    BY <1>1, <2>2, <2>3
<1>4. IsFiniteSet(B) /\ Cardinality(B) = n[k + 1]
  <2> DEFINE size == n[k + 1]
  <2>1. size \in Nat /\ 1 \in Int /\ size \in Int
    OBVIOUS
  <2> HIDE DEF size
  <2>2. IsFiniteSet(1..size) /\ Cardinality(1..size) = size
    BY <2>1, FS_Interval
  <2>3. IsFiniteSet({k + 1}) /\ Cardinality({k + 1}) = 1
    BY FS_Singleton
  <2>4. /\ IsFiniteSet({k + 1} \X (1..size))
        /\ Cardinality({k + 1} \X (1..size)) = Cardinality({k + 1}) * Cardinality(1..size)
    BY <2>2, <2>3, FS_Product
  <2>5. 1 * size = size
    BY <2>1
  <2> QED
    BY <2>2, <2>3, <2>4, <2>5 DEF size
<1> HIDE DEF A, B
<1>5. Cardinality(A \cup B) = Cardinality(A) + Cardinality(B) - Cardinality(A \cap B)
  BY <1>3, <1>4, FS_Union
<1>6. Cardinality(A \cap B) = 0
  BY <1>2, FS_EmptySet
<1>7. Cardinality(A) \in Nat /\ Cardinality(B) \in Nat
  BY <1>3, <1>4, FS_CardinalityType
<1>8. Cardinality(A \cup B) = Cardinality(A) + Cardinality(B)
  BY <1>5, <1>6, <1>7
<1> QED
  BY <1>3, <1>4, <1>8

(* The more numbers, the greater the sum. *)
LEMMA SumGrows ==
  ASSUME NEW k \in Nat, NEW j \in 0..k, NEW n, \A i \in 1..k : n[i] \in Nat
  PROVE  SumTo(n, j) <= SumTo(n, k)
<1>1. CellsTo(n, j) \subseteq CellsTo(n, k)
  BY DEF CellsTo
<1>2. /\ IsFiniteSet(CellsTo(n, k)) /\ SumTo(n, k) = Cardinality(CellsTo(n, k))
      /\ SumTo(n, j) = Cardinality(CellsTo(n, j))
  <2>1. j \in Nat /\ \A i \in 1..j : n[i] \in Nat
    OBVIOUS
  <2> QED
    BY <2>1, SumType
<1> QED
  BY <1>1, <1>2, FS_Subset

-----------------------------------------------------------------------------
(* The pieces of a message. *)
PiecesAt(m, g) == Pieces(m, Fields[m.type][g])
At(m, g, i) == Start(m, g) + Offset(PiecesAt(m, g), i)

(* What is said of a field's name *)
LEMMA FieldsAre ==
  ASSUME NEW t \in Types
  PROVE  /\ Fields[t] \in Seq(Names)
         /\ t # "other" => Len(Fields[t]) \in Nat \ {0} /\ Fields[t][1] = "type"
<1>1. \A u \in Types : \A i \in DOMAIN Fields[u] : Fields[u][i] \in Names
  BY DEF Names, ToSet
<1>2. /\ Fields["action"] = parse_action /\ Fields["document"] = parse_document
      /\ Fields["subscribe"] = parse_subscribe /\ Fields["recommend"] = parse_recommend
      /\ Fields["heartbeat"] = parse_heartbeat /\ Fields["feedback"] = parse_feedback
      /\ Fields["other"] = <<>>
      /\ t \in {"action", "document", "subscribe", "recommend", "heartbeat", "feedback", "other"}
  BY DEF Types, Fields
<1> HIDE DEF Names
<1>3. /\ Fields[t] \in Seq(Names)
      /\ t # "other" => Len(Fields[t]) \in Nat \ {0} /\ Fields[t][1] = "type"
  <2>1. CASE t = "action"
    <3>1. DOMAIN parse_action = 1..7 /\ Len(parse_action) = 7 /\ parse_action[1] = "type"
      BY DEF parse_action
    <3>2. \A i \in 1..7 : parse_action[i] \in Names
      BY <1>1, <1>2, <2>1, <3>1
    <3>3. parse_action \in Seq(Names)
      BY <3>2 DEF parse_action
    <3> QED
      BY <1>2, <2>1, <3>1, <3>3
  <2>2. CASE t = "document"
    <3>1. DOMAIN parse_document = 1..12 /\ Len(parse_document) = 12 /\ parse_document[1] = "type"
      BY DEF parse_document
    <3>2. \A i \in 1..12 : parse_document[i] \in Names
      BY <1>1, <1>2, <2>2, <3>1
    <3>3. parse_document \in Seq(Names)
      BY <3>2 DEF parse_document
    <3> QED
      BY <1>2, <2>2, <3>1, <3>3
  <2>3. CASE t = "subscribe"
    <3>1. DOMAIN parse_subscribe = 1..4 /\ Len(parse_subscribe) = 4 /\ parse_subscribe[1] = "type"
      BY DEF parse_subscribe
    <3>2. \A i \in 1..4 : parse_subscribe[i] \in Names
      BY <1>1, <1>2, <2>3, <3>1
    <3>3. parse_subscribe \in Seq(Names)
      BY <3>2 DEF parse_subscribe
    <3> QED
      BY <1>2, <2>3, <3>1, <3>3
  <2>4. CASE t = "recommend"
    <3>1. DOMAIN parse_recommend = 1..4 /\ Len(parse_recommend) = 4 /\ parse_recommend[1] = "type"
      BY DEF parse_recommend
    <3>2. \A i \in 1..4 : parse_recommend[i] \in Names
      BY <1>1, <1>2, <2>4, <3>1
    <3>3. parse_recommend \in Seq(Names)
      BY <3>2 DEF parse_recommend
    <3> QED
      BY <1>2, <2>4, <3>1, <3>3
  <2>5. CASE t = "heartbeat"
    <3>1. DOMAIN parse_heartbeat = 1..2 /\ Len(parse_heartbeat) = 2 /\ parse_heartbeat[1] = "type"
      BY DEF parse_heartbeat
    <3>2. \A i \in 1..2 : parse_heartbeat[i] \in Names
      BY <1>1, <1>2, <2>5, <3>1
    <3>3. parse_heartbeat \in Seq(Names)
      BY <3>2 DEF parse_heartbeat
    <3> QED
      BY <1>2, <2>5, <3>1, <3>3
  <2>6. CASE t = "feedback"
    <3>1. DOMAIN parse_feedback = 1..4 /\ Len(parse_feedback) = 4 /\ parse_feedback[1] = "type"
      BY DEF parse_feedback
    <3>2. \A i \in 1..4 : parse_feedback[i] \in Names
      BY <1>1, <1>2, <2>6, <3>1
    <3>3. parse_feedback \in Seq(Names)
      BY <3>2 DEF parse_feedback
    <3> QED
      BY <1>2, <2>6, <3>1, <3>3
  <2>7. CASE t = "other"
    <3>1. Fields[t] = <<>> /\ <<>> \in Seq(Names)
      BY <1>2, <2>7
    <3> QED
      BY <2>7, <3>1
  <2>8. t \in {"action", "document", "subscribe", "recommend", "heartbeat", "feedback", "other"}
    BY <1>2
  <2>9. \/ t = "action" \/ t = "document" \/ t = "subscribe" \/ t = "recommend"
        \/ t = "heartbeat" \/ t = "feedback" \/ t = "other"
    BY <2>8
  <2> QED
    BY <2>1, <2>2, <2>3, <2>4, <2>5, <2>6, <2>7, <2>9, Zenon
<1> QED
  BY <1>3

(* No type names a field twice. *)
LEMMA FieldsDiffer ==
  ASSUME NEW t \in Types
  PROVE  \A i \in DOMAIN Fields[t], j \in DOMAIN Fields[t] : Fields[t][i] = Fields[t][j] => i = j
<1>1. CASE t = "action"
  BY <1>1 DEF Fields, parse_action
<1>2. CASE t = "document"
  BY <1>2 DEF Fields, parse_document
<1>3. CASE t = "subscribe"
  BY <1>3 DEF Fields, parse_subscribe
<1>4. CASE t = "recommend"
  BY <1>4 DEF Fields, parse_recommend
<1>5. CASE t = "heartbeat"
  BY <1>5 DEF Fields, parse_heartbeat
<1>6. CASE t = "feedback"
  BY <1>6 DEF Fields, parse_feedback
<1>7. CASE t = "other"
  BY <1>7 DEF Fields
<1> QED
  BY <1>1, <1>2, <1>3, <1>4, <1>5, <1>6, <1>7 DEF Types, Fields

(* Sequences of n members laid after each other: which member is where *)
LaidOut(rows, count, n) ==
  /\ Len(Rows(rows, n)) = n * count
  /\ \A i \in 1..count : \A j \in 1..n :
       /\ n * (i - 1) + j \in 1..(n * count)
       /\ Rows(rows, n)[n * (i - 1) + j] = rows[i][j]

(* Sequences laid after each other: what is said of them all, and where. *)
LEMMA RowsAre ==
  ASSUME NEW S, NEW rows, NEW count \in Nat, DOMAIN rows = 1..count, Len(rows) = count,
         NEW n \in {2, 3}, \A i \in 1..count : \A j \in 1..n : rows[i][j] \in S
  PROVE  Rows(rows, n) \in Seq(S) /\ LaidOut(rows, count, n)
<1> DEFINE R == Rows(rows, n)
<1>1. R = [k \in 1..(n * count) |-> rows[((k - 1) \div n) + 1][((k - 1) % n) + 1]]
  BY DEF Rows
<1>2. ASSUME NEW k \in 1..(n * count)
      PROVE  ((k - 1) \div n) + 1 \in 1..count /\ ((k - 1) % n) + 1 \in 1..n
  <2>1. CASE n = 2
    BY <1>2, <2>1
  <2>2. CASE n = 3
    BY <1>2, <2>2
  <2> QED
    BY <2>1, <2>2
<1>3. n * count \in Nat
  BY SMT
<1> HIDE DEF R
<1>4. R \in [1..(n * count) -> S]
  BY <1>1, <1>2
<1>5. R \in Seq(S) /\ Len(R) = n * count
  BY <1>3, <1>4
<1>6. \A i \in 1..count : \A j \in 1..n : /\ n * (i - 1) + j \in 1..(n * count)
                                       /\ R[n * (i - 1) + j] = rows[i][j]
  <2> TAKE i \in 1..count
  <2> TAKE j \in 1..n
  <2>1. PICK k : k = n * (i - 1) + j
    OBVIOUS
  <2>2. k \in 1..(n * count) /\ ((k - 1) \div n) + 1 = i /\ ((k - 1) % n) + 1 = j
    <3>1. CASE n = 2
      BY <2>1, <3>1
    <3>2. CASE n = 3
      BY <2>1, <3>2
    <3> QED
      BY <3>1, <3>2
  <2>3. R[k] = rows[((k - 1) \div n) + 1][((k - 1) % n) + 1]
    BY <1>1, <2>2
  <2>4. k \in 1..(n * count) /\ R[k] = rows[i][j]
    BY <2>2, <2>3, Zenon
  <2> QED
    BY <2>1, <2>4, Zenon
<1> QED
  BY <1>5, <1>6 DEF R, LaidOut

(* A piece that is there *)
Solid == {p \in PieceOf : p.part[1] # "missing"}

(* Each entry of the words has both its members. *)
Complete(m) == \A i \in DOMAIN m.words : m.words[i].lacks = "nothing"

(* The pieces that the rows are made of *)
LEMMA PieceTypes ==
  ASSUME NEW f \in Names
  PROVE  /\ Number(f) \in Solid /\ Value(f) \in Solid
         /\ Missing(f) \in PieceOf /\ Missing(f).part[1] = "missing"
         /\ \A i \in Nat, n \in Nat :
              \A s \in {"size", "text", "count", "id"} : Piece(f, <<s, i>>, n) \in Solid
<1>1. \A i \in Nat, n \in Nat : \A s \in Parts :
        /\ Piece(f, <<s, i>>, n) \in PieceOf
        /\ Piece(f, <<s, i>>, n).part[1] = s
  BY DEF Piece, PieceOf
<1>2. \A i \in Nat, n \in Nat : \A s \in Parts \ {"missing"} : Piece(f, <<s, i>>, n) \in Solid
  BY <1>1 DEF Solid
<1>3. 0 \in Nat /\ 4 \in Nat /\ 8 \in Nat
  OBVIOUS
<1>4. Number(f) \in Solid
  BY <1>2, <1>3 DEF Number, Parts
<1>5. Value(f) \in Solid
  BY <1>2, <1>3 DEF Value, Parts
<1>6. Missing(f) \in PieceOf /\ Missing(f).part[1] = "missing"
  <2>1. Missing(f) = Piece(f, <<"missing", 0>>, 0) /\ "missing" \in Parts
    BY DEF Missing, Parts
  <2> QED
    BY <1>1, <1>3, <2>1
<1> QED
  BY <1>2, <1>4, <1>5, <1>6 DEF Parts

(* A length and its text *)
LEMMA TextIs ==
  ASSUME NEW f \in Names, NEW i \in Nat, NEW n \in Nat
  PROVE  /\ Text(f, i, n) \in Seq(Solid) /\ Len(Text(f, i, n)) = 2
         /\ \A j \in 1..2 : Text(f, i, n)[j] \in Solid
<1>1. Piece(f, <<"size", i>>, 4) \in Solid /\ Piece(f, <<"text", i>>, n) \in Solid
  BY PieceTypes
<1> QED
  BY <1>1 DEF Text

(* A list of texts lacks nothing. *)
LEMMA ArrayIs ==
  ASSUME NEW f \in Names, NEW ns \in Seq(Nat)
  PROVE  Array(f, ns) \in Seq(Solid)
<1> DEFINE rows == [i \in DOMAIN ns |-> Text(f, i, ns[i])]
           count == Len(ns)
<1>1. count \in Nat /\ DOMAIN rows = 1..count /\ Len(rows) = count
  OBVIOUS
<1>2. \A i \in 1..count : \A j \in 1..2 : rows[i][j] \in Solid
  <2> TAKE i \in 1..count
  <2>1. rows[i] = Text(f, i, ns[i]) /\ i \in Nat /\ ns[i] \in Nat
    OBVIOUS
  <2> QED
    BY <2>1, TextIs
<1>3. Array(f, ns) = <<Number(f)>> \o Rows(rows, 2)
  BY DEF Array
<1> HIDE DEF rows, count
<1>4. 2 \in {2, 3}
  OBVIOUS
<1>5. Rows(rows, 2) \in Seq(Solid)
  BY <1>1, <1>2, <1>4, RowsAre
<1>6. <<Number(f)>> \in Seq(Solid)
  BY PieceTypes
<1> QED
  BY <1>3, <1>5, <1>6

(* A list of words lacks something just when one of its entries does. *)
LEMMA ArrayObjectIs ==
  ASSUME NEW f \in Names, NEW es \in Seq(Entry)
  PROVE  /\ ArrayObject(f, es) \in Seq(PieceOf)
         /\ (\A i \in DOMAIN es : es[i].lacks = "nothing") => ArrayObject(f, es) \in Seq(Solid)
         /\ (\E i \in DOMAIN es : es[i].lacks # "nothing") =>
              \E k \in DOMAIN ArrayObject(f, es) : ArrayObject(f, es)[k].part[1] = "missing"
<1> DEFINE rows == [i \in DOMAIN es |-> WordAndCount(f, i, es[i])]
           count == Len(es)
           R == Rows(rows, 3)
<1>1. count \in Nat /\ DOMAIN rows = 1..count /\ Len(rows) = count /\ DOMAIN es = 1..count
  OBVIOUS
<1>2. ASSUME NEW i \in 1..count
      PROVE  /\ \A j \in 1..3 : rows[i][j] \in PieceOf
             /\ es[i].lacks = "nothing" => \A j \in 1..3 : rows[i][j] \in Solid
             /\ es[i].lacks # "nothing" => \E j \in 1..3 : rows[i][j].part[1] = "missing"
  <2> DEFINE t == Text(f, i, es[i].size)
             c == Piece(f, <<"count", i>>, 4)
  <2>1. i \in Nat /\ es[i] \in Entry /\ rows[i] = WordAndCount(f, i, es[i])
    OBVIOUS
  <2>2. es[i].size \in Nat /\ es[i].lacks \in {"nothing", "word", "count"}
    BY <2>1 DEF Entry
  <2>3. t[1] \in Solid /\ t[2] \in Solid
    BY <2>1, <2>2, TextIs
  <2>4. c \in Solid
    BY <2>1, PieceTypes
  <2>5. Missing(f) \in PieceOf /\ Missing(f).part[1] = "missing" /\ Solid \subseteq PieceOf
    BY PieceTypes DEF Solid
  <2>6. WordAndCount(f, i, es[i]) =
          <<IF es[i].lacks = "word" THEN Missing(f) ELSE t[1], t[2],
            IF es[i].lacks = "count" THEN Missing(f) ELSE c>>
    BY DEF WordAndCount
  <2> HIDE DEF t, c, rows
  <2>7. /\ rows[i][1] = (IF es[i].lacks = "word" THEN Missing(f) ELSE t[1])
        /\ rows[i][2] = t[2]
        /\ rows[i][3] = (IF es[i].lacks = "count" THEN Missing(f) ELSE c)
    BY <2>1, <2>6
  <2>8. 1..3 = {1, 2, 3}
    OBVIOUS
  <2>9. \A j \in {1, 2, 3} : rows[i][j] \in PieceOf
    BY <2>3, <2>4, <2>5, <2>7
  <2>10. es[i].lacks = "nothing" => \A j \in {1, 2, 3} : rows[i][j] \in Solid
    BY <2>3, <2>4, <2>7
  <2>11. es[i].lacks # "nothing" => \E j \in {1, 2, 3} : rows[i][j].part[1] = "missing"
    BY <2>2, <2>5, <2>7
  <2> QED
    BY <2>8, <2>9, <2>10, <2>11
<1>3. ArrayObject(f, es) = <<Number(f)>> \o R
  BY DEF ArrayObject
<1>4. 3 \in {2, 3}
  OBVIOUS
<1>5. Number(f) \in Solid /\ Number(f) \in PieceOf
  BY PieceTypes DEF Solid
<1> HIDE DEF rows, count
<1>6. /\ R \in Seq(PieceOf) /\ Len(R) = 3 * count
      /\ \A i \in 1..count : \A j \in 1..3 :
           3 * (i - 1) + j \in 1..(3 * count) /\ R[3 * (i - 1) + j] = rows[i][j]
  <2>1. \A i \in 1..count : \A j \in 1..3 : rows[i][j] \in PieceOf
    BY <1>2
  <2>2. R \in Seq(PieceOf) /\ LaidOut(rows, count, 3)
    BY <1>1, <1>4, <2>1, RowsAre
  <2> QED
    BY <2>2 DEF LaidOut
<1>7. (\A i \in 1..count : es[i].lacks = "nothing") => R \in Seq(Solid)
  <2> HAVE \A i \in 1..count : es[i].lacks = "nothing"
  <2>1. \A i \in 1..count : \A j \in 1..3 : rows[i][j] \in Solid
    BY <1>2
  <2> QED
    BY <1>1, <1>4, <2>1, RowsAre
<1> HIDE DEF R
<1>8. ArrayObject(f, es) \in Seq(PieceOf)
  BY <1>3, <1>5, <1>6
<1>9. R \in Seq(Solid) => ArrayObject(f, es) \in Seq(Solid)
  BY <1>3, <1>5
<1>10. (\E i \in 1..count : es[i].lacks # "nothing") =>
          \E k \in DOMAIN ArrayObject(f, es) : ArrayObject(f, es)[k].part[1] = "missing"
  <2> HAVE \E i \in 1..count : es[i].lacks # "nothing"
  <2>1. PICK i \in 1..count : es[i].lacks # "nothing"
    OBVIOUS
  <2>2. PICK j \in 1..3 : rows[i][j].part[1] = "missing"
    BY <1>2, <2>1
  <2>3. PICK k : k = 3 * (i - 1) + j
    OBVIOUS
  <2>4. k \in 1..Len(R) /\ R[k].part[1] = "missing"
    BY <1>6, <2>2, <2>3
  <2>5. k + 1 \in DOMAIN (<<Number(f)>> \o R) /\ (<<Number(f)>> \o R)[k + 1] = R[k]
    BY <1>6, <2>4
  <2> QED
    BY <1>3, <2>4, <2>5
<1> QED
  BY <1>1, <1>7, <1>8, <1>9, <1>10

(* The pieces of each field; only what a word lacks is missing. *)
LEMMA PiecesType ==
  ASSUME NEW m \in Message, NEW f \in Names
  PROVE  /\ Pieces(m, f) \in Seq(PieceOf)
         /\ f # "word" \/ Complete(m) => Pieces(m, f) \in Seq(Solid)
         /\ f = "word" /\ ~Complete(m) =>
              \E k \in DOMAIN Pieces(m, f) : Pieces(m, f)[k].part[1] = "missing"
<1>1. /\ m.text \in [Texts -> Nat] /\ m.items \in [Lists \cup {"returnlist"} -> Seq(Nat)]
      /\ m.words \in Seq(Entry)
  BY DEF Message
<1>2. \A ps : ps \in Seq(Solid) => ps \in Seq(PieceOf)
  BY DEF Solid
<1>3. CASE f \in Texts
  <2>1. Pieces(m, f) = Text(f, 1, m.text[f]) /\ m.text[f] \in Nat /\ f # "word" /\ 1 \in Nat
    <3>1. Pieces(m, f) = Text(f, 1, m.text[f])
      BY <1>3 DEF Pieces, Texts, Lists
    <3>2. m.text[f] \in Nat
      BY <1>1, <1>3
    <3>3. f # "word" /\ 1 \in Nat
      BY <1>3 DEF Texts
    <3> QED
      BY <3>1, <3>2, <3>3
  <2> QED
    BY <1>2, <2>1, TextIs
<1>4. CASE f \in Lists
  <2>1. Pieces(m, f) = Array(f, m.items[f]) /\ m.items[f] \in Seq(Nat) /\ f # "word"
    BY <1>1, <1>4 DEF Pieces, Lists, Texts
  <2> QED
    BY <1>2, <2>1, ArrayIs
<1>5. CASE f = "word"
  <2>1. Pieces(m, f) = ArrayObject(f, m.words)
    BY <1>5 DEF Pieces, Lists, Texts
  <2> QED
    <3>1. m.words \in Seq(Entry)
      BY <1>1
    <3>2. /\ ArrayObject(f, m.words) \in Seq(PieceOf)
          /\ Complete(m) => ArrayObject(f, m.words) \in Seq(Solid)
          /\ ~Complete(m) => \E k \in DOMAIN ArrayObject(f, m.words) :
                               ArrayObject(f, m.words)[k].part[1] = "missing"
      BY <3>1, ArrayObjectIs DEF Complete
    <3> QED
      BY <1>5, <2>1, <3>2
<1>6. CASE f = "returnlist"
  <2> DEFINE ns == m.items[f]
  <2>1. Pieces(m, f) = Articles(f, ns) /\ ns \in Seq(Nat)
    BY <1>1, <1>6 DEF Pieces, Lists, Texts
  <2>2. Articles(f, ns) = <<Number(f)>> \o [i \in DOMAIN ns |-> Piece(f, <<"id", i>>, 8)]
    BY DEF Articles
  <2> HIDE DEF ns
  <2>3. \A i \in DOMAIN ns : Piece(f, <<"id", i>>, 8) \in Solid
    <3>1. \A i \in DOMAIN ns : i \in Nat
      BY <2>1
    <3>2. \A i \in Nat : Piece(f, <<"id", i>>, 8) \in Solid
      <4>1. 8 \in Nat
        OBVIOUS
      <4> QED
        BY <4>1, PieceTypes
    <3> QED
      BY <3>1, <3>2, Zenon
  <2>4. [i \in DOMAIN ns |-> Piece(f, <<"id", i>>, 8)] \in Seq(Solid)
    <3>1. Len(ns) \in Nat /\ DOMAIN ns = 1..Len(ns)
      BY <2>1
    <3>2. [i \in 1..Len(ns) |-> Piece(f, <<"id", i>>, 8)] \in [1..Len(ns) -> Solid]
      BY <2>3, <3>1
    <3> HIDE DEF Solid
    <3>3. \A h \in [1..Len(ns) -> Solid] : h \in Seq(Solid)
      BY <3>1
    <3> QED
      BY <3>1, <3>2, <3>3
  <2>5. <<Number(f)>> \in Seq(Solid)
    BY PieceTypes
  <2>6. Articles(f, ns) \in Seq(Solid)
    BY <2>2, <2>4, <2>5
  <2> QED
    BY <1>2, <1>6, <2>1, <2>6
<1>7. CASE f \notin Texts \cup Lists \cup {"word", "returnlist"}
  <2>1. Pieces(m, f) = <<Value(f)>>
    BY <1>7 DEF Pieces
  <2>2. <<Value(f)>> \in Seq(Solid)
    BY PieceTypes
  <2> QED
    BY <1>2, <1>7, <2>1, <2>2
<1> QED
  BY <1>3, <1>4, <1>5, <1>6, <1>7

-----------------------------------------------------------------------------
(* Where the pieces of a message are. *)

(* The sizes of a row's pieces, added up *)
LEMMA OffsetsAre ==
  ASSUME NEW ps \in Seq(PieceOf)
  PROVE  /\ Len(ps) \in Nat /\ Width(ps) \in Nat /\ Offset(ps, 1) = 0
         /\ \A i \in 1..(Len(ps) + 1) : Offset(ps, i) \in Nat /\ Offset(ps, i) <= Width(ps)
         /\ \A i \in 1..Len(ps) : Offset(ps, i + 1) = Offset(ps, i) + ps[i].size
<1> DEFINE n == [h \in DOMAIN ps |-> ps[h].size]
           L == Len(ps)
<1>1. L \in Nat /\ DOMAIN ps = 1..L
  OBVIOUS
<1>2. \A i \in 1..L : n[i] \in Nat /\ n[i] = ps[i].size
  <2> TAKE i \in 1..L
  <2>1. ps[i] \in PieceOf /\ n[i] = ps[i].size
    BY <1>1
  <2> QED
    BY <2>1 DEF PieceOf
<1>3. /\ \A i \in 1..(L + 1) : Offset(ps, i) = SumTo(n, i - 1)
      /\ Width(ps) = SumTo(n, L)
  <2>1. \A i \in 1..(L + 1) : Offset(ps, i) = SumTo(n, i - 1)
    BY DEF Offset
  <2>2. Width(ps) = SumTo(n, L + 1 - 1) /\ L + 1 - 1 = L
    BY <1>1 DEF Width, Offset
  <2> QED
    BY <2>1, <2>2
<1> HIDE DEF n, L
<1>4. \A j \in 0..L : SumTo(n, j) \in Nat /\ SumTo(n, j) <= SumTo(n, L)
  <2> TAKE j \in 0..L
  <2>1. j \in Nat /\ (\A i \in 1..j : n[i] \in Nat) /\ (\A i \in 1..L : n[i] \in Nat)
    BY <1>1, <1>2
  <2> QED
    BY <1>1, <2>1, SumType, SumGrows
<1>5. \A i \in 1..(L + 1) : Offset(ps, i) \in Nat /\ Offset(ps, i) <= Width(ps)
  <2> TAKE i \in 1..(L + 1)
  <2>1. i - 1 \in 0..L
    BY <1>1
  <2> QED
    BY <1>3, <1>4, <2>1
<1>6. \A i \in 1..L : Offset(ps, i + 1) = Offset(ps, i) + ps[i].size
  <2> TAKE i \in 1..L
  <2>1. /\ i - 1 \in Nat /\ (i - 1) + 1 = i /\ (i + 1) - 1 = i /\ i \in 1..(L + 1)
        /\ i + 1 \in 1..(L + 1)
    BY <1>1
  <2>2. \A h \in 1..((i - 1) + 1) : n[h] \in Nat
    BY <1>1, <1>2
  <2>3. SumTo(n, (i - 1) + 1) = SumTo(n, i - 1) + n[(i - 1) + 1]
    BY <2>1, <2>2, SumNext, Zenon
  <2>4. SumTo(n, i) = SumTo(n, i - 1) + n[i]
    BY <2>1, <2>3
  <2>5. Offset(ps, i) = SumTo(n, i - 1) /\ Offset(ps, i + 1) = SumTo(n, i)
    BY <1>3, <2>1
  <2> QED
    BY <1>2, <2>4, <2>5
<1>7. Offset(ps, 1) = 0
  <2>1. 1 \in 1..(L + 1) /\ 1 - 1 = 0
    BY <1>1
  <2>2. Offset(ps, 1) = SumTo(n, 0)
    BY <1>3, <2>1
  <2> QED
    BY <2>2, SumNone
<1>8. Width(ps) \in Nat
  BY <1>1, <1>3, <1>4
<1> QED
  BY <1>1, <1>5, <1>6, <1>7, <1>8 DEF L

(* The fields of a message *)
LEMMA MessageFields ==
  ASSUME NEW m \in Message
  PROVE  /\ m.type \in Types /\ Fields[m.type] \in Seq(Names) /\ Len(Fields[m.type]) \in Nat
         /\ DOMAIN Fields[m.type] = 1..Len(Fields[m.type])
         /\ \A g \in 1..Len(Fields[m.type]) :
              Fields[m.type][g] \in Names /\ PiecesAt(m, g) \in Seq(PieceOf)
<1>1. m.type \in Types
  BY DEF Message
<1>2. Fields[m.type] \in Seq(Names)
  BY <1>1, FieldsAre
<1>3. \A g \in 1..Len(Fields[m.type]) : Fields[m.type][g] \in Names
  BY <1>2
<1> QED
  BY <1>1, <1>2, <1>3, PiecesType DEF PiecesAt

(* The sizes of a message's fields, added up *)
LEMMA StartsAre ==
  ASSUME NEW m \in Message
  PROVE  /\ Start(m, 1) = 0
         /\ \A g \in 1..(Len(Fields[m.type]) + 1) : Start(m, g) \in Nat /\ Start(m, g) <= Size(m)
         /\ \A g \in 1..Len(Fields[m.type]) :
              Start(m, g + 1) = Start(m, g) + Width(PiecesAt(m, g))
<1> DEFINE n == [h \in DOMAIN Fields[m.type] |-> Width(Pieces(m, Fields[m.type][h]))]
           L == Len(Fields[m.type])
<1>1. L \in Nat /\ DOMAIN Fields[m.type] = 1..L
  BY MessageFields
<1>2. \A i \in 1..L : n[i] \in Nat /\ n[i] = Width(PiecesAt(m, i))
  <2> TAKE i \in 1..L
  <2>1. PiecesAt(m, i) \in Seq(PieceOf)
    BY MessageFields
  <2>2. n[i] = Width(PiecesAt(m, i))
    BY <1>1 DEF PiecesAt
  <2> QED
    BY <2>1, <2>2, OffsetsAre
<1>3. /\ \A i \in 1..(L + 1) : Start(m, i) = SumTo(n, i - 1)
      /\ Size(m) = SumTo(n, L)
  <2>1. \A i \in 1..(L + 1) : Start(m, i) = SumTo(n, i - 1)
    BY DEF Start
  <2>2. Size(m) = SumTo(n, L + 1 - 1) /\ L + 1 - 1 = L
    BY <1>1 DEF Size, Start
  <2> QED
    BY <2>1, <2>2
<1> HIDE DEF n, L
<1>4. \A j \in 0..L : SumTo(n, j) \in Nat /\ SumTo(n, j) <= SumTo(n, L)
  <2> TAKE j \in 0..L
  <2>1. j \in Nat /\ (\A i \in 1..j : n[i] \in Nat) /\ (\A i \in 1..L : n[i] \in Nat)
    BY <1>1, <1>2
  <2> QED
    BY <1>1, <2>1, SumType, SumGrows
<1>5. \A i \in 1..(L + 1) : Start(m, i) \in Nat /\ Start(m, i) <= Size(m)
  <2> TAKE i \in 1..(L + 1)
  <2>1. i - 1 \in 0..L
    BY <1>1
  <2> QED
    BY <1>3, <1>4, <2>1
<1>6. \A i \in 1..L : Start(m, i + 1) = Start(m, i) + Width(PiecesAt(m, i))
  <2> TAKE i \in 1..L
  <2>1. /\ i - 1 \in Nat /\ (i - 1) + 1 = i /\ (i + 1) - 1 = i /\ i \in 1..(L + 1)
        /\ i + 1 \in 1..(L + 1)
    BY <1>1
  <2>2. \A h \in 1..((i - 1) + 1) : n[h] \in Nat
    BY <1>1, <1>2
  <2>3. SumTo(n, (i - 1) + 1) = SumTo(n, i - 1) + n[(i - 1) + 1]
    BY <2>1, <2>2, SumNext, Zenon
  <2>4. SumTo(n, i) = SumTo(n, i - 1) + n[i]
    BY <2>1, <2>3
  <2>5. Start(m, i) = SumTo(n, i - 1) /\ Start(m, i + 1) = SumTo(n, i)
    BY <1>3, <2>1
  <2> QED
    BY <1>2, <2>4, <2>5
<1>7. Start(m, 1) = 0
  <2>1. 1 \in 1..(L + 1) /\ 1 - 1 = 0
    BY <1>1
  <2>2. Start(m, 1) = SumTo(n, 0)
    BY <1>3, <2>1
  <2> QED
    BY <2>2, SumNone
<1> QED
  BY <1>5, <1>6, <1>7 DEF L

(* A piece begins where the one before it ends, inside a field or across. *)
LEMMA PlacesAre ==
  ASSUME NEW m \in Message, NEW g \in 1..Len(Fields[m.type])
  PROVE  /\ At(m, g, 1) = Start(m, g)
         /\ \A i \in 1..(Len(PiecesAt(m, g)) + 1) :
              At(m, g, i) \in Nat /\ At(m, g, i) <= Start(m, g + 1)
         /\ \A i \in 1..Len(PiecesAt(m, g)) :
              At(m, g, i + 1) = At(m, g, i) + PiecesAt(m, g)[i].size
         /\ At(m, g, Len(PiecesAt(m, g)) + 1) = Start(m, g + 1)
         /\ Start(m, g + 1) \in Nat /\ Start(m, g + 1) <= Size(m)
<1> DEFINE ps == PiecesAt(m, g)
<1>1. ps \in Seq(PieceOf)
  BY MessageFields
<1>2. /\ Start(m, g) \in Nat /\ Start(m, g + 1) \in Nat /\ Start(m, g + 1) <= Size(m)
      /\ Start(m, g + 1) = Start(m, g) + Width(ps)
  <2>1. g \in 1..(Len(Fields[m.type]) + 1) /\ g + 1 \in 1..(Len(Fields[m.type]) + 1)
    BY MessageFields
  <2> QED
    BY <2>1, StartsAre
<1>3. \A i : At(m, g, i) = Start(m, g) + Offset(ps, i)
  BY DEF At
<1>4. Offset(ps, Len(ps) + 1) = Width(ps)
  BY DEF Width
<1> HIDE DEF ps
<1>5. /\ Len(ps) \in Nat /\ Width(ps) \in Nat /\ Offset(ps, 1) = 0
      /\ \A i \in 1..(Len(ps) + 1) : Offset(ps, i) \in Nat /\ Offset(ps, i) <= Width(ps)
      /\ \A i \in 1..Len(ps) : Offset(ps, i + 1) = Offset(ps, i) + ps[i].size
  BY <1>1, OffsetsAre
<1>6. \A i \in 1..(Len(ps) + 1) : At(m, g, i) \in Nat /\ At(m, g, i) <= Start(m, g + 1)
  BY <1>2, <1>3, <1>5
<1>7. \A i \in 1..Len(ps) : At(m, g, i + 1) = At(m, g, i) + ps[i].size
  <2> TAKE i \in 1..Len(ps)
  <2>1. i \in 1..(Len(ps) + 1) /\ ps[i].size \in Nat
    <3>1. ps[i] \in PieceOf
      BY <1>1
    <3> QED
      BY <1>5, <3>1 DEF PieceOf
  <2>2. /\ Offset(ps, i + 1) = Offset(ps, i) + ps[i].size /\ Offset(ps, i) \in Nat
        /\ At(m, g, i + 1) = Start(m, g) + Offset(ps, i + 1)
        /\ At(m, g, i) = Start(m, g) + Offset(ps, i)
    BY <1>3, <1>5, <2>1
  <2> QED
    BY <1>2, <2>1, <2>2
<1> QED
  BY <1>2, <1>3, <1>4, <1>5, <1>6, <1>7 DEF ps

-----------------------------------------------------------------------------
(* What the handlers and the logs read, and where. *)
ReadOf(m, r) ==
  \E g \in 1..Len(Fields[m.type]) : \E i \in 1..Len(PiecesAt(m, g)) :
    r = Read(PiecesAt(m, g)[i], At(m, g, i))

Plain == Names \ (Texts \cup Lists \cup {"word", "returnlist"})
SizeOf(f) == IF f \in Long THEN 8 ELSE 4

(* A field of one number is read whole from where the fields before it end. *)
LEMMA ValueRead ==
  ASSUME NEW m \in Message, NEW g \in 1..Len(Fields[m.type]), Fields[m.type][g] \in Plain
  PROVE  /\ ReadOf(m, Read(Value(Fields[m.type][g]), Start(m, g)))
         /\ Start(m, g + 1) = Start(m, g) + SizeOf(Fields[m.type][g])
<1> DEFINE f == Fields[m.type][g]
<1>1. PiecesAt(m, g) = <<Value(f)>>
  BY DEF PiecesAt, Pieces, Plain
<1>2. Value(f).size = SizeOf(f)
  BY DEF Value, Piece, SizeOf
<1> HIDE DEF f
<1>3. Len(<<Value(f)>>) = 1 /\ <<Value(f)>>[1] = Value(f)
  OBVIOUS
<1>4. /\ At(m, g, 1) = Start(m, g)
      /\ At(m, g, Len(PiecesAt(m, g)) + 1) = Start(m, g + 1)
      /\ \A i \in 1..Len(PiecesAt(m, g)) : At(m, g, i + 1) = At(m, g, i) + PiecesAt(m, g)[i].size
  BY PlacesAre
<1>5. At(m, g, 1 + 1) = Start(m, g) + SizeOf(f) /\ At(m, g, 1 + 1) = Start(m, g + 1)
  <2>1. Len(PiecesAt(m, g)) = 1 /\ PiecesAt(m, g)[1] = Value(f) /\ 1 \in 1..1
    BY <1>1, <1>3
  <2>2. At(m, g, 1 + 1) = Start(m, g + 1)
    BY <1>4, <2>1, Zenon
  <2>3. At(m, g, 1 + 1) = At(m, g, 1) + PiecesAt(m, g)[1].size
    BY <1>4, <2>1, Zenon
  <2> QED
    BY <1>2, <1>4, <2>1, <2>2, <2>3
<1>6. ReadOf(m, Read(Value(f), Start(m, g)))
  <2>1. 1 \in 1..Len(PiecesAt(m, g)) /\ PiecesAt(m, g)[1] = Value(f)
    BY <1>1, <1>3
  <2>2. Read(Value(f), Start(m, g)) = Read(PiecesAt(m, g)[1], At(m, g, 1))
    BY <1>4, <2>1
  <2> QED
    BY <2>1, <2>2 DEF ReadOf
<1> QED
  BY <1>5, <1>6 DEF f

(* A walk over a field from where it begins reads its pieces where they are. *)
LEMMA WalkReads ==
  ASSUME NEW m \in Message, NEW g \in 1..Len(Fields[m.type])
  PROVE  \A r \in Walk(PiecesAt(m, g), Start(m, g)) : ReadOf(m, r)
<1> SUFFICES ASSUME NEW r \in Walk(PiecesAt(m, g), Start(m, g)) PROVE ReadOf(m, r)
  OBVIOUS
<1>1. PICK i \in DOMAIN PiecesAt(m, g) :
        r = Read(PiecesAt(m, g)[i], Start(m, g) + Offset(PiecesAt(m, g), i))
  BY DEF Walk
<1>2. r = Read(PiecesAt(m, g)[i], At(m, g, i))
  BY <1>1 DEF At
<1>3. i \in 1..Len(PiecesAt(m, g))
  BY <1>1, MessageFields
<1> QED
  BY <1>2, <1>3 DEF ReadOf

(* The fields of one number *)
LEMMA PlainNames ==
  /\ {"type", "log", "userid", "docid", "requestnum", "clicktime", "staytime", "action",
      "publictime", "pushtime", "power", "returnnum"} \subseteq Plain
  /\ SizeOf("userid") = 8 /\ SizeOf("docid") = 8
  /\ \A f \in {"type", "log", "requestnum", "clicktime", "staytime", "action", "publictime",
               "pushtime", "power", "returnnum"} : SizeOf(f) = 4
<1>1. \A t \in Types : \A i \in DOMAIN Fields[t] : Fields[t][i] \in Names
  BY DEF Names, ToSet
<1>2. {"action", "document", "recommend", "feedback"} \subseteq Types
  BY DEF Types, Fields
<1>3. /\ Fields["action"] = parse_action /\ Fields["document"] = parse_document
      /\ Fields["recommend"] = parse_recommend /\ Fields["feedback"] = parse_feedback
  BY DEF Fields
<1> HIDE DEF Names
<1>4. {"type", "clicktime", "userid", "docid", "staytime", "action"} \subseteq Names
  <2>1. \A i \in DOMAIN parse_action : parse_action[i] \in Names
    BY <1>1, <1>2, <1>3
  <2> QED
    BY <2>1 DEF parse_action
<1>5. {"publictime", "pushtime", "power"} \subseteq Names
  <2>1. \A i \in DOMAIN parse_document : parse_document[i] \in Names
    BY <1>1, <1>2, <1>3
  <2> QED
    BY <2>1 DEF parse_document
<1>6. {"log", "requestnum"} \subseteq Names
  <2>1. \A i \in DOMAIN parse_recommend : parse_recommend[i] \in Names
    BY <1>1, <1>2, <1>3
  <2> QED
    BY <2>1 DEF parse_recommend
<1>7. "returnnum" \in Names
  <2>1. \A i \in DOMAIN parse_feedback : parse_feedback[i] \in Names
    BY <1>1, <1>2, <1>3
  <2> QED
    BY <2>1 DEF parse_feedback
<1> QED
  BY <1>4, <1>5, <1>6, <1>7 DEF Plain, Texts, Lists, SizeOf, Long

(* The first byte of a message is its type. *)
LEMMA ListenReads ==
  ASSUME NEW m \in Message, m.type # "other"
  PROVE  \A r \in ReadsListen(m) : ReadOf(m, r)
<1>1. /\ Len(Fields[m.type]) \in Nat \ {0} /\ Fields[m.type][1] = "type"
  BY FieldsAre, MessageFields
<1>2. /\ ReadOf(m, Read(Value("type"), Start(m, 1))) /\ Start(m, 1 + 1) = Start(m, 1) + 4
      /\ Start(m, 1) = 0
  <2>1. 1 \in 1..Len(Fields[m.type]) /\ Fields[m.type][1] \in Plain /\ SizeOf("type") = 4
    BY <1>1, PlainNames
  <2> QED
    BY <1>1, <2>1, ValueRead, StartsAre
<1>3. CASE m.type = "recommend"
  <2>1. Fields[m.type] = parse_recommend
    BY <1>3 DEF Fields
  <2>2. Len(Fields[m.type]) = 4 /\ Fields[m.type][2] = "log" /\ 2 \in 1..4
    BY <2>1 DEF parse_recommend
  <2>3. ReadOf(m, Read(Value("log"), Start(m, 2)))
    BY <2>2, PlainNames, ValueRead
  <2>4. Start(m, 2) = 4
    BY <1>2
  <2> QED
    BY <1>2, <1>3, <2>3, <2>4 DEF ReadsListen
<1>4. CASE m.type # "recommend"
  BY <1>2, <1>4 DEF ReadsListen
<1> QED
  BY <1>3, <1>4

(* An action's fields are where process_action and save_log_action read them. *)
LEMMA ActionReads ==
  ASSUME NEW m \in Message, m.type = "action"
  PROVE  \A r \in ReadsAction : ReadOf(m, r)
<1>1. Fields[m.type] = parse_action
  BY DEF Fields
<1>2. /\ Len(Fields[m.type]) = 7
      /\ Fields[m.type][1] = "type" /\ Fields[m.type][2] = "clicktime"
      /\ Fields[m.type][3] = "userid" /\ Fields[m.type][4] = "docid"
      /\ Fields[m.type][5] = "staytime" /\ Fields[m.type][6] = "action"
  BY <1>1 DEF parse_action
<1>3. /\ Start(m, 1) = 0
      /\ \A g \in 1..6 : /\ ReadOf(m, Read(Value(Fields[m.type][g]), Start(m, g)))
                        /\ Start(m, g + 1) = Start(m, g) + SizeOf(Fields[m.type][g])
  <2> SUFFICES ASSUME NEW g \in 1..6
               PROVE  /\ ReadOf(m, Read(Value(Fields[m.type][g]), Start(m, g)))
                      /\ Start(m, g + 1) = Start(m, g) + SizeOf(Fields[m.type][g])
    BY StartsAre
  <2>1. g \in 1..Len(Fields[m.type])
    BY <1>2
  <2>2. Fields[m.type][g] \in {"type", "clicktime", "userid", "docid", "staytime", "action"}
    BY <1>2
  <2>3. Fields[m.type][g] \in Plain
    BY <2>2, PlainNames
  <2> QED
    BY <2>1, <2>3, ValueRead
<1>4. /\ Start(m, 2) = 4 /\ Start(m, 3) = 8 /\ Start(m, 4) = 16 /\ Start(m, 6) = 28
  <2>1. /\ Start(m, 1 + 1) = Start(m, 1) + 4 /\ Start(m, 2 + 1) = Start(m, 2) + 4
        /\ Start(m, 3 + 1) = Start(m, 3) + 8 /\ Start(m, 4 + 1) = Start(m, 4) + 8
        /\ Start(m, 5 + 1) = Start(m, 5) + 4
    BY <1>2, <1>3, PlainNames
  <2> QED
    BY <1>3, <2>1
<1>5. /\ ReadOf(m, Read(Value("clicktime"), 4)) /\ ReadOf(m, Read(Value("userid"), 8))
      /\ ReadOf(m, Read(Value("docid"), 16)) /\ ReadOf(m, Read(Value("action"), 28))
  BY <1>2, <1>3, <1>4
<1> QED
  BY <1>5 DEF ReadsAction

(* A document's fields, its categories and words of whatever length among them,
   are where save_log_document walks. *)
LEMMA DocumentReads ==
  ASSUME NEW m \in Message, m.type = "document"
  PROVE  \A r \in save_log_document(m) : ReadOf(m, r)
<1>1. Fields[m.type] = parse_document
  BY DEF Fields
<1>2. /\ Len(Fields[m.type]) = 12
      /\ Fields[m.type][1] = "type" /\ Fields[m.type][2] = "docid"
      /\ Fields[m.type][3] = "publictime" /\ Fields[m.type][4] = "pushtime"
      /\ Fields[m.type][5] = "power" /\ Fields[m.type][6] = "category"
      /\ Fields[m.type][7] = "word"
  BY <1>1 DEF parse_document
<1>3. /\ Start(m, 1) = 0
      /\ \A g \in 1..5 : /\ ReadOf(m, Read(Value(Fields[m.type][g]), Start(m, g)))
                        /\ Start(m, g + 1) = Start(m, g) + SizeOf(Fields[m.type][g])
  <2> SUFFICES ASSUME NEW g \in 1..5
               PROVE  /\ ReadOf(m, Read(Value(Fields[m.type][g]), Start(m, g)))
                      /\ Start(m, g + 1) = Start(m, g) + SizeOf(Fields[m.type][g])
    BY StartsAre
  <2>1. g \in 1..Len(Fields[m.type])
    BY <1>2
  <2>2. Fields[m.type][g] \in {"type", "docid", "publictime", "pushtime", "power"}
    BY <1>2
  <2>3. Fields[m.type][g] \in Plain
    BY <2>2, PlainNames
  <2> QED
    BY <2>1, <2>3, ValueRead
<1>4. /\ Start(m, 2) = 4 /\ Start(m, 4) = 16 /\ Start(m, 6) = 24
  <2>1. /\ Start(m, 1 + 1) = Start(m, 1) + 4 /\ Start(m, 2 + 1) = Start(m, 2) + 8
        /\ Start(m, 3 + 1) = Start(m, 3) + 4 /\ Start(m, 4 + 1) = Start(m, 4) + 4
        /\ Start(m, 5 + 1) = Start(m, 5) + 4
    BY <1>2, <1>3, PlainNames
  <2> QED
    BY <1>3, <2>1
<1>5. ReadOf(m, Read(Value("docid"), 4)) /\ ReadOf(m, Read(Value("pushtime"), 16))
  BY <1>2, <1>3, <1>4
<1>6. PiecesAt(m, 6) = Pieces(m, "category") /\ PiecesAt(m, 7) = Pieces(m, "word")
  BY <1>2 DEF PiecesAt
<1>7. Start(m, 7) = 24 + Width(Pieces(m, "category"))
  <2>1. 6 \in 1..Len(Fields[m.type]) /\ 6 + 1 = 7
    BY <1>2
  <2>2. Start(m, 6 + 1) = Start(m, 6) + Width(PiecesAt(m, 6))
    BY <2>1, StartsAre
  <2> QED
    BY <1>4, <1>6, <2>1, <2>2
<1>8. /\ \A r \in Walk(Pieces(m, "category"), 24) : ReadOf(m, r)
      /\ \A r \in Walk(Pieces(m, "word"), 24 + Width(Pieces(m, "category"))) : ReadOf(m, r)
  <2>1. 6 \in 1..Len(Fields[m.type]) /\ 7 \in 1..Len(Fields[m.type])
    BY <1>2
  <2>2. /\ \A r \in Walk(PiecesAt(m, 6), Start(m, 6)) : ReadOf(m, r)
        /\ \A r \in Walk(PiecesAt(m, 7), Start(m, 7)) : ReadOf(m, r)
    BY <2>1, WalkReads
  <2> QED
    BY <1>4, <1>6, <1>7, <2>2
<1> QED
  BY <1>5, <1>8 DEF save_log_document

(* A query's fields are where process_query reads them. *)
LEMMA QueryReads ==
  ASSUME NEW m \in Message, m.type = "recommend"
  PROVE  \A r \in ReadsQuery : ReadOf(m, r)
<1>1. Fields[m.type] = parse_recommend
  BY DEF Fields
<1>2. /\ Len(Fields[m.type]) = 4
      /\ Fields[m.type][1] = "type" /\ Fields[m.type][2] = "log"
      /\ Fields[m.type][3] = "userid" /\ Fields[m.type][4] = "requestnum"
  BY <1>1 DEF parse_recommend
<1>3. /\ Start(m, 1) = 0
      /\ \A g \in 1..4 : /\ ReadOf(m, Read(Value(Fields[m.type][g]), Start(m, g)))
                        /\ Start(m, g + 1) = Start(m, g) + SizeOf(Fields[m.type][g])
  <2> SUFFICES ASSUME NEW g \in 1..4
               PROVE  /\ ReadOf(m, Read(Value(Fields[m.type][g]), Start(m, g)))
                      /\ Start(m, g + 1) = Start(m, g) + SizeOf(Fields[m.type][g])
    BY StartsAre
  <2>1. g \in 1..Len(Fields[m.type])
    BY <1>2
  <2>2. Fields[m.type][g] \in {"type", "log", "userid", "requestnum"}
    BY <1>2
  <2>3. Fields[m.type][g] \in Plain
    BY <2>2, PlainNames
  <2> QED
    BY <2>1, <2>3, ValueRead
<1>4. Start(m, 3) = 8 /\ Start(m, 4) = 16
  <2>1. /\ Start(m, 1 + 1) = Start(m, 1) + 4 /\ Start(m, 2 + 1) = Start(m, 2) + 4
        /\ Start(m, 3 + 1) = Start(m, 3) + 8
    BY <1>2, <1>3, PlainNames
  <2> QED
    BY <1>3, <2>1
<1>5. ReadOf(m, Read(Value("userid"), 8)) /\ ReadOf(m, Read(Value("requestnum"), 16))
  BY <1>2, <1>3, <1>4
<1> QED
  BY <1>5 DEF ReadsQuery

(* A feedback's user and number are where process_feedback reads them. *)
LEMMA FeedbackReads ==
  ASSUME NEW m \in Message, m.type = "feedback"
  PROVE  \A r \in ReadsFeedback : ReadOf(m, r)
<1>1. Fields[m.type] = parse_feedback
  BY DEF Fields
<1>2. /\ Len(Fields[m.type]) = 4
      /\ Fields[m.type][1] = "type" /\ Fields[m.type][2] = "userid"
      /\ Fields[m.type][3] = "returnnum"
  BY <1>1 DEF parse_feedback
<1>3. /\ Start(m, 1) = 0
      /\ \A g \in 1..3 : /\ ReadOf(m, Read(Value(Fields[m.type][g]), Start(m, g)))
                        /\ Start(m, g + 1) = Start(m, g) + SizeOf(Fields[m.type][g])
  <2> SUFFICES ASSUME NEW g \in 1..3
               PROVE  /\ ReadOf(m, Read(Value(Fields[m.type][g]), Start(m, g)))
                      /\ Start(m, g + 1) = Start(m, g) + SizeOf(Fields[m.type][g])
    BY StartsAre
  <2>1. g \in 1..Len(Fields[m.type])
    BY <1>2
  <2>2. Fields[m.type][g] \in {"type", "userid", "returnnum"}
    BY <1>2
  <2>3. Fields[m.type][g] \in Plain
    BY <2>2, PlainNames
  <2> QED
    BY <2>1, <2>3, ValueRead
<1>4. Start(m, 2) = 4 /\ Start(m, 3) = 12
  <2>1. Start(m, 1 + 1) = Start(m, 1) + 4 /\ Start(m, 2 + 1) = Start(m, 2) + 8
    BY <1>2, <1>3, PlainNames
  <2> QED
    BY <1>3, <2>1
<1>5. ReadOf(m, Read(Value("userid"), 4)) /\ ReadOf(m, Read(Value("returnnum"), 12))
  BY <1>2, <1>3, <1>4
<1> QED
  BY <1>5 DEF ReadsFeedback

(* Whatever is read of a message, the articles of a feedback aside, is read
   where it is written. *)
LEMMA ReadsArePlaces ==
  ASSUME NEW m \in Message, m.type # "other"
  PROVE  \A r \in Reads(m) : r.piece.field = "returnlist" \/ ReadOf(m, r)
<1>1. \A r \in ReadsListen(m) : ReadOf(m, r)
  BY ListenReads
<1>2. \A r \in ReadsReturned(m) : r.piece.field = "returnlist"
  BY DEF ReadsReturned, Read, Piece
<1>3. CASE m.type = "action"
  <2>1. Reads(m) = ReadsListen(m) \cup ReadsAction
    BY <1>3 DEF Reads
  <2> QED
    BY <1>1, <1>3, <2>1, ActionReads
<1>4. CASE m.type = "document"
  <2>1. Reads(m) = ReadsListen(m) \cup save_log_document(m)
    BY <1>4 DEF Reads
  <2> QED
    BY <1>1, <1>4, <2>1, DocumentReads
<1>5. CASE m.type = "recommend"
  <2>1. Reads(m) = ReadsListen(m) \cup ReadsQuery
    BY <1>5 DEF Reads
  <2> QED
    BY <1>1, <1>5, <2>1, QueryReads
<1>6. CASE m.type = "feedback"
  <2>1. Reads(m) = ReadsListen(m) \cup (ReadsFeedback \cup ReadsReturned(m))
    BY <1>6 DEF Reads
  <2> QED
    BY <1>1, <1>2, <1>6, <2>1, FeedbackReads
<1>7. CASE m.type \notin {"action", "document", "recommend", "feedback"}
  <2>1. Reads(m) = ReadsListen(m)
    BY <1>7 DEF Reads
  <2> QED
    BY <1>1, <2>1
<1> QED
  BY <1>3, <1>4, <1>5, <1>6, <1>7

-----------------------------------------------------------------------------
(* The inductive invariant: the buffer holds the pieces of the fields found so
   far, each where the sizes before it add up to. *)

(* g fields are found, and of the last one's pieces p are written. *)
Placed(m, rest, ps, l, g, p) ==
  /\ m \in Messages /\ m.type # "other" /\ Count(m)
  /\ Len(rest) = Len(Fields[m.type]) - g
  /\ \A h \in 1..Len(rest) : rest[h] = Fields[m.type][g + h]
  /\ \A h \in 1..g : Fields[m.type][h] \in m.has
  /\ g = 0 => ps = <<>> /\ l = 0
  /\ g # 0 => /\ Len(ps) = Len(PiecesAt(m, g)) - p
              /\ \A i \in 1..Len(ps) : ps[i] = PiecesAt(m, g)[p + i]
              /\ l = At(m, g, p + 1)

(* The i-th piece of field g is in the buffer. *)
Holds(m, n, b, l, g, i) ==
  /\ PiecesAt(m, g)[i].part[1] # "missing"
  /\ At(m, g, i) + PiecesAt(m, g)[i].size <= l
  /\ \A k \in 0..(PiecesAt(m, g)[i].size - 1) :
       b[At(m, g, i) + k] = Byte(n, PiecesAt(m, g)[i], k)

Written(m, n, b, l, g, p) ==
  \A h \in 1..g : \A i \in 1..Len(PiecesAt(m, h)) : h # g \/ i <= p => Holds(m, n, b, l, h, i)

LastPieces(m, g) == IF g = 0 THEN 0 ELSE Len(PiecesAt(m, g))

Progress ==
  phase \in {"parsing", "parsed"} =>
    /\ \E g \in 0..Len(Fields[msg.type]) : \E p \in 0..LastPieces(msg, g) :
         Placed(msg, lookups, pieces, len, g, p) /\ Written(msg, number, buf, len, g, p)
    /\ phase = "parsed" => lookups = <<>> /\ pieces = <<>>

(* What was refused is not whole, or too long. *)
RefusedRight == phase = "refused" => ~(Whole(msg) /\ Size(msg) <= Room)

MessageInv == MessageTypeOK /\ Progress /\ RefusedRight /\ ReadsAreFields

-----------------------------------------------------------------------------
(* The number of a message's fields. *)

(* There are finitely many names. *)
LEMMA NamesFinite == IsFiniteSet(Names)
<1> DEFINE set == [t \in Types |-> ToSet(Fields[t])]
           sets == {ToSet(Fields[t]) : t \in Types}
<1>1. IsFiniteSet(Types)
  <2>1. Types = {"action"} \cup {"document"} \cup {"subscribe"} \cup {"recommend"}
                \cup {"heartbeat"} \cup {"feedback"} \cup {"other"}
    BY DEF Types, Fields
  <2>2. \A x : IsFiniteSet({x})
    BY FS_Singleton
  <2>3. \A S, T : IsFiniteSet(S) /\ IsFiniteSet(T) => IsFiniteSet(S \cup T)
    BY FS_Union
  <2> QED
    BY <2>1, <2>2, <2>3
<1>2. set \in Surjection(Types, sets)
  BY DEF Surjection
<1>3. \A t \in Types : IsFiniteSet(ToSet(Fields[t]))
  <2> TAKE t \in Types
  <2> DEFINE F == Fields[t]
  <2>1. F \in Seq(Names)
    BY FieldsAre
  <2>2. Len(F) \in Nat /\ DOMAIN F = 1..Len(F)
    BY <2>1
  <2>3. IsFiniteSet(DOMAIN F)
    <3>1. 1 \in Int /\ Len(F) \in Int
      BY <2>2
    <3> QED
      BY <2>2, <3>1, FS_Interval
  <2>4. F \in Surjection(DOMAIN F, ToSet(F))
    BY <2>1 DEF Surjection, ToSet
  <2> QED
    BY <2>3, <2>4, FS_Surjection
<1> HIDE DEF set
<1>4. IsFiniteSet(sets)
  BY <1>1, <1>2, FS_Surjection
<1>5. \A S \in sets : IsFiniteSet(S)
  BY <1>3
<1>6. Names = UNION sets
  BY DEF Names
<1> HIDE DEF sets
<1> QED
  BY <1>4, <1>5, <1>6, FS_UNION

(* A type has as many names as fields. *)
LEMMA FieldsCounted ==
  ASSUME NEW t \in Types
  PROVE  IsFiniteSet(ToSet(Fields[t])) /\ Cardinality(ToSet(Fields[t])) = Len(Fields[t])
<1> DEFINE F == Fields[t]
<1>1. F \in Seq(Names) /\ Len(F) \in Nat /\ DOMAIN F = 1..Len(F)
  BY FieldsAre
<1>2. \A i \in 1..Len(F), j \in 1..Len(F) : F[i] = F[j] => i = j
  BY <1>1, FieldsDiffer
<1> HIDE DEF F
<1>3. F \in Bijection(1..Len(F), ToSet(F))
  <2>1. F \in [1..Len(F) -> ToSet(F)] /\ \A y \in ToSet(F) : \E i \in 1..Len(F) : F[i] = y
    BY <1>1 DEF ToSet
  <2>2. F \in Surjection(1..Len(F), ToSet(F))
    BY <2>1 DEF Surjection
  <2>3. F \in Injection(1..Len(F), ToSet(F))
    BY <1>2, <2>1 DEF Injection, IsInjective
  <2> QED
    BY <2>2, <2>3 DEF Bijection
<1>4. IsFiniteSet(1..Len(F)) /\ Cardinality(1..Len(F)) = Len(F)
  <2>1. 1 \in Int /\ Len(F) \in Int
    BY <1>1
  <2>2. IsFiniteSet(1..Len(F))
    BY <2>1, FS_Interval
  <2>3. Cardinality(1..Len(F)) = IF 1 > Len(F) THEN 0 ELSE Len(F) - 1 + 1
    BY <2>1, FS_Interval
  <2> QED
    BY <1>1, <2>2, <2>3
<1>5. ExistsBijection(1..Len(F), ToSet(F))
  BY <1>3 DEF ExistsBijection
<1> QED
  BY <1>4, <1>5, FS_Bijection, FS_SameCardinalityBij DEF F

(* A message of just the fields of its type has their number, a type among
   them; and one of that number that lacks none has no others. *)
LEMMA CountsAre ==
  ASSUME NEW m \in Message, m.type # "other"
  PROVE  /\ m.has = ToSet(Fields[m.type]) => Count(m) /\ "type" \in m.has
         /\ (Count(m) /\ \A h \in 1..Len(Fields[m.type]) : Fields[m.type][h] \in m.has)
              => m.has = ToSet(Fields[m.type])
<1> DEFINE F == Fields[m.type]
<1>1. m.type \in Types /\ F \in Seq(Names) /\ Len(F) \in Nat /\ DOMAIN F = 1..Len(F)
  BY MessageFields
<1>2. IsFiniteSet(ToSet(F)) /\ Cardinality(ToSet(F)) = Len(F)
  BY <1>1, FieldsCounted
<1>3. Len(F) \in Nat \ {0} /\ F[1] = "type"
  BY <1>1, FieldsAre
<1>4. IsFiniteSet(m.has)
  <2>1. IsFiniteSet(Names \cup {"unknown"})
    BY NamesFinite, FS_Singleton, FS_Union
  <2>2. m.has \subseteq Names \cup {"unknown"}
    BY DEF Message
  <2> QED
    BY <2>1, <2>2, FS_Subset
<1>5. Count(m) <=> Cardinality(m.has) = Len(F)
  BY DEF Count
<1> HIDE DEF F
<1>6. "type" \in ToSet(F)
  BY <1>1, <1>3 DEF ToSet
<1>7. ASSUME Count(m), \A h \in 1..Len(F) : F[h] \in m.has
      PROVE  m.has = ToSet(F)
  <2>1. ToSet(F) \subseteq m.has
    BY <1>1, <1>7 DEF ToSet
  <2>2. Cardinality(ToSet(F)) = Cardinality(m.has)
    BY <1>2, <1>5, <1>7
  <2> QED
    BY <1>4, <2>1, <2>2, FS_Subset
<1> QED
  BY <1>2, <1>5, <1>6, <1>7 DEF F

-----------------------------------------------------------------------------
(* A message is whole just when all of its pieces are there. *)

(* What the message assumption gives *)
LEMMA MessagesAre ==
  /\ Room \in Nat /\ \A m \in Messages : m \in Message
BY MessageAssumption DEF Room

(* When all pieces of a message have been written, it was whole. *)
LEMMA WholeWhenWritten ==
  ASSUME NEW m \in Message, m.type # "other", m.has = ToSet(Fields[m.type]),
         \A g \in 1..Len(Fields[m.type]) : \A i \in 1..Len(PiecesAt(m, g)) :
           PiecesAt(m, g)[i].part[1] # "missing"
  PROVE  Whole(m)
<1> SUFFICES ASSUME "word" \in m.has PROVE Complete(m)
  BY DEF Whole, Complete
<1>1. PICK g \in 1..Len(Fields[m.type]) : Fields[m.type][g] = "word"
  BY MessageFields DEF ToSet
<1>2. PiecesAt(m, g) = Pieces(m, "word") /\ PiecesAt(m, g) \in Seq(PieceOf) /\ "word" \in Names
  BY <1>1, MessageFields DEF PiecesAt
<1>3. \A i \in DOMAIN Pieces(m, "word") : Pieces(m, "word")[i].part[1] # "missing"
  BY <1>2
<1> QED
  BY <1>2, <1>3, PiecesType

(* A piece is missing of no whole message. *)
LEMMA MissingIsNotWhole ==
  ASSUME NEW m \in Message, NEW g \in 1..Len(Fields[m.type]), Fields[m.type][g] \in m.has,
         NEW i \in 1..Len(PiecesAt(m, g)), PiecesAt(m, g)[i].part[1] = "missing"
  PROVE  ~Whole(m)
<1>1. Fields[m.type][g] \in Names /\ PiecesAt(m, g) = Pieces(m, Fields[m.type][g])
  BY MessageFields DEF PiecesAt
<1>2. ~(PiecesAt(m, g) \in Seq(Solid))
  BY DEF Solid
<1>3. Fields[m.type][g] = "word" /\ ~Complete(m)
  BY <1>1, <1>2, PiecesType
<1> QED
  BY <1>3 DEF Whole, Complete

-----------------------------------------------------------------------------
(* The invariant at the start, and over each action. *)

(* The invariant holds at the start. *)
LEMMA MessageStart == MessageInit => MessageInv
<1> SUFFICES ASSUME MessageInit PROVE MessageInv
  OBVIOUS
<1>1. Room \in Nat /\ MaxMessages \in Nat
  BY MessageAssumption, MessagesAre
<1>2. MessageTypeOK
  BY <1>1 DEF MessageInit, MessageTypeOK
<1>3. Progress /\ RefusedRight /\ ReadsAreFields
  BY DEF MessageInit, Progress, RefusedRight, ReadsAreFields
<1> QED
  BY <1>2, <1>3 DEF MessageInv

(* A message is begun, with nothing found and nothing written, or refused. *)
LEMMA ParseStep == MessageInv /\ parse_json => MessageInv'
<1> SUFFICES ASSUME MessageInv, parse_json PROVE MessageInv'
  OBVIOUS
<1>1. PICK m \in Messages :
        /\ msg' = m
        /\ IF "type" \notin m.has \/ m.type = "other" \/ ~Count(m)
             THEN phase' = "refused" /\ lookups' = <<>>
             ELSE phase' = "parsing" /\ lookups' = Fields[m.type]
  BY DEF parse_json
<1>2. /\ number < MaxMessages /\ number' = number + 1 /\ pieces' = <<>> /\ len' = 0
      /\ readings' = {} /\ buf' = buf
  BY DEF parse_json
<1>3. /\ m \in Message /\ Fields[m.type] \in Seq(Names) /\ Len(Fields[m.type]) \in Nat
      /\ Room \in Nat /\ MaxMessages \in Nat
  BY MessagesAre, MessageFields, MessageAssumption
<1>4. /\ number \in 0..MaxMessages /\ DOMAIN buf = 0..(Room - 1)
  BY DEF MessageInv, MessageTypeOK
<1>5. MessageTypeOK'
  <2>1. number' \in 0..MaxMessages
    BY <1>2, <1>3, <1>4
  <2>2. lookups' \in Seq(Names) /\ phase' \in {"parsing", "refused"}
    <3>1. <<>> \in Seq(Names)
      OBVIOUS
    <3> QED
      BY <1>1, <1>3, <3>1, Zenon
  <2>3. pieces' \in Seq(PieceOf) /\ len' \in 0..Room /\ DOMAIN buf' = 0..(Room - 1)
    BY <1>2, <1>3, <1>4
  <2> QED
    BY <1>1, <2>1, <2>2, <2>3 DEF MessageTypeOK
<1>6. Progress'
  <2> SUFFICES ASSUME phase' \in {"parsing", "parsed"}
               PROVE  /\ phase' = "parsing"
                      /\ \E g \in 0..Len(Fields[m.type]) : \E p \in 0..LastPieces(m, g) :
                           /\ Placed(m, lookups', pieces', len', g, p)
                           /\ Written(m, number', buf', len', g, p)
    BY <1>1 DEF Progress
  <2>1. phase' = "parsing" /\ lookups' = Fields[m.type] /\ m.type # "other" /\ Count(m)
    BY <1>1
  <2>2. Placed(m, Fields[m.type], <<>>, 0, 0, 0)
    <3>1. /\ Len(Fields[m.type]) = Len(Fields[m.type]) - 0
          /\ \A h \in 1..Len(Fields[m.type]) : Fields[m.type][h] = Fields[m.type][0 + h]
          /\ \A h \in 1..0 : Fields[m.type][h] \in m.has
      BY <1>3
    <3> QED
      BY <2>1, <3>1 DEF Placed
  <2>3. Written(m, number', buf', 0, 0, 0)
    BY DEF Written
  <2>4. 0 \in 0..Len(Fields[m.type]) /\ 0 \in 0..LastPieces(m, 0)
    BY <1>3 DEF LastPieces
  <2> QED
    BY <1>2, <2>1, <2>2, <2>3, <2>4
<1>7. RefusedRight'
  <2> SUFFICES ASSUME phase' = "refused" PROVE ~Whole(m)
    BY <1>1 DEF RefusedRight
  <2>1. "type" \notin m.has \/ m.type = "other" \/ ~Count(m)
    BY <1>1
  <2> QED
    BY <1>3, <2>1, CountsAre DEF Whole
<1>8. ReadsAreFields'
  BY <1>2 DEF ReadsAreFields
<1> QED
  BY <1>5, <1>6, <1>7, <1>8 DEF MessageInv

(* What is known while a message is parsed *)
LEMMA WhileParsing ==
  ASSUME MessageInv, phase \in {"parsing", "parsed"}
  PROVE  /\ msg \in Message /\ msg.type # "other" /\ Count(msg)
         /\ \E g \in 0..Len(Fields[msg.type]) : \E p \in 0..LastPieces(msg, g) :
              Placed(msg, lookups, pieces, len, g, p) /\ Written(msg, number, buf, len, g, p)
         /\ phase = "parsed" => lookups = <<>> /\ pieces = <<>>
<1>1. \E g \in 0..Len(Fields[msg.type]) : \E p \in 0..LastPieces(msg, g) :
        Placed(msg, lookups, pieces, len, g, p) /\ Written(msg, number, buf, len, g, p)
  BY DEF MessageInv, Progress
<1>2. msg \in Message /\ msg.type # "other" /\ Count(msg)
  BY <1>1, MessagesAre DEF Placed
<1> QED
  BY <1>1, <1>2 DEF MessageInv, Progress

(* The next field is found, and its pieces are to be written from where the
   field before it ended; or it is not there. *)
LEMMA GetStep == MessageInv /\ GetObjectItem => MessageInv'
<1> SUFFICES ASSUME MessageInv, GetObjectItem PROVE MessageInv'
  OBVIOUS
<1>1. /\ phase = "parsing" /\ pieces = <<>> /\ lookups # <<>>
      /\ msg' = msg /\ number' = number /\ len' = len /\ buf' = buf /\ readings' = readings
  BY DEF GetObjectItem
<1>2. msg \in Message /\ msg.type # "other" /\ Count(msg)
  BY <1>1, WhileParsing
<1> PICK g \in 0..Len(Fields[msg.type]) : \E p \in 0..LastPieces(msg, g) :
        Placed(msg, lookups, pieces, len, g, p) /\ Written(msg, number, buf, len, g, p)
  BY <1>1, WhileParsing
<1>3. PICK p \in 0..LastPieces(msg, g) :
        Placed(msg, lookups, pieces, len, g, p) /\ Written(msg, number, buf, len, g, p)
  OBVIOUS
<1>4. /\ Len(Fields[msg.type]) \in Nat /\ lookups \in Seq(Names) /\ Len(lookups) \in Nat \ {0}
      /\ Len(lookups) = Len(Fields[msg.type]) - g
      /\ \A h \in 1..Len(lookups) : lookups[h] = Fields[msg.type][g + h]
      /\ \A h \in 1..g : Fields[msg.type][h] \in msg.has
  <2>1. lookups \in Seq(Names)
    BY DEF MessageInv, MessageTypeOK
  <2> QED
    BY <1>1, <1>2, <1>3, <2>1, MessageFields DEF Placed
<1>5. /\ g + 1 \in 1..Len(Fields[msg.type])
      /\ Head(lookups) = Fields[msg.type][g + 1]
      /\ Pieces(msg, Head(lookups)) = PiecesAt(msg, g + 1)
  <2>1. g + 1 \in 1..Len(Fields[msg.type]) /\ lookups[1] = Fields[msg.type][g + 1]
    BY <1>4
  <2>2. Head(lookups) = lookups[1]
    BY <1>4
  <2> QED
    BY <2>1, <2>2 DEF PiecesAt
<1>6. CASE Head(lookups) \notin msg.has
  <2>1. phase' = "refused" /\ pieces' = pieces /\ lookups' = lookups
    BY <1>6 DEF GetObjectItem
  <2>2. ~Whole(msg)
    <3>1. Head(lookups) \in ToSet(Fields[msg.type])
      BY <1>2, <1>5, MessageFields DEF ToSet
    <3> QED
      BY <1>6, <3>1 DEF Whole
  <2> QED
    BY <1>1, <2>1, <2>2
       DEF MessageInv, MessageTypeOK, Progress, RefusedRight, ReadsAreFields
<1>7. CASE Head(lookups) \in msg.has
  <2>1. /\ phase' = "parsing" /\ pieces' = PiecesAt(msg, g + 1) /\ lookups' = Tail(lookups)
    BY <1>1, <1>5, <1>7 DEF GetObjectItem
  <2>2. PiecesAt(msg, g + 1) \in Seq(PieceOf) /\ Len(PiecesAt(msg, g + 1)) \in Nat
    BY <1>2, <1>5, MessageFields
  <2>3. len = At(msg, g + 1, 1)
    <3>1. At(msg, g + 1, 1) = Start(msg, g + 1)
      BY <1>2, <1>5, PlacesAre
    <3>2. CASE g = 0
      <4>1. len = 0 /\ Start(msg, 1) = 0
        BY <1>2, <1>3, <3>2, StartsAre DEF Placed
      <4> QED
        BY <3>1, <3>2, <4>1
    <3>3. CASE g # 0
      <4>1. /\ Len(pieces) = Len(PiecesAt(msg, g)) - p /\ len = At(msg, g, p + 1)
            /\ p \in 0..Len(PiecesAt(msg, g)) /\ g \in 1..Len(Fields[msg.type])
        <5>1. p \in 0..Len(PiecesAt(msg, g))
          BY <1>3, <3>3 DEF LastPieces
        <5>2. Len(pieces) = Len(PiecesAt(msg, g)) - p /\ len = At(msg, g, p + 1)
          BY <1>3, <3>3 DEF Placed
        <5>3. g \in 1..Len(Fields[msg.type])
          BY <1>4, <3>3
        <5> QED
          BY <5>1, <5>2, <5>3
      <4>2. Len(PiecesAt(msg, g)) \in Nat
        BY <1>2, <4>1, MessageFields
      <4>3. p = Len(PiecesAt(msg, g))
        BY <1>1, <4>1, <4>2
      <4>4. At(msg, g, Len(PiecesAt(msg, g)) + 1) = Start(msg, g + 1)
        BY <1>2, <4>1, PlacesAre
      <4> QED
        BY <3>1, <4>1, <4>3, <4>4
    <3> QED
      BY <3>2, <3>3
  <2>4. Placed(msg, Tail(lookups), PiecesAt(msg, g + 1), len, g + 1, 0)
    <3>1. Len(Tail(lookups)) = Len(Fields[msg.type]) - (g + 1)
      BY <1>4
    <3>2. \A h \in 1..Len(Tail(lookups)) : Tail(lookups)[h] = Fields[msg.type][(g + 1) + h]
      <4> TAKE h \in 1..Len(Tail(lookups))
      <4>1. Tail(lookups)[h] = lookups[h + 1] /\ h + 1 \in 1..Len(lookups)
        BY <1>4
      <4>2. g + (h + 1) = (g + 1) + h
        BY <1>4
      <4> QED
        BY <1>4, <4>1, <4>2
    <3>3. \A h \in 1..(g + 1) : Fields[msg.type][h] \in msg.has
      <4>1. \A h \in 1..(g + 1) : h \in 1..g \/ h = g + 1
        BY <1>4
      <4> QED
        BY <1>4, <1>5, <1>7, <4>1
    <3>4. /\ Len(PiecesAt(msg, g + 1)) = Len(PiecesAt(msg, g + 1)) - 0
          /\ \A i \in 1..Len(PiecesAt(msg, g + 1)) :
               PiecesAt(msg, g + 1)[i] = PiecesAt(msg, g + 1)[0 + i]
      BY <2>2
    <3>5. g + 1 # 0 /\ 0 + 1 = 1
      BY <1>4
    <3>6. msg \in Messages /\ msg.type # "other" /\ Count(msg)
      BY <1>3 DEF Placed
    <3> QED
      BY <2>3, <3>1, <3>2, <3>3, <3>4, <3>5, <3>6 DEF Placed
  <2>5. Written(msg, number, buf, len, g + 1, 0)
    <3> SUFFICES ASSUME NEW h \in 1..(g + 1), NEW i \in 1..Len(PiecesAt(msg, h)),
                        h # g + 1 \/ i <= 0
                 PROVE  Holds(msg, number, buf, len, h, i)
      BY DEF Written
    <3>1. h \in 1..g
      BY <1>4
    <3>2. h # g \/ i <= p
      <4> SUFFICES ASSUME h = g PROVE i <= p
        OBVIOUS
      <4>1. Len(pieces) = Len(PiecesAt(msg, g)) - p /\ p \in 0..Len(PiecesAt(msg, g))
        BY <1>3, <3>1 DEF Placed, LastPieces
      <4>2. Len(PiecesAt(msg, g)) \in Nat
        BY <1>2, <1>4, <3>1, MessageFields
      <4> QED
        BY <1>1, <4>1, <4>2
    <3> QED
      BY <1>3, <3>1, <3>2 DEF Written
  <2>6. g + 1 \in 0..Len(Fields[msg.type]) /\ 0 \in 0..LastPieces(msg, g + 1)
    BY <1>4, <1>5, <2>2 DEF LastPieces
  <2>7. Progress'
    <3>1. \E g2 \in 0..Len(Fields[msg.type]) : \E p2 \in 0..LastPieces(msg, g2) :
            /\ Placed(msg, lookups', pieces', len, g2, p2)
            /\ Written(msg, number, buf, len, g2, p2)
      BY <2>1, <2>4, <2>5, <2>6
    <3> QED
      BY <1>1, <2>1, <3>1 DEF Progress
  <2>8. MessageTypeOK'
    <3>1. Tail(lookups) \in Seq(Names)
      BY <1>4
    <3> QED
      BY <1>1, <2>1, <2>2, <3>1 DEF MessageInv, MessageTypeOK
  <2> QED
    BY <1>1, <2>1, <2>7, <2>8 DEF MessageInv, RefusedRight, ReadsAreFields
<1> QED
  BY <1>6, <1>7

(* What is known of the piece to be written next: it belongs right behind what
   is written, and inside what the message takes in all. *)
LEMMA NextPiece ==
  ASSUME MessageInv, phase = "parsing", pieces # <<>>,
         NEW g \in 0..Len(Fields[msg.type]), NEW p \in 0..LastPieces(msg, g),
         Placed(msg, lookups, pieces, len, g, p)
  PROVE  /\ g \in 1..Len(Fields[msg.type]) /\ Fields[msg.type][g] \in msg.has
         /\ PiecesAt(msg, g) \in Seq(PieceOf) /\ p + 1 \in 1..Len(PiecesAt(msg, g))
         /\ Len(pieces) = Len(PiecesAt(msg, g)) - p
         /\ \A i \in 1..Len(pieces) : pieces[i] = PiecesAt(msg, g)[p + i]
         /\ Head(pieces) = PiecesAt(msg, g)[p + 1] /\ Head(pieces) \in PieceOf
         /\ Head(pieces).size \in Nat /\ len \in Nat
         /\ len = At(msg, g, p + 1)
         /\ At(msg, g, p + 2) = len + Head(pieces).size
         /\ len + Head(pieces).size <= Size(msg) /\ Size(msg) \in Nat
<1>1. g # 0 /\ Len(Fields[msg.type]) \in Nat /\ msg \in Message
  BY WhileParsing, MessageFields DEF Placed
<1>2. g \in 1..Len(Fields[msg.type])
  BY <1>1
<1>3. PiecesAt(msg, g) \in Seq(PieceOf) /\ Len(PiecesAt(msg, g)) \in Nat
  BY <1>1, <1>2, MessageFields
<1>4. /\ Len(pieces) = Len(PiecesAt(msg, g)) - p
      /\ \A i \in 1..Len(pieces) : pieces[i] = PiecesAt(msg, g)[p + i]
      /\ len = At(msg, g, p + 1)
  BY <1>1 DEF Placed
<1>5. p \in 0..Len(PiecesAt(msg, g))
  BY <1>1 DEF LastPieces
<1>6. pieces \in Seq(PieceOf) /\ Len(pieces) \in Nat \ {0}
  BY DEF MessageInv, MessageTypeOK
<1>7. p + 1 \in 1..Len(PiecesAt(msg, g)) /\ 1 \in 1..Len(pieces)
  BY <1>3, <1>4, <1>5, <1>6
<1>8. Head(pieces) = PiecesAt(msg, g)[p + 1] /\ Head(pieces) \in PieceOf
  <2>1. Head(pieces) = pieces[1]
    BY <1>6
  <2>2. pieces[1] = PiecesAt(msg, g)[p + 1]
    BY <1>4, <1>7
  <2> QED
    BY <1>3, <1>7, <2>1, <2>2
<1>9. Head(pieces).size \in Nat
  BY <1>8 DEF PieceOf
<1>10. /\ At(msg, g, (p + 1) + 1) = At(msg, g, p + 1) + PiecesAt(msg, g)[p + 1].size
       /\ At(msg, g, p + 1) \in Nat
       /\ At(msg, g, (p + 1) + 1) <= Start(msg, g + 1)
       /\ Start(msg, g + 1) \in Nat /\ Start(msg, g + 1) <= Size(msg)
  <2>1. /\ p + 1 \in 1..(Len(PiecesAt(msg, g)) + 1)
        /\ (p + 1) + 1 \in 1..(Len(PiecesAt(msg, g)) + 1)
    BY <1>3, <1>7
  <2> QED
    BY <1>1, <1>2, <1>7, <2>1, PlacesAre
<1>11. Size(msg) \in Nat
  <2>1. /\ Len(Fields[msg.type]) + 1 \in 1..(Len(Fields[msg.type]) + 1)
    BY <1>1
  <2> QED
    BY <1>1, <2>1, StartsAre DEF Size
<1>12. (p + 1) + 1 = p + 2
  BY <1>5, <1>3
<1>13. At(msg, g, p + 2) = len + Head(pieces).size /\ len \in Nat
  BY <1>4, <1>8, <1>10, <1>12
<1>14. len + Head(pieces).size <= Size(msg)
  <2>1. At(msg, g, p + 2) <= Start(msg, g + 1) /\ At(msg, g, p + 2) \in Nat
    BY <1>9, <1>10, <1>12, <1>13
  <2> QED
    BY <1>10, <1>11, <1>13, <2>1
<1> QED
  BY <1>1, <1>2, <1>3, <1>4, <1>7, <1>8, <1>9, <1>11, <1>13, <1>14 DEF Placed

(* A piece is written behind those written, and changes none of them; or it is
   missing or too long, and so is the message. *)
LEMMA PutStep == MessageInv /\ Put => MessageInv'
<1> SUFFICES ASSUME MessageInv, Put PROVE MessageInv'
  OBVIOUS
<1>1. /\ phase = "parsing" /\ pieces # <<>>
      /\ msg' = msg /\ number' = number /\ lookups' = lookups /\ readings' = readings
  BY DEF Put
<1>2. msg \in Message /\ msg.type # "other" /\ Count(msg)
  BY <1>1, WhileParsing
<1> PICK g \in 0..Len(Fields[msg.type]) : \E p \in 0..LastPieces(msg, g) :
      Placed(msg, lookups, pieces, len, g, p) /\ Written(msg, number, buf, len, g, p)
  BY <1>1, WhileParsing
<1>3. PICK p \in 0..LastPieces(msg, g) :
        Placed(msg, lookups, pieces, len, g, p) /\ Written(msg, number, buf, len, g, p)
  OBVIOUS
<1> DEFINE q == Head(pieces)
           ps == PiecesAt(msg, g)
<1>4. /\ g \in 1..Len(Fields[msg.type]) /\ Fields[msg.type][g] \in msg.has
      /\ ps \in Seq(PieceOf) /\ p + 1 \in 1..Len(ps)
      /\ Len(pieces) = Len(ps) - p
      /\ \A i \in 1..Len(pieces) : pieces[i] = ps[p + i]
      /\ q = ps[p + 1] /\ q \in PieceOf
      /\ q.size \in Nat /\ len \in Nat
      /\ len = At(msg, g, p + 1)
      /\ At(msg, g, p + 2) = len + q.size
      /\ len + q.size <= Size(msg) /\ Size(msg) \in Nat
  BY <1>1, <1>3, NextPiece
<1>5. /\ p \in Nat /\ Len(ps) \in Nat /\ Room \in Nat /\ len \in 0..Room
      /\ DOMAIN buf = 0..(Room - 1) /\ pieces \in Seq(PieceOf) /\ Len(pieces) \in Nat \ {0}
  <2>1. Len(ps) \in Nat
    BY <1>4
  <2>2. p \in Nat
    BY <1>4, <2>1 DEF LastPieces
  <2>3. Room \in Nat
    BY MessagesAre
  <2>4. len \in 0..Room /\ DOMAIN buf = 0..(Room - 1) /\ pieces \in Seq(PieceOf)
    BY DEF MessageInv, MessageTypeOK
  <2>5. Len(pieces) \in Nat \ {0}
    BY <1>1, <2>4
  <2> QED
    BY <2>1, <2>2, <2>3, <2>4, <2>5
<1>6. \A h \in 1..g : h \in 1..Len(Fields[msg.type])
  <2>1. g \in 1..Len(Fields[msg.type]) /\ Len(Fields[msg.type]) \in Nat
    BY <1>2, <1>4, MessageFields
  <2> QED
    BY <2>1
<1>7. CASE q.part[1] = "missing" \/ ~Fits(q)
  <2>1. phase' = "refused" /\ pieces' = pieces /\ len' = len /\ buf' = buf
    BY <1>7 DEF Put
  <2>2. ~(Whole(msg) /\ Size(msg) <= Room)
    <3>1. CASE q.part[1] = "missing"
      <4>1. ps[p + 1].part[1] = "missing"
        BY <1>4, <3>1
      <4> QED
        BY <1>2, <1>4, <4>1, MissingIsNotWhole
    <3>2. CASE ~Fits(q)
      <4>1. ~(len + q.size <= Room)
        BY <3>2 DEF Fits
      <4> HIDE DEF q
      <4> QED
        BY <1>4, <1>5, <4>1
    <3> QED
      BY <1>7, <3>1, <3>2
  <2> QED
    BY <1>1, <2>1, <2>2
       DEF MessageInv, MessageTypeOK, Progress, RefusedRight, ReadsAreFields
<1>8. CASE q.part[1] # "missing" /\ Fits(q)
  <2>1. /\ buf' = [k \in DOMAIN buf |->
                     IF k \in len..(len + q.size - 1) THEN Byte(number, q, k - len) ELSE buf[k]]
        /\ len' = len + q.size /\ pieces' = Tail(pieces) /\ phase' = "parsing"
    BY <1>1, <1>8 DEF Put
  <2>2. len + q.size <= Room
    BY <1>8 DEF Fits
  <2> HIDE DEF q, ps
  <2>3. MessageTypeOK'
    <3>1. len' \in 0..Room
      <4>1. len \in Nat /\ q.size \in Nat /\ len' = len + q.size /\ Room \in Nat
        BY <1>4, <1>5, <2>1
      <4> QED
        BY <2>2, <4>1
    <3>2. DOMAIN buf' = 0..(Room - 1)
      BY <1>5, <2>1
    <3>3. Tail(pieces) \in Seq(PieceOf)
      BY <1>5
    <3>4. phase' \in {"free", "parsing", "parsed", "refused"}
      BY <2>1
    <3> QED
      BY <1>1, <2>1, <3>1, <3>2, <3>3, <3>4 DEF MessageInv, MessageTypeOK
  <2>4. Placed(msg, lookups, Tail(pieces), len + q.size, g, p + 1)
    <3>1. Len(Tail(pieces)) = Len(ps) - (p + 1)
      <4>1. Len(Tail(pieces)) = Len(pieces) - 1
        BY <1>5
      <4>2. Len(pieces) = Len(ps) - p
        BY <1>4
      <4> QED
        BY <1>5, <4>1, <4>2
    <3>2. \A i \in 1..Len(Tail(pieces)) : Tail(pieces)[i] = ps[(p + 1) + i]
      <4> TAKE i \in 1..Len(Tail(pieces))
      <4>1. Tail(pieces)[i] = pieces[i + 1] /\ i + 1 \in 1..Len(pieces)
        BY <1>5
      <4>2. p + (i + 1) = (p + 1) + i
        BY <1>5
      <4> QED
        BY <1>4, <4>1, <4>2
    <3>3. len + q.size = At(msg, g, (p + 1) + 1) /\ g # 0
      <4>1. (p + 1) + 1 = p + 2
        BY <1>5
      <4> QED
        BY <1>4, <4>1
    <3> QED
      BY <1>3, <3>1, <3>2, <3>3 DEF Placed, ps
  <2>5. Written(msg, number, buf', len + q.size, g, p + 1)
    <3> SUFFICES ASSUME NEW h \in 1..g, NEW i \in 1..Len(PiecesAt(msg, h)),
                        h # g \/ i <= p + 1
                 PROVE  Holds(msg, number, buf', len + q.size, h, i)
      BY DEF Written
    <3>1. CASE h # g \/ i <= p
      <4> DEFINE size == PiecesAt(msg, h)[i].size
                 at == At(msg, h, i)
      <4>1. Holds(msg, number, buf, len, h, i)
        BY <1>3, <3>1 DEF Written
      <4>2. at \in Nat /\ size \in Nat
        <5>1. h \in 1..Len(Fields[msg.type])
          BY <1>6
        <5>2. PiecesAt(msg, h) \in Seq(PieceOf)
          BY <1>2, <5>1, MessageFields
        <5>3. PiecesAt(msg, h)[i] \in PieceOf /\ i \in 1..(Len(PiecesAt(msg, h)) + 1)
          BY <5>2
        <5>4. size \in Nat
          BY <5>3 DEF PieceOf
        <5>5. at \in Nat
          BY <1>2, <5>1, <5>3, PlacesAre
        <5> QED
          BY <5>4, <5>5
      <4>3. /\ PiecesAt(msg, h)[i].part[1] # "missing" /\ at + size <= len
            /\ \A k \in 0..(size - 1) : buf[at + k] = Byte(number, PiecesAt(msg, h)[i], k)
        BY <4>1 DEF Holds
      <4> HIDE DEF size, at
      <4>4. at + size <= len + q.size
        <5>1. len \in Nat /\ q.size \in Nat /\ at + size <= len
          BY <1>4, <4>3
        <5> QED
          BY <4>2, <5>1
      <4>5. \A k \in 0..(size - 1) : buf'[at + k] = buf[at + k]
        <5> TAKE k \in 0..(size - 1)
        <5>1. at + k \in 0..(Room - 1) /\ at + k \notin len..(len + q.size - 1)
          <6>1. \A a \in Nat, s \in Nat, l \in Nat, r \in Nat, w \in Nat : \A x \in 0..(s - 1) :
                  a + s <= l /\ l <= r => a + x \in 0..(r - 1) /\ a + x \notin l..(l + w - 1)
            OBVIOUS
          <6>2. len \in Nat /\ q.size \in Nat /\ Room \in Nat /\ len <= Room /\ at + size <= len
            BY <1>4, <1>5, <4>3
          <6> QED
            BY <4>2, <6>1, <6>2
        <5> QED
          BY <1>5, <2>1, <5>1
      <4> QED
        BY <4>3, <4>4, <4>5 DEF Holds, size, at
    <3>2. CASE h = g /\ i = p + 1
      <4>1. \A k \in 0..(q.size - 1) : buf'[len + k] = Byte(number, q, k)
        <5> TAKE k \in 0..(q.size - 1)
        <5>1. len + k \in 0..(Room - 1) /\ len + k \in len..(len + q.size - 1)
              /\ (len + k) - len = k
          <6>1. \A a \in Nat, s \in Nat, r \in Nat : \A x \in 0..(s - 1) :
                  a + s <= r => /\ a + x \in 0..(r - 1) /\ a + x \in a..(a + s - 1)
                                /\ (a + x) - a = x
            OBVIOUS
          <6>2. len \in Nat /\ q.size \in Nat /\ Room \in Nat
            BY <1>4, <1>5
          <6> QED
            BY <2>2, <6>1, <6>2
        <5> QED
          BY <1>5, <2>1, <5>1
      <4>2. len + q.size <= len + q.size
        BY <1>4
      <4>3. PiecesAt(msg, h)[i] = q /\ At(msg, h, i) = len
        BY <1>4, <3>2 DEF ps
      <4> QED
        BY <1>8, <4>1, <4>2, <4>3 DEF Holds
    <3>3. (h # g \/ i <= p) \/ (h = g /\ i = p + 1)
      <4>1. i \in Nat
        <5>1. h \in 1..Len(Fields[msg.type])
          BY <1>6
        <5>2. PiecesAt(msg, h) \in Seq(PieceOf)
          BY <1>2, <5>1, MessageFields
        <5> QED
          BY <5>2
      <4> QED
        BY <1>5, <4>1
    <3> QED
      BY <3>1, <3>2, <3>3
  <2>6. g \in 0..Len(Fields[msg.type]) /\ p + 1 \in 0..LastPieces(msg, g)
    BY <1>4, <1>5 DEF LastPieces, ps
  <2>7. Progress'
    <3>1. \E g2 \in 0..Len(Fields[msg.type]) : \E p2 \in 0..LastPieces(msg, g2) :
            /\ Placed(msg, lookups, pieces', len', g2, p2)
            /\ Written(msg, number, buf', len', g2, p2)
      BY <2>1, <2>4, <2>5, <2>6
    <3> QED
      BY <1>1, <2>1, <3>1 DEF Progress
  <2> QED
    BY <1>1, <2>1, <2>3, <2>7 DEF MessageInv, RefusedRight, ReadsAreFields
<1> QED
  BY <1>7, <1>8

(* The invariant and the end of the parsing: everything was found and written. *)
LEMMA AllWritten ==
  ASSUME MessageInv, phase \in {"parsing", "parsed"}, lookups = <<>>, pieces = <<>>
  PROVE  /\ Whole(msg) /\ len = Size(msg)
         /\ \A h \in 1..Len(Fields[msg.type]) : \A i \in 1..Len(PiecesAt(msg, h)) :
              Holds(msg, number, buf, len, h, i)
<1>1. msg \in Message /\ msg.type # "other" /\ Count(msg)
  BY WhileParsing
<1> DEFINE L == Len(Fields[msg.type])
<1> PICK g \in 0..L : \E p \in 0..LastPieces(msg, g) :
      Placed(msg, lookups, pieces, len, g, p) /\ Written(msg, number, buf, len, g, p)
  BY WhileParsing
<1>2. PICK p \in 0..LastPieces(msg, g) :
        Placed(msg, lookups, pieces, len, g, p) /\ Written(msg, number, buf, len, g, p)
  OBVIOUS
<1>3. L \in Nat \ {0} /\ msg.type \in Types
  BY <1>1, FieldsAre, MessageFields
<1>4. g = L
  <2>1. Len(lookups) = L - g /\ Len(lookups) = 0
    BY <1>2 DEF Placed
  <2> QED
    BY <1>3, <2>1
<1>5. PiecesAt(msg, g) \in Seq(PieceOf) /\ Len(PiecesAt(msg, g)) \in Nat
  BY <1>1, <1>3, <1>4, MessageFields
<1>6. p = Len(PiecesAt(msg, g)) /\ len = At(msg, g, p + 1)
  <2>1. g # 0
    BY <1>3, <1>4
  <2>2. Len(pieces) = Len(PiecesAt(msg, g)) - p /\ Len(pieces) = 0 /\ len = At(msg, g, p + 1)
    BY <1>2, <2>1 DEF Placed
  <2>3. p \in 0..Len(PiecesAt(msg, g))
    BY <2>1 DEF LastPieces
  <2> QED
    BY <1>5, <2>2, <2>3
<1>7. len = Size(msg)
  <2>1. At(msg, g, Len(PiecesAt(msg, g)) + 1) = Start(msg, g + 1)
    BY <1>1, <1>3, <1>4, PlacesAre
  <2> QED
    BY <1>4, <1>6, <2>1 DEF Size
<1>8. ASSUME NEW h \in 1..L, NEW i \in 1..Len(PiecesAt(msg, h))
      PROVE  Holds(msg, number, buf, len, h, i)
  <2>1. h # g \/ i <= p
    BY <1>5, <1>6
  <2> QED
    BY <1>2, <1>4, <2>1 DEF Written
<1>9. msg.has = ToSet(Fields[msg.type])
  <2>1. \A h \in 1..L : Fields[msg.type][h] \in msg.has
    BY <1>2, <1>4 DEF Placed
  <2> QED
    BY <1>1, <2>1, CountsAre
<1>10. Whole(msg)
  <2>1. \A h \in 1..L : \A i \in 1..Len(PiecesAt(msg, h)) :
          PiecesAt(msg, h)[i].part[1] # "missing"
    BY <1>8 DEF Holds
  <2> QED
    BY <1>1, <1>9, <2>1, WholeWhenWritten
<1> QED
  BY <1>7, <1>8, <1>10

(* The end of the parsing changes nothing. *)
LEMMA ParsedStep == MessageInv /\ Parsed => MessageInv'
<1> SUFFICES ASSUME MessageInv, Parsed PROVE MessageInv'
  OBVIOUS
<1>1. /\ phase = "parsing" /\ phase' = "parsed" /\ pieces = <<>> /\ lookups = <<>>
      /\ msg' = msg /\ number' = number /\ lookups' = lookups /\ pieces' = pieces
      /\ len' = len /\ buf' = buf /\ readings' = readings
  BY DEF Parsed
<1>2. \E g \in 0..Len(Fields[msg.type]) : \E p \in 0..LastPieces(msg, g) :
        Placed(msg, lookups, pieces, len, g, p) /\ Written(msg, number, buf, len, g, p)
  BY <1>1, WhileParsing
<1>3. Progress'
  BY <1>1, <1>2 DEF Progress
<1> QED
  BY <1>1, <1>3 DEF MessageInv, MessageTypeOK, RefusedRight, ReadsAreFields

(* What is read is what was written: each place that is read is that of a piece,
   and the buffer holds all pieces. *)
LEMMA ReadStep == MessageInv /\ ReadTask => MessageInv'
<1> SUFFICES ASSUME MessageInv, ReadTask PROVE MessageInv'
  OBVIOUS
<1>1. /\ phase = "parsed" /\ phase' = "free"
      /\ msg' = msg /\ number' = number /\ lookups' = lookups /\ pieces' = pieces
      /\ len' = len /\ buf' = buf
      /\ readings' = {[wanted |-> Bytes(number, r.piece),
                       got |-> [k \in 0..(r.piece.size - 1) |-> buf[r.at + k]],
                       field |-> r.piece.field] : r \in Reads(msg)}
  BY DEF ReadTask
<1>2. msg \in Message /\ msg.type # "other" /\ lookups = <<>> /\ pieces = <<>>
  BY <1>1, WhileParsing
<1>3. ASSUME NEW r \in Reads(msg), r.piece.field # "returnlist"
      PROVE  [k \in 0..(r.piece.size - 1) |-> buf[r.at + k]] = Bytes(number, r.piece)
  <2>1. ReadOf(msg, r)
    BY <1>2, <1>3, ReadsArePlaces
  <2>2. PICK g \in 1..Len(Fields[msg.type]) : \E i \in 1..Len(PiecesAt(msg, g)) :
          r = Read(PiecesAt(msg, g)[i], At(msg, g, i))
    BY <2>1 DEF ReadOf
  <2>3. PICK i \in 1..Len(PiecesAt(msg, g)) : r = Read(PiecesAt(msg, g)[i], At(msg, g, i))
    BY <2>2
  <2>4. r.piece = PiecesAt(msg, g)[i] /\ r.at = At(msg, g, i)
    BY <2>3 DEF Read
  <2>5. Holds(msg, number, buf, len, g, i)
    BY <1>1, <1>2, AllWritten
  <2>6. \A k \in 0..(r.piece.size - 1) : buf[r.at + k] = Byte(number, r.piece, k)
    BY <2>4, <2>5 DEF Holds
  <2> QED
    BY <2>6 DEF Bytes
<1>4. ReadsAreFields'
  <2> SUFFICES ASSUME NEW s \in readings', s.field # "returnlist" PROVE s.got = s.wanted
    BY DEF ReadsAreFields
  <2>1. PICK r \in Reads(msg) :
          s = [wanted |-> Bytes(number, r.piece),
               got |-> [k \in 0..(r.piece.size - 1) |-> buf[r.at + k]],
               field |-> r.piece.field]
    BY <1>1
  <2>2. /\ r.piece.field # "returnlist" /\ s.wanted = Bytes(number, r.piece)
        /\ s.got = [k \in 0..(r.piece.size - 1) |-> buf[r.at + k]]
    BY <2>1
  <2> QED
    BY <1>3, <2>2
<1> QED
  BY <1>1, <1>4 DEF MessageInv, MessageTypeOK, Progress, RefusedRight

(* Each step keeps the invariant. *)
LEMMA MessageStep == MessageInv /\ [MessageNext]_messageVars => MessageInv'
<1> SUFFICES ASSUME MessageInv, [MessageNext]_messageVars PROVE MessageInv'
  OBVIOUS
<1>1. CASE parse_json
  BY <1>1, ParseStep
<1>2. CASE GetObjectItem
  BY <1>2, GetStep
<1>3. CASE Put
  BY <1>3, PutStep
<1>4. CASE Parsed
  BY <1>4, ParsedStep
<1>5. CASE ReadTask
  BY <1>5, ReadStep
<1>6. CASE Close
  BY <1>6 DEF Close, MessageInv, MessageTypeOK, Progress, RefusedRight, ReadsAreFields
<1>7. CASE UNCHANGED messageVars
  BY <1>7 DEF messageVars, MessageInv, MessageTypeOK, Progress, RefusedRight, ReadsAreFields
<1> QED
  BY <1>1, <1>2, <1>3, <1>4, <1>5, <1>6, <1>7 DEF MessageNext

-----------------------------------------------------------------------------
(* The inductive invariant holds throughout: the buffer of a task holds what was
   found of its message, each piece in its place. *)
THEOREM MessageInvariance == MessageSpec => []MessageInv
<1> QED
  BY MessageStart, MessageStep, PTL DEF MessageSpec

(* Types, and that no message is written past the end of its task's buffer
   (the comparisons of len with binary_size in the six functions). *)
THEOREM MessageTypeCorrect == MessageSpec => []MessageTypeOK
<1>1. MessageInv => MessageTypeOK
  BY DEF MessageInv
<1> QED
  BY <1>1, MessageInvariance, PTL

(* parse_json accepts just the messages with all the fields of their type and no
   other that fit into the buffer, and returns their size. *)
THEOREM RightAccepted == MessageSpec => []AcceptsWhatFits
<1>1. MessageInv => AcceptsWhatFits
  <2> SUFFICES ASSUME MessageInv PROVE AcceptsWhatFits
    OBVIOUS
  <2>1. phase = "refused" => ~(Whole(msg) /\ Size(msg) <= Room)
    BY DEF MessageInv, RefusedRight
  <2>2. ASSUME phase = "parsed" PROVE Whole(msg) /\ Size(msg) <= Room /\ len = Size(msg)
    <3>1. lookups = <<>> /\ pieces = <<>>
      BY <2>2, WhileParsing
    <3>2. Whole(msg) /\ len = Size(msg)
      BY <2>2, <3>1, AllWritten
    <3>3. len <= Room
      BY MessagesAre DEF MessageInv, MessageTypeOK
    <3> QED
      BY <3>2, <3>3
  <2> QED
    BY <2>1, <2>2 DEF AcceptsWhatFits
<1> QED
  BY <1>1, MessageInvariance, PTL

(* What the handlers and the logs read of a message at their fixed offsets is
   the field they mean, of this message, however long its texts and lists are;
   the articles of a feedback aside. *)
THEOREM FieldsReadRight == MessageSpec => []ReadsAreFields
<1>1. MessageInv => ReadsAreFields
  BY DEF MessageInv
<1> QED
  BY <1>1, MessageInvariance, PTL
=============================================================================
