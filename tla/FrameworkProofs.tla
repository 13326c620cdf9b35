--------------------------- MODULE FrameworkProofs ---------------------------
(***************************************************************************)
(* Theorems about the threads of framework/CF_framework_module.h: those of *)
(* the topic and of the network, for a topic of any length, any workers    *)
(* and clients, any number of crashes and failing calls; and the timers    *)
(* that thread_persistent polls, for hours and days of any length, any     *)
(* moments in them, any interval and any gap between polls.                *)
(***************************************************************************)
EXTENDS FrameworkModule, ServiceGlue, FiniteSetTheorems, TLAPS

-----------------------------------------------------------------------------
(* What this process has taken from the topic and the offset file does not
   count yet is done, refused or in hand: no commit skips anything else.  A
   process that is down has nothing in hand. *)
Handed == IF up THEN \A n \in 1..Messages : offset < n /\ n <= consumed =>
                       n \in done \cup refused \cup {current}
                ELSE current = 0

IInv == TypeOK /\ Handed /\ OneLostPerCrash

-----------------------------------------------------------------------------
(* The steps of the topic keep the types. *)
LEMMA TopicTypes ==
  ASSUME TypeOK, Handed, initFramework \/ Kafka \/ commitOffset
  PROVE  TypeOK'
<1>0. /\ consumed \in 0..Messages /\ offset \in 0..Messages /\ offset <= consumed
      /\ current \in {0, consumed} /\ faults \in 0..MaxFaults
      /\ done \subseteq 1..Messages /\ refused \subseteq 1..Messages
      /\ Messages \in Nat /\ MaxFaults \in Nat
  BY ModuleAssumption DEF TypeOK
<1>1. CASE initFramework
  <2>1. current = 0
    BY <1>1 DEF initFramework, Handed
  <2> QED
    BY <1>0, <1>1, <2>1 DEF initFramework, TypeOK, network
<1>2. CASE consume
  BY <1>0, <1>2 DEF consume, TypeOK, network
<1>3. CASE updateMessage
  BY <1>0, <1>3 DEF updateMessage, TypeOK, network
<1>4. CASE dropMessage
  BY <1>0, <1>4 DEF dropMessage, TypeOK, network
<1>5. CASE commitOffset
  BY <1>0, <1>5 DEF commitOffset, TypeOK, network
<1> QED
  BY <1>1, <1>2, <1>3, <1>4, <1>5 DEF Kafka

(* So do those of the network's threads, and they leave the topic alone. *)
LEMMA NetworkTypes ==
  ASSUME TypeOK, NEW w \in Workers, Network(w)
  PROVE  TypeOK' /\ UNCHANGED <<up, topic, crashes>>
<1> DEFINE Works == [pc : {"accept", "parse", "handle", "send"}, client : Clients \cup {None}]
<1>0. /\ worker \in [Workers -> Works] /\ worker[w] \in Works
      /\ conn \in [Clients -> {"new", "waiting", "open", "closed", "answered"}]
      /\ reply \in [Clients -> {"none", "zero", "failed"}]
      /\ faults \in 0..MaxFaults /\ MaxFaults \in Nat
  BY ModuleAssumption DEF TypeOK
<1>1. UNCHANGED <<up, topic, crashes>>
  BY DEF Network, accept, recvFails, parse, handle, send
<1>2. worker' \in [Workers -> Works]
  <2>1. Free \in Works
    BY DEF Free
  <2>2. \A c \in {"handle", "send"} : [worker[w] EXCEPT !.pc = c] \in Works
    BY <1>0
  <2>3. CASE accept(w)
    <3>1. PICK c \in Clients : worker' = [worker EXCEPT ![w] = [pc |-> "parse", client |-> c]]
      BY <2>3 DEF accept
    <3> QED
      BY <1>0, <3>1
  <2>4. CASE recvFails(w) \/ send(w)
    BY <1>0, <2>1, <2>4 DEF recvFails, send
  <2>5. CASE parse(w)
    BY <1>0, <2>1, <2>2, <2>5 DEF parse
  <2>6. CASE handle(w)
    BY <1>0, <2>2, <2>6 DEF handle
  <2> QED
    BY <2>3, <2>4, <2>5, <2>6 DEF Network
<1>3. conn' \in [Clients -> {"new", "waiting", "open", "closed", "answered"}]
  BY <1>0 DEF Network, accept, recvFails, parse, handle, send
<1>4. reply' \in [Clients -> {"none", "zero", "failed"}]
  BY <1>0 DEF Network, accept, recvFails, parse, handle, send
<1>5. faults' \in 0..MaxFaults
  BY <1>0 DEF Network, accept, recvFails, parse, handle, send
<1> HIDE DEF Works
<1> QED
  BY <1>1, <1>2, <1>3, <1>4, <1>5 DEF TypeOK, topic, Works

(* A client that connects and a process that dies keep the types, too. *)
LEMMA OtherTypes ==
  ASSUME TypeOK, Crash \/ \E c \in Clients : Connect(c)
  PROVE  TypeOK'
<1>1. CASE Crash
  <2>1. worker' \in [Workers -> [pc : {"accept", "parse", "handle", "send"},
                                 client : Clients \cup {None}]]
    BY <1>1 DEF Crash, Free
  <2>2. conn' \in [Clients -> {"new", "waiting", "open", "closed", "answered"}]
    BY <1>1 DEF Crash, TypeOK
  <2>3. crashes' \in 0..MaxCrashes
    BY <1>1, ModuleAssumption DEF Crash, TypeOK
  <2> QED
    BY <1>1, <2>1, <2>2, <2>3 DEF Crash, TypeOK
<1>2. ASSUME NEW c \in Clients, Connect(c)
      PROVE  TypeOK'
  BY <1>2 DEF Connect, TypeOK, topic
<1> QED
  BY <1>1, <1>2

-----------------------------------------------------------------------------
(* What is missing is a finite set, and what is in a smaller set is less. *)
LEMMA MissingFinite ==
  ASSUME TypeOK, NEW S, S \subseteq Missing
  PROVE  /\ IsFiniteSet(Missing) /\ Cardinality(Missing) \in Nat
         /\ Cardinality(S) \in Nat /\ Cardinality(S) <= Cardinality(Missing)
<1>1. IsFiniteSet(1..offset)
  BY FS_Interval, ModuleAssumption DEF TypeOK
<1>2. IsFiniteSet(Missing)
  BY <1>1, FS_Subset DEF Missing
<1> QED
  BY <1>2, FS_Subset, FS_CardinalityType

(* A step that crashes nothing adds nothing to what is missing; a crash adds
   the message in hand at most. *)
LEMMA MissingStep ==
  ASSUME IInv, [Next]_vars
  PROVE  IF Crash THEN Missing' \subseteq Missing \cup {current} ELSE Missing' \subseteq Missing
<1>0. /\ consumed \in 0..Messages /\ offset \in 0..Messages /\ offset <= consumed
      /\ current \in {0, consumed} /\ Messages \in Nat
  BY ModuleAssumption DEF IInv, TypeOK
<1>1. CASE initFramework
  BY <1>1 DEF initFramework, Missing
<1>2. CASE Kafka
  <2>1. CASE consume
    BY <1>0, <2>1 DEF consume, Missing
  <2>2. CASE updateMessage \/ dropMessage
    BY <1>0, <2>2 DEF updateMessage, dropMessage, Missing
  <2> QED
    BY <1>2, <2>1, <2>2 DEF Kafka
<1>3. CASE commitOffset
  <2>1. /\ up /\ offset' = consumed
        /\ UNCHANGED <<done, refused, current>>
    BY <1>3 DEF commitOffset
  <2>2. ASSUME NEW n \in Missing'
        PROVE  n \in Missing
    <3>1. n \in 1..consumed /\ n \notin done \cup refused \cup {current}
      BY <2>1, <2>2 DEF Missing
    <3>2. n \in 1..Messages /\ n <= consumed
      BY <1>0, <3>1
    <3>3. ~(offset < n)
      BY <2>1, <3>1, <3>2 DEF IInv, Handed
    <3> QED
      BY <1>0, <3>1, <3>3 DEF Missing
  <2> QED
    BY <2>2, <1>3 DEF commitOffset, Crash
<1>4. CASE \E w \in Workers : Network(w)
  <2>1. UNCHANGED topic
    BY <1>4, NetworkTypes DEF IInv
  <2> QED
    BY <2>1 DEF topic, Missing
<1>5. CASE \E c \in Clients : Connect(c)
  BY <1>5 DEF Connect, topic, Missing
<1>6. CASE Crash
  BY <1>6 DEF Crash, Missing
<1>7. CASE UNCHANGED vars
  BY <1>7 DEF vars, topic, Missing
<1> QED
  BY <1>1, <1>2, <1>3, <1>4, <1>5, <1>6, <1>7 DEF Next

(* ... and each adds one to the crashes, or nothing. *)
LEMMA CrashCounts ==
  ASSUME TypeOK, [Next]_vars
  PROVE  crashes' = IF Crash THEN crashes + 1 ELSE crashes
<1>1. CASE \E w \in Workers : Network(w)
  <2>1. UNCHANGED crashes /\ up' = up /\ UNCHANGED up
    BY <1>1, NetworkTypes
  <2>2. crashes' # crashes + 1
    BY <2>1, ModuleAssumption DEF TypeOK
  <2> QED
    BY <2>1, <2>2 DEF Crash
<1>2. CASE initFramework \/ Kafka \/ commitOffset \/ \E c \in Clients : Connect(c)
  <2>1. UNCHANGED crashes
    BY <1>2 DEF initFramework, Kafka, consume, updateMessage, dropMessage, commitOffset, Connect
  <2>2. crashes' # crashes + 1
    BY <2>1, ModuleAssumption DEF TypeOK
  <2> QED
    BY <2>1, <2>2 DEF Crash
<1>3. CASE Crash
  BY <1>3 DEF Crash
<1>4. CASE UNCHANGED vars
  <2>1. crashes' # crashes + 1 /\ UNCHANGED crashes
    BY <1>4, ModuleAssumption DEF TypeOK, vars
  <2> QED
    BY <2>1 DEF Crash
<1> QED
  BY <1>1, <1>2, <1>3, <1>4 DEF Next

(* What a process has taken stays accounted for. *)
LEMMA HandedStep ==
  ASSUME IInv, [Next]_vars
  PROVE  Handed'
<1>0. /\ consumed \in 0..Messages /\ offset \in 0..Messages /\ offset <= consumed
      /\ current \in {0, consumed} /\ Messages \in Nat
  BY ModuleAssumption DEF IInv, TypeOK
<1>1. CASE initFramework
  BY <1>0, <1>1 DEF initFramework, Handed
<1>2. CASE consume
  <2>1. /\ up /\ up' /\ current = 0 /\ consumed' = consumed + 1 /\ current' = consumed + 1
        /\ UNCHANGED <<offset, done, refused>>
    BY <1>2 DEF consume
  <2>2. \A n \in 1..Messages : n <= consumed + 1 <=> n <= consumed \/ n = consumed + 1
    BY <1>0
  <2>3. \A n \in 1..Messages : n # 0
    OBVIOUS
  <2> QED
    BY <1>0, <2>1, <2>2, <2>3 DEF IInv, Handed
<1>3. CASE updateMessage \/ dropMessage
  BY <1>3 DEF updateMessage, dropMessage, IInv, Handed
<1>4. CASE commitOffset
  BY <1>0, <1>4 DEF commitOffset, Handed
<1>5. CASE \E w \in Workers : Network(w)
  <2>1. UNCHANGED <<up, topic>>
    BY <1>5, NetworkTypes DEF IInv
  <2> QED
    BY <2>1 DEF topic, IInv, Handed
<1>6. CASE \E c \in Clients : Connect(c)
  BY <1>6 DEF Connect, topic, IInv, Handed
<1>7. CASE Crash
  BY <1>7 DEF Crash, Handed
<1>8. CASE UNCHANGED vars
  BY <1>8 DEF vars, topic, IInv, Handed
<1> QED
  BY <1>1, <1>2, <1>3, <1>4, <1>5, <1>6, <1>7, <1>8 DEF Next, Kafka

-----------------------------------------------------------------------------
(* Types, everything taken accounted for, and no more lost than crashes: every
   step of the topic's thread, the network's threads and a crash keeps it. *)
THEOREM Invariance == Spec => []IInv
<1>1. Init => IInv
  <2> SUFFICES ASSUME Init
               PROVE  IInv
    OBVIOUS
  <2>1. TypeOK /\ Handed
    <3>1. worker \in [Workers -> [pc : {"accept", "parse", "handle", "send"},
                                  client : Clients \cup {None}]]
      BY DEF Init, Free
    <3>2. /\ conn \in [Clients -> {"new", "waiting", "open", "closed", "answered"}]
          /\ reply \in [Clients -> {"none", "zero", "failed"}]
      BY DEF Init
    <3>3. /\ up \in BOOLEAN /\ Handed
          /\ done \subseteq 1..Messages /\ refused \subseteq 1..Messages
      BY DEF Init, Handed
    <3>4. /\ consumed \in 0..Messages /\ offset \in 0..Messages /\ offset <= consumed
          /\ current \in {0, consumed}
          /\ crashes \in 0..MaxCrashes /\ faults \in 0..MaxFaults
      BY ModuleAssumption DEF Init
    <3> QED
      BY <3>1, <3>2, <3>3, <3>4 DEF TypeOK
  <2>2. Missing = {} /\ crashes = 0
    BY DEF Init, Missing
  <2>3. OneLostPerCrash
    BY <2>2, FS_EmptySet DEF OneLostPerCrash
  <2> QED
    BY <2>1, <2>3 DEF IInv
<1>2. IInv /\ [Next]_vars => IInv'
  <2> SUFFICES ASSUME IInv, [Next]_vars
               PROVE  IInv'
    OBVIOUS
  <2>1. TypeOK'
    <3>1. CASE UNCHANGED vars
      BY <3>1 DEF vars, topic, network, IInv, TypeOK
    <3> QED
      BY <3>1, TopicTypes, NetworkTypes, OtherTypes DEF Next, IInv
  <2>2. Handed'
    BY HandedStep
  <2>3. OneLostPerCrash'
    <3>1. Cardinality(Missing) <= crashes /\ crashes \in Nat
      BY ModuleAssumption DEF IInv, OneLostPerCrash, TypeOK
    <3>2. IsFiniteSet(Missing) /\ Cardinality(Missing) \in Nat
      BY MissingFinite DEF IInv
    <3>3. CASE Crash
      <4>1. Missing' \subseteq Missing \cup {current} /\ crashes' = crashes + 1
        BY <3>3, MissingStep, CrashCounts DEF IInv
      <4>2. /\ IsFiniteSet(Missing \cup {current})
            /\ Cardinality(Missing \cup {current}) \in {Cardinality(Missing), Cardinality(Missing) + 1}
        BY <3>2, FS_AddElement
      <4>3. /\ Cardinality(Missing') \in Nat
            /\ Cardinality(Missing') <= Cardinality(Missing \cup {current})
        BY <4>1, <4>2, FS_Subset, FS_CardinalityType
      <4> HIDE DEF Missing
      <4>4. Cardinality(Missing') <= crashes'
        BY <3>1, <3>2, <4>1, <4>2, <4>3
      <4> QED
        BY <4>4 DEF OneLostPerCrash
    <3>4. CASE ~Crash
      <4>1. Missing' \subseteq Missing /\ crashes' = crashes
        BY <3>4, MissingStep, CrashCounts DEF IInv
      <4>2. Cardinality(Missing') \in Nat /\ Cardinality(Missing') <= Cardinality(Missing)
        BY <4>1, MissingFinite DEF IInv
      <4>3. Cardinality(Missing') <= crashes'
        BY <3>1, <3>2, <4>1, <4>2
      <4> QED
        BY <4>3 DEF OneLostPerCrash
    <3> QED
      BY <3>3, <3>4
  <2> QED
    BY <2>1, <2>2, <2>3 DEF IInv
<1> QED
  BY <1>1, <1>2, PTL DEF Spec

(* Positions in the topic, threads, connections and answers keep their types. *)
THEOREM TypeCorrect == Spec => []TypeOK
<1>1. IInv => TypeOK
  BY DEF IInv
<1> QED
  BY <1>1, Invariance, PTL

(* However often the process dies, and whenever the offset file is written, one
   message of the topic is lost per crash at most. *)
THEOREM LostOnlyInHand == Spec => []OneLostPerCrash
<1>1. IInv => OneLostPerCrash
  BY DEF IInv
<1> QED
  BY <1>1, Invariance, PTL

-----------------------------------------------------------------------------
(* What is left of a multiple of n and a rest is the rest. *)
LEMMA RestOf ==
  ASSUME NEW n \in Nat \ {0}, NEW q \in Nat, NEW o \in 0..(n - 1)
  PROVE  (n * q + o) % n = o
<1> DEFINE m == n * q + o
           d == m \div n
           r == m % n
<1>1. n * q \in Nat /\ m \in Nat /\ m = n * q + o
  OBVIOUS
<1>2. \A c \in Nat : (c \div n) \in Nat /\ c = n * (c \div n) + (c % n) /\ (c % n) \in 0..(n - 1)
  OBVIOUS
<1>3. d \in Nat /\ m = n * d + r /\ r \in 0..(n - 1)
  BY <1>1, <1>2
<1> HIDE DEF m, d, r
<1>4. n * d \in Nat
  BY <1>3
<1>5. CASE d < q
  <2>1. n * d + n <= n * q
    BY <1>3, <1>5
  <2> QED
    BY <1>1, <1>3, <1>4, <2>1
<1>6. CASE q < d
  <2>1. n * q + n <= n * d
    BY <1>3, <1>6
  <2> QED
    BY <1>1, <1>3, <1>4, <2>1
<1>7. CASE d = q
  BY <1>1, <1>3, <1>4, <1>7 DEF r, m
<1> QED
  BY <1>3, <1>5, <1>6, <1>7

(* An hour and a day are positive, and each timer's moment lies within its own. *)
LEMMA Periods ==
  ASSUME NEW x \in Timers
  PROVE  /\ Period(x) \in Nat \ {0}
         /\ Offset(x) \in 0..(Period(x) - 1)
         /\ Offset(x) % Period(x) = Offset(x)
<1>1. Period(x) \in Nat \ {0} /\ Offset(x) \in 0..(Period(x) - 1)
  BY TimersAssumption DEF Timers, Period, Offset
<1>2. (Period(x) * 0 + Offset(x)) % Period(x) = Offset(x)
  BY <1>1, RestOf
<1>3. Period(x) * 0 + Offset(x) = Offset(x)
  BY <1>1
<1> QED
  BY <1>1, <1>2, <1>3

(* next() finds a moment of the timer within a period. *)
LEMMA ChronoNext ==
  ASSUME NEW x \in Timers, NEW t \in Nat
  PROVE  /\ chronoNext(x, t) \in (t + 1)..(t + Period(x))
         /\ chronoNext(x, t) \in Nat \ {0}
         /\ chronoNext(x, t) % Period(x) = Offset(x)
<1> DEFINE n == Period(x)
           o == Offset(x)
           q == t \div n
           r == t % n
<1>1. n \in Nat \ {0} /\ o \in 0..(n - 1) /\ o % n = o
  BY Periods
<1>2. chronoNext(x, t) = CHOOSE m \in (t + 1)..(t + n) : m % n = o % n
  BY DEF chronoNext
<1> HIDE DEF n, o
<1>3. q \in Nat /\ t = n * q + r /\ r \in 0..(n - 1)
  BY <1>1
<1> HIDE DEF q, r
<1>4. n * q \in Nat /\ n * (q + 1) = n * q + n
  BY <1>1, <1>3
<1>5. \E m \in (t + 1)..(t + n) : m % n = o % n
  <2>1. CASE r < o
    <3>1. n * q + o \in (t + 1)..(t + n)
      BY <1>1, <1>3, <1>4, <2>1
    <3>2. (n * q + o) % n = o
      BY <1>1, <1>3, RestOf
    <3> QED
      BY <1>1, <3>1, <3>2
  <2>2. CASE o <= r
    <3>1. n * (q + 1) + o \in (t + 1)..(t + n)
      BY <1>1, <1>3, <1>4, <2>2
    <3>2. (n * (q + 1) + o) % n = o
      BY <1>1, <1>3, RestOf
    <3> QED
      BY <1>1, <3>1, <3>2
  <2> QED
    BY <1>1, <1>3, <2>1, <2>2
<1> DEFINE m == chronoNext(x, t)
<1>6. m \in (t + 1)..(t + n) /\ m % n = o % n
  BY <1>2, <1>5
<1> HIDE DEF m
<1>7. m \in Nat \ {0}
  BY <1>1, <1>6
<1> QED
  BY <1>1, <1>6, <1>7 DEF m, n, o
-----------------------------------------------------------------------------
(* When a part was last worked on by this process, or this process started. *)
At(p) == IF last[p] > started THEN last[p] ELSE started

Of(p) == CASE p = "user table" -> "flush"
           [] p \in {"news trends", "user interests"} -> "train"
           [] p = "long-term interests" -> "reload"
           [] p \in {"news log", "interests log"} -> "rollover"

(* The parts whose schedule is kept. *)
Kept == {p \in Parts : p # "item table" /\ (p = "user table" => failures = 0)}

(* How far after its part's work a timer's next moment can be. *)
Far(x) == CASE x \in {"flush", "reload"} -> Day [] x = "train" -> Day + Hour [] x = "rollover" -> Hour

(* Whether the call that is busy has had its look at a timer. *)
Looked(x) == \/ due = "done"
             \/ due = "train" /\ x = "flush"
             \/ due = "reload" /\ x \in {"flush", "train"}
             \/ due = "rollover" /\ x \in {"flush", "train", "reload"}

Typed == /\ now \in 0..MaxNow /\ polled \in started..now /\ started \in Nat
         /\ now <= polled + MaxGap
         /\ next \in [Timers -> Nat \ {0}]
         /\ \A x \in Timers : next[x] % Period(x) = Offset(x)
         /\ saved \in -Interval..MaxNow /\ flag \in NoStamp..now
         /\ due \in Timers \cup {"sleep", "done", "flag"}
         /\ ctime \in 0..now
         /\ last \in [Parts -> 0..now]
         /\ failures \in Nat

(* A moment is never set further away than it may be from the last work. *)
Near == /\ next["flush"] <= now + Day
        /\ \A p \in Kept : next[Of(p)] <= At(p) + Far(Of(p))

(* Between the calls: the last one looked at every timer, and no poll since has
   found it older than the interval; unless there was none in this process. *)
Asleep ==
  due \in {"sleep", "flag"} =>
    /\ polled = started \/ (saved <= polled /\ polled <= saved + Interval)
    /\ due = "flag" => saved <= polled
    /\ \A p \in Kept : \/ saved <= next[Of(p)] \/ saved <= At(p)
                       \/ saved = MaxNow /\ now <= started + MaxGap

(* In a call: it comes soon enough for every timer, and what it has looked at is
   done or not due. *)
Busy ==
  due \in Timers \cup {"done"} =>
    /\ ctime = polled
    /\ \A p \in Kept :
         /\ \/ ctime <= next[Of(p)] + Interval + MaxGap
            \/ ctime <= At(p) + Interval + MaxGap
         /\ Looked(Of(p)) => ctime <= next[Of(p)] \/ ctime <= At(p)

TimersInv == Typed /\ Near /\ Asleep /\ Busy

(* Every part but the item table has a timer that works on it. *)
LEMMA Parted ==
  ASSUME NEW p \in Parts, p # "item table"
  PROVE  Of(p) \in Timers
<1> QED
  BY DEF Parts, Of, Timers

(* A moment may be a period away. *)
LEMMA FarAway ==
  ASSUME NEW x \in Timers
  PROVE  Far(x) \in Nat /\ Period(x) <= Far(x)
<1> QED
  BY TimersAssumption DEF Far, Period, Timers

(* The last work on a part, or the start of the process, is past. *)
LEMMA AtIsPast ==
  ASSUME Typed, NEW p \in Parts
  PROVE  At(p) \in Nat /\ started <= At(p) /\ At(p) <= now /\ last[p] <= At(p)
<1> QED
  BY TimersAssumption DEF Typed, At

(* The first moments are the next ones after the start. *)
LEMMA Initially == TimersInit => TimersInv
<1> SUFFICES ASSUME TimersInit PROVE TimersInv
  OBVIOUS
<1>1. /\ now = 0 /\ next = [x \in Timers |-> chronoNext(x, 0)]
      /\ saved = 0 - Interval /\ flag = 0 - Interval /\ due = "sleep" /\ ctime = 0
      /\ last = [p \in Parts |-> 0] /\ started = 0 /\ polled = 0 /\ failures = 0
  BY DEF TimersInit
<1>2. \A x \in Timers : /\ next[x] \in 1..Period(x) /\ next[x] \in Nat \ {0}
                       /\ next[x] % Period(x) = Offset(x)
  <2> SUFFICES ASSUME NEW x \in Timers
               PROVE  /\ next[x] \in 1..Period(x) /\ next[x] \in Nat \ {0}
                      /\ next[x] % Period(x) = Offset(x)
    OBVIOUS
  <2>1. next[x] = chronoNext(x, 0)
    BY <1>1
  <2>2. /\ chronoNext(x, 0) \in (0 + 1)..(0 + Period(x)) /\ chronoNext(x, 0) \in Nat \ {0}
        /\ chronoNext(x, 0) % Period(x) = Offset(x)
    BY ChronoNext
  <2>3. Period(x) \in Nat
    BY Periods
  <2> QED
    BY <2>1, <2>2, <2>3
<1>3. Typed
  <2>1. saved \in -Interval..MaxNow /\ flag \in NoStamp..now /\ now \in 0..MaxNow
    BY <1>1, TimersAssumption DEF NoStamp
  <2>2. next \in [Timers -> Nat \ {0}]
    BY <1>1, <1>2
  <2> QED
    BY <1>1, <1>2, <2>1, <2>2, TimersAssumption DEF Typed
<1>4. Near
  <2>1. next["flush"] <= Day
    BY <1>2, TimersAssumption DEF Timers, Period
  <2>2. ASSUME NEW p \in Kept
        PROVE  next[Of(p)] <= At(p) + Far(Of(p))
    <3>1. p \in Parts /\ Of(p) \in Timers
      BY Parted DEF Kept
    <3>2. At(p) \in Nat /\ Far(Of(p)) \in Nat /\ Period(Of(p)) <= Far(Of(p))
      BY <1>3, <3>1, AtIsPast, FarAway
    <3>3. next[Of(p)] \in Nat /\ next[Of(p)] <= Period(Of(p)) /\ Period(Of(p)) \in Nat
      BY <1>2, <3>1, Periods
    <3> QED
      BY <3>2, <3>3
  <2> QED
    BY <1>1, <2>1, <2>2, TimersAssumption DEF Near
<1>5. Asleep
  <2>1. ASSUME NEW p \in Kept
        PROVE  saved <= At(p)
    <3>1. At(p) \in Nat
      BY <1>3, AtIsPast DEF Kept
    <3> QED
      BY <1>1, <3>1, TimersAssumption
  <2> QED
    BY <1>1, <2>1 DEF Asleep
<1>6. Busy
  BY <1>1 DEF Busy, Timers
<1> QED
  BY <1>3, <1>4, <1>5, <1>6 DEF TimersInv

(* After a look at timer x the call has looked at x and what it had before. *)
LEMMA LookedNext ==
  ASSUME NEW x \in Timers, due = x, due' = After(x), NEW y \in Timers
  PROVE  /\ After(x) \in Timers \cup {"done"}
         /\ Looked(y)' => y = x \/ Looked(y)
<1> QED
  BY DEF Timers, After, Looked

(* The clock, a poll and a poll that does not call: the call is not overdue. *)
LEMMA Reading ==
  ASSUME TimersInv, Tick \/ poll \/ notDue
  PROVE  TimersInv'
<1> USE DEF TimersInv
<1>t. /\ now \in Nat /\ MaxNow \in Nat /\ polled \in Nat /\ started \in Nat /\ MaxGap \in Nat
      /\ started <= polled /\ polled <= now /\ now <= polled + MaxGap
      /\ saved \in Int /\ Interval \in Nat /\ now <= MaxNow /\ saved <= MaxNow
  BY TimersAssumption DEF Typed
<1>k. ASSUME NEW p \in Kept
      PROVE  /\ p \in Parts /\ Of(p) \in Timers
             /\ next[Of(p)] \in Nat /\ At(p) \in Nat /\ started <= At(p) /\ At(p) <= now
             /\ Far(Of(p)) \in Nat /\ next[Of(p)] <= At(p) + Far(Of(p))
  <2>1. p \in Parts /\ Of(p) \in Timers
    BY Parted DEF Kept
  <2>2. next[Of(p)] \in Nat
    BY <2>1 DEF Typed
  <2> QED
    BY <2>1, <2>2, AtIsPast, FarAway DEF Near
<1>1. CASE Tick
  <2>1. /\ now < MaxNow /\ now - polled < MaxGap /\ now' = now + 1
        /\ UNCHANGED <<next, saved, flag, due, ctime, last, started, polled, failures>>
    BY <1>1 DEF Tick
  <2>2. /\ now' \in 0..MaxNow /\ now' <= polled + MaxGap
        /\ \A n \in Int : n <= now => n <= now'
    BY <1>t, <2>1
  <2>3. Typed'
    <3>1. polled \in started..now' /\ flag \in NoStamp..now' /\ ctime \in 0..now'
      BY <2>2, <1>t, <2>1, TimersAssumption DEF Typed, NoStamp
    <3>2. last \in [Parts -> 0..now']
      <4>1. 0..now \subseteq 0..now'
        BY <1>t, <2>1
      <4> QED
        BY <4>1 DEF Typed
    <3> QED
      BY <2>1, <2>2, <3>1, <3>2, TimersAssumption DEF Typed, NoStamp
  <2>4. \A p : At(p)' = At(p)
    BY <2>1 DEF At
  <2>5. Kept' = Kept
    BY <2>1 DEF Kept
  <2>6. Near'
    <3>1. next["flush"] \in Nat
      BY DEF Typed, Timers
    <3>2. next["flush"] <= now' + Day
      BY <1>t, <2>1, <3>1, TimersAssumption DEF Near
    <3> QED
      BY <2>1, <2>4, <2>5, <3>2 DEF Near
  <2>7. Asleep'
    <3>1. ASSUME due \in {"sleep", "flag"}, NEW p \in Kept, ~(saved <= next[Of(p)]), ~(saved <= At(p))
          PROVE  now' <= started + MaxGap /\ saved = MaxNow
      <4>1. saved = MaxNow /\ now <= started + MaxGap
        BY <3>1 DEF Asleep
      <4>2. polled = started
        BY <1>t, <2>1, <3>1, <4>1 DEF Asleep
      <4> QED
        BY <1>t, <2>2, <4>1, <4>2
    <3> QED
      BY <2>1, <2>4, <2>5, <3>1 DEF Asleep
  <2>8. Busy'
    BY <2>1, <2>4, <2>5 DEF Busy, Looked
  <2> QED
    BY <2>3, <2>6, <2>7, <2>8
<1>2. CASE poll
  <2>1. /\ due = "sleep" /\ polled' = now
        /\ UNCHANGED <<now, next, saved, flag, last, started, failures>>
    BY <1>2 DEF poll
  <2>2. (\A p : At(p)' = At(p)) /\ Kept' = Kept
    BY <2>1 DEF At, Kept
  <2>3. Near'
    BY <2>1, <2>2 DEF Near
  <2>4. CASE saved <= now /\ now - saved < Interval
    <3>1. UNCHANGED <<due, ctime>>
      BY <1>2, <2>4 DEF poll
    <3>2. Typed'
      BY <1>t, <2>1, <3>1 DEF Typed, NoStamp
    <3>3. Asleep'
      <4>1. saved <= polled' /\ polled' <= saved + Interval
        BY <1>t, <2>1, <2>4
      <4> QED
        BY <2>1, <2>2, <3>1, <4>1 DEF Asleep
    <3>4. Busy'
      BY <2>1, <3>1 DEF Busy, Timers
    <3> QED
      BY <2>3, <3>2, <3>3, <3>4
  <2>5. CASE ~(saved <= now /\ now - saved < Interval)
    <3>1. due' = "flush" /\ ctime' = now
      BY <1>2, <2>5 DEF poll
    <3>2. Typed'
      BY <1>t, <2>1, <3>1 DEF Typed, NoStamp, Timers
    <3>3. Asleep'
      BY <3>1 DEF Asleep
    <3>4. Busy'
      <4>1. ASSUME NEW p \in Kept
            PROVE  now <= next[Of(p)] + Interval + MaxGap \/ now <= At(p) + Interval + MaxGap
        <5>1. CASE polled = started
          BY <1>t, <1>k, <5>1
        <5>2. CASE saved <= polled /\ polled <= saved + Interval
          <6>1. now <= saved + Interval + MaxGap
            BY <1>t, <5>2
          <6>2. \/ saved <= next[Of(p)] \/ saved <= At(p) \/ now <= started + MaxGap
            BY <2>1 DEF Asleep
          <6> QED
            BY <1>t, <1>k, <6>1, <6>2
        <5> QED
          BY <2>1, <5>1, <5>2 DEF Asleep
      <4>2. \A x \in Timers : ~Looked(x)'
        BY <3>1 DEF Looked, Timers
      <4>3. \A p \in Kept : Of(p) \in Timers
        BY <1>k
      <4>4. \A p : Of(p)' = Of(p)
        BY DEF Of
      <4> QED
        BY <2>1, <2>2, <3>1, <4>1, <4>2, <4>3, <4>4 DEF Busy
    <3> QED
      BY <2>3, <3>2, <3>3, <3>4
  <2> QED
    BY <2>4, <2>5
<1>3. CASE notDue
  <2>1. /\ due \in Timers /\ ~(next[due] < ctime) /\ due' = After(due)
        /\ UNCHANGED <<now, next, saved, flag, ctime, last, started, polled, failures>>
    BY <1>3 DEF notDue
  <2>2. (\A p : At(p)' = At(p)) /\ Kept' = Kept
    BY <2>1 DEF At, Kept
  <2>3. Near'
    BY <2>1, <2>2 DEF Near
  <2>4. due' \in Timers \cup {"done"} /\ \A y \in Timers : Looked(y)' => y = due \/ Looked(y)
    BY <2>1, LookedNext
  <2>5. Typed'
    BY <2>1, <2>4 DEF Typed, NoStamp
  <2>6. Asleep'
    BY <2>4 DEF Asleep, Timers
  <2>7. ctime <= next[due]
    BY <1>t, <2>1 DEF Typed
  <2>8. Busy'
    <3>1. ASSUME NEW p \in Kept
          PROVE  /\ \/ ctime <= next[Of(p)] + Interval + MaxGap
                    \/ ctime <= At(p) + Interval + MaxGap
                 /\ Looked(Of(p))' => ctime <= next[Of(p)] \/ ctime <= At(p)
      BY <1>k, <2>1, <2>4, <2>7 DEF Busy
    <3> QED
      BY <2>1, <2>2, <3>1 DEF Busy
  <2> QED
    BY <2>3, <2>5, <2>6, <2>8
<1> QED
  BY <1>1, <1>2, <1>3

(* The turn of timer x: the parts it is for have been worked on, and its next
   moment is n. *)
LEMMA Working ==
  ASSUME TimersInv, NEW x \in Timers, NEW parts \in SUBSET Parts, NEW n \in Nat \ {0},
         Turn(x), Worked(parts), next' = [next EXCEPT ![x] = n],
         n % Period(x) = Offset(x), n <= now + Far(x),
         failures' \in Nat,
         \A p \in Kept' : p \in Kept /\ (Of(p) = x => p \in parts)
  PROVE  TimersInv'
<1> USE DEF TimersInv
<1>1. /\ due = x /\ due' = After(x)
      /\ UNCHANGED <<now, saved, flag, ctime, started, polled>>
      /\ last' = [p \in Parts |-> IF p \in parts THEN now ELSE last[p]]
  BY DEF Turn, Worked
<1>t. /\ now \in Nat /\ polled \in Nat /\ started \in Nat /\ MaxGap \in Nat /\ Interval \in Nat
      /\ started <= now /\ polled <= now /\ ctime \in Nat /\ ctime <= now
  BY TimersAssumption DEF Typed
<1>2. /\ due' \in Timers \cup {"done"}
      /\ \A y \in Timers : Looked(y)' => y = x \/ Looked(y)
  BY <1>1, LookedNext
<1>3. /\ next'[x] = n
      /\ \A y \in Timers : y # x => next'[y] = next[y]
      /\ next' \in [Timers -> Nat \ {0}]
  BY DEF Typed
<1>4. \A y \in Timers : next'[y] % Period(y) = Offset(y)
  BY <1>3 DEF Typed
<1>5. last' \in [Parts -> 0..now]
  BY <1>t, <1>1 DEF Typed
<1>6. Typed'
  BY <1>1, <1>2, <1>3, <1>4, <1>5, TimersAssumption DEF Typed, NoStamp
<1>7. ASSUME NEW p \in Kept'
      PROVE  /\ p \in Parts /\ p \in Kept /\ Of(p) \in Timers /\ Of(p)' = Of(p)
             /\ At(p) \in Nat /\ At(p)' \in Nat /\ At(p) <= At(p)' /\ At(p)' <= now
             /\ p \in parts => At(p)' = now
             /\ p \notin parts => Of(p) # x /\ At(p)' = At(p)
             /\ Far(Of(p)) \in Nat /\ next[Of(p)] \in Nat
  <2>1. p \in Parts /\ p # "item table" /\ p \in Kept
    BY DEF Kept
  <2>2. Of(p) \in Timers /\ Of(p)' = Of(p)
    BY <2>1, Parted DEF Of
  <2>3. At(p) \in Nat /\ At(p) <= now
    BY <2>1, AtIsPast
  <2>n. next[Of(p)] \in Nat /\ Far(Of(p)) \in Nat
    BY <2>2, FarAway DEF Typed
  <2>4. CASE p \in parts
    <3>1. last'[p] = now
      BY <1>1, <2>1, <2>4
    <3>2. At(p)' = now
      BY <1>t, <1>1, <3>1 DEF At
    <3>3. At(p)' \in Nat /\ At(p) <= At(p)' /\ At(p)' <= now
      BY <1>t, <2>3, <3>2
    <3> QED
      BY <2>1, <2>2, <2>3, <2>n, <2>4, <3>2, <3>3
  <2>5. CASE p \notin parts
    <3>1. last'[p] = last[p]
      BY <1>1, <2>1, <2>5
    <3>2. At(p)' = At(p)
      BY <1>1, <3>1 DEF At
    <3>3. Of(p) # x
      BY <2>5
    <3>4. At(p)' \in Nat /\ At(p) <= At(p)' /\ At(p)' <= now
      BY <1>t, <2>3, <3>2
    <3> QED
      BY <2>1, <2>2, <2>3, <2>n, <2>5, <3>2, <3>3, <3>4
  <2> QED
    BY <2>4, <2>5
<1>8. Near'
  <2>1. next'["flush"] <= now + Day
    <3>1. CASE x = "flush"
      BY <1>3, <3>1 DEF Far
    <3>2. CASE x # "flush"
      BY <1>3, <3>2 DEF Near, Timers
    <3> QED
      BY <3>1, <3>2
  <2>2. ASSUME NEW p \in Kept'
        PROVE  next'[Of(p)] <= At(p)' + Far(Of(p))
    <3>1. CASE Of(p) = x
      <4>1. p \in parts
        BY <3>1
      <4> QED
        BY <1>3, <1>7, <3>1, <4>1
    <3>2. CASE Of(p) # x
      <4>1. next'[Of(p)] = next[Of(p)] /\ next[Of(p)] <= At(p) + Far(Of(p))
        BY <1>3, <1>7, <3>2 DEF Near
      <4> QED
        BY <1>7, <4>1
    <3> QED
      BY <3>1, <3>2
  <2>3. \A p : Far(Of(p))' = Far(Of(p)) /\ Of(p)' = Of(p)
    BY DEF Far, Of
  <2> QED
    BY <1>1, <2>1, <2>2, <2>3 DEF Near
<1>9. Asleep'
  BY <1>2 DEF Asleep, Timers
<1>10. Busy'
  <2>1. ASSUME NEW p \in Kept'
        PROVE  /\ \/ ctime <= next'[Of(p)] + Interval + MaxGap
                  \/ ctime <= At(p)' + Interval + MaxGap
               /\ Looked(Of(p))' => ctime <= next'[Of(p)] \/ ctime <= At(p)'
    <3>1. CASE p \in parts
      <4>1. ctime <= At(p)' /\ ctime <= At(p)' + Interval + MaxGap
        BY <1>t, <1>7, <3>1
      <4> QED
        BY <4>1
    <3>2. CASE p \notin parts
      <4>1. Of(p) # x /\ At(p)' = At(p) /\ next'[Of(p)] = next[Of(p)]
        BY <1>3, <1>7, <3>2
      <4>2. Looked(Of(p))' => Looked(Of(p))
        BY <1>2, <1>7, <4>1
      <4> QED
        BY <1>1, <1>7, <4>1, <4>2 DEF Busy
    <3> QED
      BY <3>1, <3>2
  <2>2. ctime = polled
    BY <1>1 DEF Busy
  <2>3. \A p : Of(p)' = Of(p)
    BY DEF Of
  <2> QED
    BY <1>1, <2>1, <2>2, <2>3 DEF Busy
<1> QED
  BY <1>6, <1>8, <1>9, <1>10

(* The four timers' turns in a call. *)
LEMMA Turns ==
  ASSUME TimersInv, flush \/ train \/ reload \/ rollover
  PROVE  TimersInv'
<1>t. /\ now \in Nat /\ failures \in Nat /\ ctime \in Nat /\ ctime <= now
      /\ \A x \in Timers : next[x] \in Nat
  BY TimersAssumption DEF TimersInv, Typed
<1>n. ASSUME NEW x \in Timers, next[x] < ctime
      PROVE  /\ chronoNext(x, next[x]) \in Nat \ {0}
             /\ chronoNext(x, next[x]) % Period(x) = Offset(x)
             /\ chronoNext(x, next[x]) <= now + Far(x)
  <2>1. /\ chronoNext(x, next[x]) \in (next[x] + 1)..(next[x] + Period(x))
        /\ chronoNext(x, next[x]) \in Nat \ {0}
        /\ chronoNext(x, next[x]) % Period(x) = Offset(x)
    BY <1>t, ChronoNext
  <2>2. Period(x) \in Nat /\ Far(x) \in Nat /\ Period(x) <= Far(x)
    BY Periods, FarAway
  <2>3. next[x] \in Nat
    BY <1>t
  <2> QED
    BY <1>t, <1>n, <2>1, <2>2, <2>3
<1>1. CASE flush
  <2>1. /\ Turn("flush") /\ next' = [next EXCEPT !["flush"] = chronoNext("flush", next["flush"])]
        /\ next["flush"] < ctime
    BY <1>1 DEF flush, Turn
  <2>2. {"user table"} \in SUBSET Parts /\ {"item table"} \in SUBSET Parts /\ "flush" \in Timers
    BY DEF Parts, Timers
  <2>3. /\ chronoNext("flush", next["flush"]) \in Nat \ {0}
        /\ chronoNext("flush", next["flush"]) % Period("flush") = Offset("flush")
        /\ chronoNext("flush", next["flush"]) <= now + Far("flush")
    BY <1>n, <2>1, <2>2
  <2>4. \A p \in Parts : Of(p) = "flush" => p = "user table" \/ p = "item table"
    BY DEF Of, Parts
  <2>5. CASE Worked({"user table"}) /\ UNCHANGED failures
    <3>1. \A p \in Kept' : p \in Kept /\ (Of(p) = "flush" => p \in {"user table"})
      BY <2>4, <2>5 DEF Kept
    <3> QED
      BY <1>t, <2>1, <2>2, <2>3, <2>5, <3>1, Working
  <2>6. CASE failures' = failures + 1 /\ Worked({"item table"})
    <3>0. failures \in Nat /\ failures' = failures + 1
      BY <1>t, <2>6
    <3>1. failures' \in Nat /\ failures' # 0
      BY <3>0
    <3>2. \A p \in Kept' : p \in Kept /\ (Of(p) = "flush" => p \in {"item table"})
      BY <2>4, <3>1 DEF Kept
    <3> QED
      BY <2>1, <2>2, <2>3, <2>6, <3>1, <3>2, Working
  <2> QED
    BY <1>1, <2>5, <2>6 DEF flush
<1>k. ASSUME UNCHANGED failures, NEW x \in Timers, x # "flush",
             NEW parts \in SUBSET Parts,
             \A p \in Parts : Of(p) = x => p \in parts \/ p = "item table"
      PROVE  /\ failures' \in Nat
             /\ \A p \in Kept' : p \in Kept /\ (Of(p) = x => p \in parts)
  BY <1>t, <1>k DEF Kept
<1>2. CASE train
  <2>1. /\ Turn("train") /\ Worked({"news trends", "user interests"}) /\ UNCHANGED failures
        /\ next' = [next EXCEPT !["train"] = chronoNext("train", next["flush"])]
    BY <1>2 DEF train
  <2>2. {"news trends", "user interests"} \in SUBSET Parts /\ "train" \in Timers /\ "flush" \in Timers
    BY DEF Parts, Timers
  <2>3. \A p \in Parts : Of(p) = "train" => p \in {"news trends", "user interests"} \/ p = "item table"
    BY DEF Of, Parts
  <2>4. /\ chronoNext("train", next["flush"]) \in Nat \ {0}
        /\ chronoNext("train", next["flush"]) % Period("train") = Offset("train")
        /\ chronoNext("train", next["flush"]) <= now + Far("train")
    <3>1. /\ chronoNext("train", next["flush"]) \in (next["flush"] + 1)..(next["flush"] + Period("train"))
          /\ chronoNext("train", next["flush"]) \in Nat \ {0}
          /\ chronoNext("train", next["flush"]) % Period("train") = Offset("train")
      BY <1>t, <2>2, ChronoNext
    <3>2. next["flush"] <= now + Day
      BY DEF TimersInv, Near
    <3>3. Period("train") = Hour /\ Far("train") = Day + Hour
      BY DEF Period, Far
    <3>4. next["flush"] \in Nat
      BY <1>t, <2>2
    <3> QED
      BY <1>t, <3>1, <3>2, <3>3, <3>4, TimersAssumption
  <2> QED
    <3>1. /\ failures' \in Nat
          /\ \A p \in Kept' : p \in Kept /\ (Of(p) = "train" => p \in {"news trends", "user interests"})
      BY <1>k, <2>1, <2>2, <2>3
    <3> QED
      BY <2>1, <2>2, <2>4, <3>1, Working
<1>3. CASE reload
  <2>1. /\ Turn("reload") /\ Worked({"long-term interests"}) /\ UNCHANGED failures
        /\ next' = [next EXCEPT !["reload"] = chronoNext("reload", next["reload"])]
        /\ next["reload"] < ctime
    BY <1>3 DEF reload, Turn
  <2>2. {"long-term interests"} \in SUBSET Parts /\ "reload" \in Timers
    BY DEF Parts, Timers
  <2>3. \A p \in Parts : Of(p) = "reload" => p \in {"long-term interests"} \/ p = "item table"
    BY DEF Of, Parts
  <2>4. /\ failures' \in Nat
        /\ \A p \in Kept' : p \in Kept /\ (Of(p) = "reload" => p \in {"long-term interests"})
    BY <1>k, <2>1, <2>2, <2>3
  <2>5. /\ chronoNext("reload", next["reload"]) \in Nat \ {0}
        /\ chronoNext("reload", next["reload"]) % Period("reload") = Offset("reload")
        /\ chronoNext("reload", next["reload"]) <= now + Far("reload")
    BY <1>n, <2>1, <2>2
  <2> QED
    BY <2>1, <2>2, <2>4, <2>5, Working
<1>4. CASE rollover
  <2>1. /\ Turn("rollover") /\ Worked({"news log", "interests log"}) /\ UNCHANGED failures
        /\ next' = [next EXCEPT !["rollover"] = chronoNext("rollover", next["rollover"])]
        /\ next["rollover"] < ctime
    BY <1>4 DEF rollover, Turn
  <2>2. {"news log", "interests log"} \in SUBSET Parts /\ "rollover" \in Timers
    BY DEF Parts, Timers
  <2>3. \A p \in Parts : Of(p) = "rollover" => p \in {"news log", "interests log"} \/ p = "item table"
    BY DEF Of, Parts
  <2>4. /\ failures' \in Nat
        /\ \A p \in Kept' : p \in Kept /\ (Of(p) = "rollover" => p \in {"news log", "interests log"})
    BY <1>k, <2>1, <2>2, <2>3
  <2>5. /\ chronoNext("rollover", next["rollover"]) \in Nat \ {0}
        /\ chronoNext("rollover", next["rollover"]) % Period("rollover") = Offset("rollover")
        /\ chronoNext("rollover", next["rollover"]) <= now + Far("rollover")
    BY <1>n, <2>1, <2>2
  <2> QED
    BY <2>1, <2>2, <2>4, <2>5, Working
<1> QED
  BY <1>1, <1>2, <1>3, <1>4

(* The end of a call, its flag file, and a new process after a death. *)
LEMMA Ending ==
  ASSUME TimersInv, openFlag \/ writeFlag \/ Restart
  PROVE  TimersInv'
<1> USE DEF TimersInv
<1>t. /\ now \in Nat /\ MaxNow \in Nat /\ polled \in Nat /\ started \in Nat /\ MaxGap \in Nat
      /\ started <= polled /\ polled <= now /\ now <= polled + MaxGap
      /\ saved \in Int /\ Interval \in Nat /\ now <= MaxNow /\ saved <= MaxNow
      /\ ctime \in Nat /\ ctime <= now
  BY TimersAssumption DEF Typed
<1>1. CASE openFlag
  <2>1. /\ due = "done" /\ saved' = ctime /\ due' \in {"flag", "sleep"}
        /\ flag' \in {NoStamp, flag} /\ ctime' = 0
        /\ UNCHANGED <<now, next, last, started, polled, failures>>
    BY <1>1 DEF openFlag
  <2>2. ctime = polled
    BY <2>1 DEF Busy
  <2>3. (\A p : At(p)' = At(p)) /\ Kept' = Kept
    BY <2>1 DEF At, Kept
  <2>4. Typed'
    <3>1. saved' \in -Interval..MaxNow /\ ctime' \in 0..now
      BY <1>t, <2>1
    <3>2. flag' \in NoStamp..now
      BY <1>t, <2>1 DEF Typed, NoStamp
    <3> QED
      BY <2>1, <3>1, <3>2 DEF Typed, NoStamp
  <2>5. Near'
    BY <2>1, <2>3 DEF Near
  <2>6. Asleep'
    <3>1. ASSUME NEW p \in Kept
          PROVE  ctime <= next[Of(p)] \/ ctime <= At(p)
      BY <2>1 DEF Busy, Looked
    <3>2. saved' <= polled /\ polled <= saved' + Interval
      BY <1>t, <2>1, <2>2
    <3> QED
      BY <2>1, <2>3, <3>1, <3>2 DEF Asleep
  <2>7. Busy'
    BY <2>1 DEF Busy, Timers
  <2> QED
    BY <2>4, <2>5, <2>6, <2>7
<1>2. CASE writeFlag
  <2>1. /\ due = "flag" /\ due' = "sleep" /\ flag' = saved
        /\ UNCHANGED <<now, next, saved, ctime, last, started, polled, failures>>
    BY <1>2 DEF writeFlag
  <2>2. (\A p : At(p)' = At(p)) /\ Kept' = Kept
    BY <2>1 DEF At, Kept
  <2>3. Typed'
    <3>1. saved <= polled /\ saved \in -Interval..MaxNow
      BY <2>1 DEF Asleep, Typed
    <3>2. flag' \in NoStamp..now
      BY <1>t, <2>1, <3>1 DEF NoStamp
    <3> QED
      BY <2>1, <3>2 DEF Typed, NoStamp
  <2>4. Near' /\ Asleep' /\ Busy'
    BY <2>1, <2>2 DEF Near, Asleep, Busy, Timers
  <2> QED
    BY <2>3, <2>4
<1>3. CASE Restart
  <2>1. /\ next' = [x \in Timers |-> chronoNext(x, now)]
        /\ due' = "sleep" /\ ctime' = 0 /\ started' = now /\ polled' = now
        /\ UNCHANGED <<now, flag, last, failures>>
    BY <1>3 DEF Restart
  <2>2. saved' \in -Interval..MaxNow /\ (saved' <= now \/ saved' = MaxNow)
    <3>1. CASE flag = NoStamp
      <4>1. saved' \in {0 - Interval, now, MaxNow}
        BY <1>3, <3>1 DEF Restart
      <4> QED
        BY <1>t, <4>1
    <3>2. CASE flag # NoStamp
      <4>1. saved' = flag
        BY <1>3, <3>2 DEF Restart
      <4>2. flag \in NoStamp..now
        BY DEF Typed
      <4> QED
        BY <1>t, <3>2, <4>1, <4>2 DEF NoStamp
    <3> QED
      BY <3>1, <3>2
  <2>3. \A x \in Timers : /\ next'[x] \in Nat \ {0} /\ next'[x] <= now + Period(x)
                          /\ next'[x] % Period(x) = Offset(x)
    <3> SUFFICES ASSUME NEW x \in Timers
                 PROVE  /\ next'[x] \in Nat \ {0} /\ next'[x] <= now + Period(x)
                        /\ next'[x] % Period(x) = Offset(x)
      OBVIOUS
    <3>1. next'[x] = chronoNext(x, now)
      BY <2>1
    <3>2. /\ chronoNext(x, now) \in (now + 1)..(now + Period(x))
          /\ chronoNext(x, now) \in Nat \ {0}
          /\ chronoNext(x, now) % Period(x) = Offset(x)
      BY <1>t, ChronoNext
    <3> QED
      BY <3>1, <3>2
  <2>4. next' \in [Timers -> Nat \ {0}]
    BY <2>1, <2>3
  <2>5. Typed'
    <3>1. polled' \in started'..now' /\ started' \in Nat /\ now' <= polled' + MaxGap /\ ctime' \in 0..now'
      BY <1>t, <2>1
    <3> QED
      BY <2>1, <2>2, <2>3, <2>4, <3>1 DEF Typed, NoStamp
  <2>6. Kept' = Kept
    BY <2>1 DEF Kept
  <2>7. ASSUME NEW p \in Kept
        PROVE  At(p)' = now /\ p \in Parts /\ Of(p) \in Timers
    <3>1. p \in Parts /\ Of(p) \in Timers
      BY Parted DEF Kept
    <3>2. last[p] \in Nat /\ last[p] <= now
      BY <3>1 DEF Typed
    <3> QED
      BY <1>t, <2>1, <3>1, <3>2 DEF At
  <2>8. Near'
    <3>1. next'["flush"] <= now + Day
      BY <2>3 DEF Timers, Period
    <3>2. ASSUME NEW p \in Kept
          PROVE  next'[Of(p)] <= now + Far(Of(p))
      <4>1. next'[Of(p)] \in Nat /\ next'[Of(p)] <= now + Period(Of(p))
        BY <2>3, <2>7
      <4>2. Period(Of(p)) \in Nat /\ Far(Of(p)) \in Nat /\ Period(Of(p)) <= Far(Of(p))
        BY <2>7, Periods, FarAway
      <4> QED
        BY <1>t, <4>1, <4>2
    <3>3. \A p : Of(p)' = Of(p) /\ Far(Of(p))' = Far(Of(p))
      BY DEF Of, Far
    <3> QED
      BY <2>1, <2>6, <2>7, <3>1, <3>2, <3>3 DEF Near
  <2>9. Asleep'
    <3>1. now' <= started' + MaxGap
      BY <1>t, <2>1
    <3>2. \A p \in Kept' : saved' <= At(p)' \/ saved' = MaxNow
      BY <2>2, <2>6, <2>7
    <3> QED
      BY <2>1, <3>1, <3>2 DEF Asleep
  <2>10. Busy'
    BY <2>1 DEF Busy, Timers
  <2> QED
    BY <2>5, <2>8, <2>9, <2>10
<1> QED
  BY <1>1, <1>2, <1>3

(* The inductive invariant: a moment is never set further away than it may be
   from the last work, a call comes soon enough for every timer, and what it has
   looked at is done or not due. *)
THEOREM TimersInvariance == TimersSpec => []TimersInv
<1>1. TimersInv /\ [TimersNext]_timersVars => TimersInv'
  <2>1. CASE UNCHANGED timersVars
    BY <2>1, ZenonT(30) DEF timersVars, TimersInv, Typed, Near, Asleep, Busy, NoStamp, At, Kept, Looked, Of, Far
  <2> QED
    BY <2>1, Reading, Turns, Ending DEF TimersNext
<1> QED
  BY <1>1, Initially, PTL DEF TimersSpec

(* Every variable of the timers keeps its type, and next() always finds the
   moment the options name. *)
THEOREM TimersTypeCorrect == TimersSpec => []TimersTypeOK
<1>1. TimersInv => TimersTypeOK
  <2> SUFFICES ASSUME TimersInv PROVE TimersTypeOK
    OBVIOUS
  <2>1. polled \in 0..now /\ started \in 0..now
    BY TimersAssumption DEF TimersInv, Typed
  <2> QED
    BY <2>1 DEF TimersInv, Typed, TimersTypeOK
<1> QED
  BY <1>1, TimersInvariance, PTL

(* The logs are rolled each hour, the long-term interests read and the user table
   flushed each day, for hours and days of any length, whatever the options, the
   polls and the flag file are (service_glue.cpp:103-145). *)
THEOREM ScheduleKept == TimersSpec => []KeepsSchedule
<1>1. TimersInv => KeepsSchedule
  <2> SUFFICES ASSUME TimersInv PROVE KeepsSchedule
    OBVIOUS
  <2> USE DEF TimersInv
  <2>t. /\ now \in Nat /\ polled \in Nat /\ started \in Nat /\ MaxGap \in Nat
        /\ now <= polled + MaxGap /\ saved \in Int /\ Interval \in Nat
        /\ Slack \in Nat /\ Slack = Interval + 2 * MaxGap
    BY TimersAssumption DEF Typed, Slack
  <2>1. ASSUME NEW p \in Kept
        PROVE  Since(p) <= Far(Of(p)) + Slack
    <3>1. p \in Parts /\ Of(p) \in Timers
      BY Parted DEF Kept
    <3>2. /\ next[Of(p)] \in Nat /\ At(p) \in Nat /\ started <= At(p)
          /\ Far(Of(p)) \in Nat /\ next[Of(p)] <= At(p) + Far(Of(p))
      BY <3>1, AtIsPast, FarAway DEF Near, Typed
    <3>3. CASE due \in {"sleep", "flag"}
      <4>1. CASE polled = started
        BY <2>t, <3>2, <4>1 DEF Since, At
      <4>2. CASE saved <= polled /\ polled <= saved + Interval
        <5>1. now <= saved + Interval + MaxGap
          BY <2>t, <4>2
        <5>2. \/ saved <= next[Of(p)] \/ saved <= At(p) \/ now <= started + MaxGap
          BY <3>3 DEF Asleep
        <5>3. now <= At(p) + Far(Of(p)) + Slack
          BY <2>t, <3>2, <5>1, <5>2
        <5> QED
          BY <2>t, <3>2, <5>3 DEF Since, At
      <4> QED
        BY <3>3, <4>1, <4>2 DEF Asleep
    <3>4. CASE due \in Timers \cup {"done"}
      <4>1. \/ polled <= next[Of(p)] + Interval + MaxGap
            \/ polled <= At(p) + Interval + MaxGap
        BY <3>4 DEF Busy
      <4>2. now <= At(p) + Far(Of(p)) + Slack
        BY <2>t, <3>2, <4>1
      <4> QED
        BY <2>t, <3>2, <4>2 DEF Since, At
    <3> QED
      BY <3>3, <3>4 DEF Typed
  <2>2. /\ \A p \in {"news log", "interests log"} : p \in Kept /\ Far(Of(p)) = Hour
        /\ "long-term interests" \in Kept /\ Far(Of("long-term interests")) = Day
        /\ failures = 0 => "user table" \in Kept
        /\ Far(Of("user table")) = Day
    BY DEF Kept, Parts, Of, Far
  <2> QED
    BY <2>1, <2>2 DEF KeepsSchedule
<1> QED
  BY <1>1, TimersInvariance, PTL
=============================================================================
