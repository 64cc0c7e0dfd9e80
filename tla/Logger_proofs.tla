---------------------------- MODULE Logger_proofs ----------------------------
(***************************************************************************)
(* The loggers, for every number of threads, appenders and calls, and for  *)
(* every format: a thread that uses a logger has one, an appender of a     *)
(* logger has a formatter, all threads share the one logger of a name      *)
(* unless two of them made one at one time, and every line shows its event *)
(* as the comment in LoggerFormatter::init says.                           *)
(***************************************************************************)
EXTENDS Logger, SequenceTheorems, FiniteSetTheorems, WellFoundedInduction,
        TLAPS

Formatters == {Formatter(f) : f \in Formats} \cup {Default}
Loggers == [level_ : {DEBUG} \cup Levels, formatter_ : Formatters,
            appenders_ : Seq(Appenders)]
PCs == {"start", "make", "use", "add", "log"}
Locals == [pc : PCs, has : Nat, level : {0} \cup Levels,
           with : {None} \cup Appenders, ops : 0 .. MaxOps]

TypeInv ==
    /\ logger \in Seq(Loggers) /\ Len(logger) <= MaxLoggers
    /\ loggerMap_ \in 0 .. Len(logger)
    /\ appender \in [Appenders -> [level_ : {0} \cup Levels,
                                   formatter_ : {None} \cup Formatters]]
    /\ thread \in [Threads -> Locals]
    /\ raced \in BOOLEAN

(* A thread past getLogger has a logger, and one before it has none; a call
   in progress is one of those that the bound allows. *)
HoldsLogger ==
    \A t \in Threads :
        /\ thread[t].pc \in {"start", "make"} => thread[t].has = 0
        /\ thread[t].pc \in {"use", "add", "log"}
            => thread[t].has \in 1 .. Len(logger)
        /\ thread[t].pc \in {"add", "log"} => thread[t].ops < MaxOps

HasFormatter(a) == a \in Appenders /\ appender[a].formatter_ # None

(* The appenders of the loggers, and those about to be added to one, have a
   formatter. *)
Formatted ==
    /\ \A l \in 1 .. Len(logger) : \A k \in 1 .. Len(logger[l].appenders_) :
        HasFormatter(logger[l].appenders_[k])
    /\ \A t \in Threads :
        thread[t].pc = "add" => HasFormatter(thread[t].with)

(* Without a race, one thread at most makes a logger, and only as long as there
   is none; whoever has a logger has the one of the map. *)
OneMaker ==
    ~raced =>
        /\ \A t \in Threads : thread[t].pc = "make" => loggerMap_ = 0
        /\ \A t, u \in Threads :
            thread[t].pc = "make" /\ thread[u].pc = "make" => t = u
        /\ \A t \in Threads : thread[t].has # 0 => thread[t].has = loggerMap_

(* The inductive invariant. *)
IInv == TypeInv /\ HoldsLogger /\ Formatted /\ OneMaker

-----------------------------------------------------------------------------
(* Induction, for a set of numbers: each set of numbers that is not empty has a
   least member. *)
LEMMA LeastNumber ==
  ASSUME NEW S \in SUBSET Nat, S # {}
  PROVE  \E m \in S : \A n \in S : m <= n
<1>1. PICK m \in S : \A n \in S : ~(<<n, m>> \in OpToRel(<, Nat))
  BY NatLessThanWellFounded, WFMin
<1>2. ASSUME NEW n \in S, n < m PROVE FALSE
  <2>1. <<n, m>> \in Nat \X Nat /\ <<n, m>>[1] < <<n, m>>[2]
    BY <1>2
  <2>2. <<n, m>> \in OpToRel(<, Nat)
    BY <2>1 DEF OpToRel
  <2> QED
    BY <2>2, <1>1
<1> QED
  BY <1>2

LEMMA LeastPosition ==
  ASSUME NEW S \in SUBSET Nat, S # {}
  PROVE  Min(S) \in S
<1> QED
  BY LeastNumber DEF Min

LEMMA LastPosition ==
  ASSUME NEW n \in Nat, NEW S \in SUBSET (1 .. n), S # {}
  PROVE  Max(S) \in S /\ \A k \in S : Max(S) >= k
<1> DEFINE Above == {n - k : k \in S}
<1>1. Above \in SUBSET Nat /\ Above # {}
  <2>1. \A k \in S : n - k \in Nat
    OBVIOUS
  <2> QED
    BY <2>1
<1>2. PICK d \in Above : \A e \in Above : d <= e
  BY <1>1, LeastNumber
<1>3. PICK m \in S : d = n - m
  OBVIOUS
<1>4. ASSUME NEW k \in S PROVE m >= k
  <2>1. n - k \in Above
    OBVIOUS
  <2>2. d <= n - k
    BY <1>2, <2>1
  <2> QED
    BY <1>3, <2>2
<1> QED
  BY <1>4 DEF Max

LEMMA NatSetInduction ==
  ASSUME NEW T, 0 \in T, \A n \in Nat : n \in T => n + 1 \in T
  PROVE  Nat \subseteq T
<1> SUFFICES ASSUME Nat \ T # {} PROVE FALSE
  OBVIOUS
<1>1. PICK m \in Nat \ T : \A n \in Nat \ T : m <= n
  BY LeastNumber
<1>2. m - 1 \in Nat /\ ~(m <= m - 1)
  BY <1>1
<1>3. m - 1 \in T
  BY <1>1, <1>2
<1> QED
  BY <1>1, <1>2, <1>3

(* Removing an element from a sequence leaves a sequence of some of its
   elements. *)
LEMMA RemovedIsPart ==
  ASSUME NEW S, NEW s \in Seq(S), NEW a
  PROVE  /\ RemoveFirst(s, a) \in Seq(S)
         /\ \A k \in 1 .. Len(RemoveFirst(s, a)) :
               \E j \in 1 .. Len(s) : RemoveFirst(s, a)[k] = s[j]
<1>1. CASE ~ \E i \in 1 .. Len(s) : s[i] = a
  BY <1>1 DEF RemoveFirst
<1>2. CASE \E i \in 1 .. Len(s) : s[i] = a
  <2> DEFINE m == Min({i \in 1 .. Len(s) : s[i] = a})
             head == SubSeq(s, 1, m - 1)
             tail == SubSeq(s, m + 1, Len(s))
  <2>1. m \in 1 .. Len(s)
    BY <1>2, LeastPosition
  <2>2. RemoveFirst(s, a) = head \o tail
    BY <1>2 DEF RemoveFirst, RemoveAt, SelectInSeq
  <2> HIDE DEF m
  <2>3. /\ head \in Seq(S) /\ Len(head) = m - 1
        /\ \A i \in 1 .. m - 1 : head[i] = s[i]
    BY <2>1, SubSeqProperties
  <2>4. /\ tail \in Seq(S) /\ Len(tail) = Len(s) - m
        /\ \A i \in 1 .. Len(s) - m : tail[i] = s[m + i]
    BY <2>1, SubSeqProperties
  <2> HIDE DEF head, tail
  <2>5. /\ head \o tail \in Seq(S)
        /\ Len(head \o tail) = Len(s) - 1
        /\ \A i \in 1 .. Len(s) - 1 :
              (head \o tail)[i] = IF i <= m - 1 THEN head[i]
                                  ELSE tail[i - (m - 1)]
    <3>1. Len(head) + Len(tail) = Len(s) - 1 /\ Len(s) \in Nat /\ m \in Int
      BY <2>1, <2>3, <2>4
    <3>2. /\ head \o tail \in Seq(S)
          /\ Len(head \o tail) = Len(head) + Len(tail)
          /\ \A i \in 1 .. Len(head) + Len(tail) :
                (head \o tail)[i] = IF i <= Len(head) THEN head[i]
                                    ELSE tail[i - Len(head)]
      BY <2>3, <2>4, ConcatProperties
    <3> QED
      BY <3>1, <3>2, <2>3
  <2>6. ASSUME NEW k \in 1 .. Len(s) - 1
        PROVE  \E j \in 1 .. Len(s) : (head \o tail)[k] = s[j]
    <3>0. k <= m - 1 \/ k > m - 1
      BY <2>1
    <3>1. CASE k <= m - 1
      BY <3>1, <2>1, <2>3, <2>5
    <3>2. CASE k > m - 1
      <4>1. k - (m - 1) \in 1 .. Len(s) - m /\ m + (k - (m - 1)) = k + 1
        BY <3>2, <2>1
      <4>2. (head \o tail)[k] = s[k + 1] /\ k + 1 \in 1 .. Len(s)
        BY <3>2, <4>1, <2>4, <2>5, <2>1
      <4> QED
        BY <4>2
    <3> QED
      BY <3>0, <3>1, <3>2
  <2> QED
    BY <2>2, <2>5, <2>6
<1> QED
  BY <1>1, <1>2

-----------------------------------------------------------------------------
LEMMA NewLoggerTyped == NewLogger \in Loggers
<1> QED
  BY DEF NewLogger, Loggers, Formatters

LEMMA InitIInv == Init => IInv
<1> SUFFICES ASSUME Init PROVE IInv
  OBVIOUS
<1>1. TypeInv
  <2>1. Idle \in Locals
    BY LoggerAssumption DEF Idle, Locals, PCs
  <2>2. thread \in [Threads -> Locals]
    BY <2>1 DEF Init
  <2>3. logger \in Seq(Loggers) /\ Len(logger) = 0 /\ 0 <= MaxLoggers
    BY LoggerAssumption DEF Init
  <2>4. appender \in [Appenders -> [level_ : {0} \cup Levels,
                                   formatter_ : {None} \cup Formatters]]
    BY DEF Init
  <2>5. raced \in BOOLEAN /\ loggerMap_ = 0
    BY DEF Init
  <2>6. Len(logger) <= MaxLoggers
    BY <2>3
  <2> QED
    BY <2>2, <2>3, <2>4, <2>5, <2>6 DEF TypeInv
<1>2. HoldsLogger /\ Formatted /\ OneMaker
  BY DEF Init, HoldsLogger, Formatted, OneMaker, Idle
<1> QED
  BY <1>1, <1>2 DEF IInv

(* A step of one thread that leaves the map and the number of loggers alone,
   and that changes a logger only as its type allows: what is to be shown of
   the new locals and of the new appenders. *)
LEMMA StepOfOne ==
  ASSUME IInv, NEW t \in Threads, thread[t].pc \in {"use", "add", "log"},
         NEW r \in Locals, thread' = [thread EXCEPT ![t] = r],
         r.pc \in {"use", "add", "log"}, r.has = thread[t].has,
         r.pc \in {"add", "log"} => r.ops < MaxOps,
         UNCHANGED <<loggerMap_, raced>>,
         logger' \in Seq(Loggers), Len(logger') = Len(logger),
         appender' \in [Appenders -> [level_ : {0} \cup Levels,
                                      formatter_ : {None} \cup Formatters]],
         Formatted'
  PROVE  IInv'
<1>1. thread'[t] = r /\ \A u \in Threads \ {t} : thread'[u] = thread[u]
  BY DEF IInv, TypeInv
<1>2. TypeInv'
  BY DEF IInv, TypeInv
<1>3. HoldsLogger'
  BY <1>1 DEF IInv, HoldsLogger
<1>4. OneMaker'
  BY <1>1 DEF IInv, OneMaker
<1> QED
  BY <1>2, <1>3, <1>4 DEF IInv

LEMMA FindLoggerIInv ==
  ASSUME IInv, NEW t \in Threads, FindLogger(t)
  PROVE  IInv'
<1> DEFINE r == [thread[t] EXCEPT !.pc = IF loggerMap_ = 0 THEN "make"
                                         ELSE "use",
                                  !.has = loggerMap_]
<1>1. /\ thread[t].pc = "start" /\ thread' = [thread EXCEPT ![t] = r]
      /\ UNCHANGED <<loggerMap_, logger, appender>>
      /\ raced' = (raced \/ \E u \in Threads : thread[u].pc = "make")
  BY DEF FindLogger
<1>2. /\ r \in Locals /\ r.has = loggerMap_
      /\ r.pc = IF loggerMap_ = 0 THEN "make" ELSE "use"
  <2>1. thread[t] \in Locals /\ loggerMap_ \in Nat
    BY DEF IInv, TypeInv
  <2> QED
    BY <2>1 DEF Locals, PCs
<1> HIDE DEF r
<1>3. thread'[t] = r /\ \A u \in Threads \ {t} : thread'[u] = thread[u]
  BY <1>1 DEF IInv, TypeInv
<1>4. TypeInv'
  BY <1>1, <1>2 DEF IInv, TypeInv
<1>5. HoldsLogger'
  BY <1>1, <1>2, <1>3 DEF IInv, TypeInv, HoldsLogger
<1>6. Formatted'
  BY <1>1, <1>2, <1>3 DEF IInv, Formatted, HasFormatter
<1>7. OneMaker'
  <2> SUFFICES ASSUME ~raced' PROVE OneMaker'
    BY DEF OneMaker
  <2>1. ~raced /\ \A u \in Threads : thread[u].pc # "make"
    BY <1>1
  <2> QED
    BY <2>1, <1>1, <1>2, <1>3 DEF IInv, OneMaker
<1> QED
  BY <1>4, <1>5, <1>6, <1>7 DEF IInv

LEMMA MakeLoggerIInv ==
  ASSUME IInv, NEW t \in Threads, MakeLogger(t)
  PROVE  IInv'
<1> DEFINE n == Len(logger) + 1
           r == [thread[t] EXCEPT !.pc = "use", !.has = n]
<1>1. /\ thread[t].pc = "make" /\ Len(logger) < MaxLoggers
      /\ thread' = [thread EXCEPT ![t] = r]
      /\ loggerMap_' = IF loggerMap_ = 0 THEN n ELSE loggerMap_
      /\ logger' = Append(logger, NewLogger)
      /\ UNCHANGED <<appender, raced>>
  BY DEF MakeLogger
<1>2. logger \in Seq(Loggers) /\ Len(logger) \in Nat /\ n \in Nat
  BY DEF IInv, TypeInv
<1>3. r \in Locals /\ r.pc = "use" /\ r.has = n
  BY <1>2 DEF IInv, TypeInv, Locals, PCs
<1>4. /\ logger' \in Seq(Loggers) /\ Len(logger') = n
      /\ \A l \in 1 .. Len(logger) : logger'[l] = logger[l]
      /\ logger'[n] = NewLogger
  BY <1>1, <1>2, NewLoggerTyped, AppendProperties
<1> HIDE DEF r
<1>5. thread'[t] = r /\ \A u \in Threads \ {t} : thread'[u] = thread[u]
  BY <1>1 DEF IInv, TypeInv
<1>6. TypeInv'
  <2>1. thread' \in [Threads -> Locals]
    BY <1>1, <1>3 DEF IInv, TypeInv
  <2>2. Len(logger') <= MaxLoggers /\ loggerMap_' \in 0 .. Len(logger')
    BY <1>1, <1>2, <1>4, LoggerAssumption DEF IInv, TypeInv
  <2> QED
    BY <2>1, <2>2, <1>1, <1>4 DEF IInv, TypeInv
<1>7. HoldsLogger'
  BY <1>2, <1>3, <1>4, <1>5 DEF IInv, TypeInv, HoldsLogger
<1>8. Formatted'
  <2>1. Len(NewLogger.appenders_) = 0
    BY DEF NewLogger
  <2>2. ASSUME NEW l \in 1 .. n,
               NEW k \in 1 .. Len(logger'[l].appenders_)
        PROVE  HasFormatter(logger'[l].appenders_[k])
    <3>1. CASE l = n
      BY <3>1, <2>1, <1>4
    <3>2. CASE l # n
      <4>1. l \in 1 .. Len(logger) /\ logger'[l] = logger[l]
        BY <3>2, <1>2, <1>4
      <4> QED
        BY <4>1 DEF IInv, Formatted
    <3> QED
      BY <3>1, <3>2
  <2>3. ASSUME NEW u \in Threads, thread'[u].pc = "add"
        PROVE  HasFormatter(thread'[u].with)
    BY <2>3, <1>1, <1>3, <1>5 DEF IInv, Formatted
  <2> QED
    BY <2>2, <2>3, <1>1, <1>4 DEF Formatted, HasFormatter
<1>9. OneMaker'
  <2> SUFFICES ASSUME ~raced PROVE OneMaker'
    BY <1>1 DEF OneMaker
  <2>1. loggerMap_ = 0 /\ loggerMap_' = n
    BY <1>1 DEF IInv, OneMaker
  <2>2. \A u \in Threads \ {t} : thread[u].pc # "make" /\ thread[u].has = 0
    BY <2>1, <1>1 DEF IInv, OneMaker
  <2> QED
    BY <2>1, <2>2, <1>3, <1>5 DEF OneMaker
<1> QED
  BY <1>6, <1>7, <1>8, <1>9 DEF IInv

-----------------------------------------------------------------------------
(* The locals of a thread that has done a call. *)
Ended(t) == [Idle EXCEPT !.pc = "use", !.has = thread[t].has,
                         !.ops = thread[t].ops + 1]

LEMMA EndedTyped ==
  ASSUME IInv, NEW t \in Threads, thread[t].pc \in {"use", "add", "log"},
         thread[t].ops < MaxOps
  PROVE  /\ Ended(t) \in Locals /\ Ended(t).pc = "use"
         /\ Ended(t).has = thread[t].has
         /\ thread[t].has \in 1 .. Len(logger)
<1>1. thread[t] \in Locals /\ MaxOps \in Nat
  BY LoggerAssumption DEF IInv, TypeInv
<1>2. thread[t].has \in 1 .. Len(logger)
  BY DEF IInv, HoldsLogger
<1>3. thread[t].ops + 1 \in 0 .. MaxOps /\ thread[t].has \in Nat
  BY <1>1 DEF Locals
<1> QED
  BY <1>2, <1>3 DEF Ended, Idle, Locals, PCs

(* A step that ends a call of a thread: what is to be shown of the loggers. *)
LEMMA EndOfCall ==
  ASSUME IInv, NEW t \in Threads, thread[t].pc \in {"use", "add", "log"},
         thread[t].ops < MaxOps, Done(t),
         UNCHANGED <<loggerMap_, raced, appender>>,
         logger' \in Seq(Loggers), Len(logger') = Len(logger),
         \A l \in 1 .. Len(logger) :
            \A k \in 1 .. Len(logger'[l].appenders_) :
                HasFormatter(logger'[l].appenders_[k])
  PROVE  IInv'
<1>1. thread' = [thread EXCEPT ![t] = Ended(t)]
  BY DEF Done, Ended
<1>2. Formatted'
  <2>1. \A u \in Threads : thread'[u].pc = "add" => thread'[u] = thread[u]
    BY <1>1, EndedTyped DEF IInv, TypeInv
  <2> QED
    BY <2>1 DEF IInv, Formatted, HasFormatter
<1> QED
  BY <1>1, <1>2, EndedTyped, StepOfOne DEF IInv, TypeInv

(* One logger is changed: its level, its formatter or its appenders. *)
LEMMA OneLoggerChanged ==
  ASSUME IInv, NEW l \in 1 .. Len(logger), NEW x \in Loggers,
         logger' = [logger EXCEPT ![l] = x],
         \A k \in 1 .. Len(x.appenders_) : HasFormatter(x.appenders_[k])
  PROVE  /\ logger' \in Seq(Loggers) /\ Len(logger') = Len(logger)
         /\ \A m \in 1 .. Len(logger) :
               \A k \in 1 .. Len(logger'[m].appenders_) :
                   HasFormatter(logger'[m].appenders_[k])
<1>1. logger \in Seq(Loggers)
  BY DEF IInv, TypeInv
<1>2. /\ logger' \in Seq(Loggers) /\ Len(logger') = Len(logger)
      /\ \A m \in 1 .. Len(logger) :
            logger'[m] = IF m = l THEN x ELSE logger[m]
  BY <1>1, ExceptSeq
<1>3. ASSUME NEW m \in 1 .. Len(logger),
             NEW k \in 1 .. Len(logger'[m].appenders_)
      PROVE  HasFormatter(logger'[m].appenders_[k])
  <2>1. CASE m = l
    BY <2>1, <1>2
  <2>2. CASE m # l
    BY <2>2, <1>2 DEF IInv, Formatted
  <2> QED
    BY <2>1, <2>2
<1> QED
  BY <1>2, <1>3

LEMMA LoggerOf ==
  ASSUME IInv, NEW t \in Threads, thread[t].pc \in {"use", "add", "log"}
  PROVE  /\ thread[t].has \in 1 .. Len(logger) /\ Mine(t) \in Loggers
         /\ \A k \in 1 .. Len(Mine(t).appenders_) :
               HasFormatter(Mine(t).appenders_[k])
<1>1. thread[t].has \in 1 .. Len(logger) /\ logger \in Seq(Loggers)
  BY DEF IInv, TypeInv, HoldsLogger
<1> QED
  BY <1>1, ElementOfSeq DEF IInv, Formatted, Mine

LEMMA setLevelIInv ==
  ASSUME IInv, NEW t \in Threads, setLevel(t)
  PROVE  IInv'
<1>1. PICK v \in Levels : logger' = [logger EXCEPT ![thread[t].has].level_ = v]
  BY DEF setLevel
<1> DEFINE x == [Mine(t) EXCEPT !.level_ = v]
<1>2. logger' = [logger EXCEPT ![thread[t].has] = x]
  BY <1>1 DEF Mine
<1>3. /\ thread[t].pc = "use" /\ thread[t].ops < MaxOps /\ Done(t)
      /\ UNCHANGED <<loggerMap_, raced, appender>>
  BY DEF setLevel, Uses
<1>4. x \in Loggers /\ x.appenders_ = Mine(t).appenders_
  BY <1>3, LoggerOf DEF Loggers
<1> HIDE DEF x
<1> QED
  BY <1>2, <1>3, <1>4, LoggerOf, OneLoggerChanged, EndOfCall

LEMMA setFormatterIInv ==
  ASSUME IInv, NEW t \in Threads, setFormatter(t)
  PROVE  IInv'
<1>1. PICK f \in Formats :
        logger' = [logger EXCEPT ![thread[t].has].formatter_ = Formatter(f)]
  BY DEF setFormatter
<1> DEFINE x == [Mine(t) EXCEPT !.formatter_ = Formatter(f)]
<1>2. logger' = [logger EXCEPT ![thread[t].has] = x]
  BY <1>1 DEF Mine
<1>3. /\ thread[t].pc = "use" /\ thread[t].ops < MaxOps /\ Done(t)
      /\ UNCHANGED <<loggerMap_, raced, appender>>
  BY DEF setFormatter, Uses
<1>4. Formatter(f) \in Formatters
  BY DEF Formatters
<1>5. x \in Loggers /\ x.appenders_ = Mine(t).appenders_
  BY <1>3, <1>4, LoggerOf DEF Loggers
<1> HIDE DEF x
<1> QED
  BY <1>2, <1>3, <1>5, LoggerOf, OneLoggerChanged, EndOfCall

LEMMA GiveFormatterIInv ==
  ASSUME IInv, NEW t \in Threads, GiveFormatter(t)
  PROVE  IInv'
<1>1. PICK a \in Appenders :
        /\ appender' = IF appender[a].formatter_ # None THEN appender
                       ELSE [appender EXCEPT ![a].formatter_ =
                                                Mine(t).formatter_]
        /\ thread' = [thread EXCEPT ![t] = [@ EXCEPT !.pc = "add", !.with = a]]
  BY DEF GiveFormatter
<1> DEFINE r == [thread[t] EXCEPT !.pc = "add", !.with = a]
<1>2. /\ thread[t].pc = "use" /\ thread[t].ops < MaxOps
      /\ UNCHANGED <<loggerMap_, raced, logger>>
  BY DEF GiveFormatter, Uses
<1>3. /\ thread[t] \in Locals /\ logger \in Seq(Loggers)
      /\ appender \in [Appenders -> [level_ : {0} \cup Levels,
                                     formatter_ : {None} \cup Formatters]]
  BY DEF IInv, TypeInv
<1>4. /\ r \in Locals /\ r.pc = "add" /\ r.with = a
      /\ r.has = thread[t].has /\ r.ops = thread[t].ops
  BY <1>3 DEF Locals, PCs
<1>5. Mine(t).formatter_ \in Formatters /\ Mine(t).formatter_ # None
  BY <1>2, LoggerOf, FormatterAssumption DEF Loggers, Formatters
<1>6. appender' \in [Appenders -> [level_ : {0} \cup Levels,
                                   formatter_ : {None} \cup Formatters]]
  BY <1>1, <1>3, <1>5
<1>7. /\ appender'[a].formatter_ # None
      /\ \A b \in Appenders :
            appender[b].formatter_ # None => appender'[b].formatter_ # None
  BY <1>1, <1>3, <1>5
<1> HIDE DEF r
<1>8. thread' = [thread EXCEPT ![t] = r]
  BY <1>1 DEF r
<1>9. Formatted'
  <2>1. \A l \in 1 .. Len(logger) : \A k \in 1 .. Len(logger[l].appenders_) :
            HasFormatter(logger[l].appenders_[k])'
    BY <1>2, <1>7 DEF IInv, Formatted, HasFormatter
  <2>2. ASSUME NEW u \in Threads, thread'[u].pc = "add"
        PROVE  HasFormatter(thread[u].with)'
    <3>1. CASE u = t
      BY <3>1, <1>4, <1>7, <1>8 DEF IInv, TypeInv, HasFormatter
    <3>2. CASE u # t
      <4>1. thread'[u] = thread[u]
        BY <3>2, <1>8 DEF IInv, TypeInv
      <4> QED
        BY <4>1, <2>2, <1>7 DEF IInv, Formatted, HasFormatter
    <3> QED
      BY <3>1, <3>2
  <2> QED
    BY <2>1, <2>2, <1>2 DEF Formatted, HasFormatter
<1> QED
  BY <1>2, <1>3, <1>4, <1>6, <1>8, <1>9, StepOfOne

LEMMA addAppenderIInv ==
  ASSUME IInv, NEW t \in Threads, addAppender(t)
  PROVE  IInv'
<1> DEFINE a == thread[t].with
           s == Mine(t).appenders_
           x == [Mine(t) EXCEPT !.appenders_ = Append(s, a)]
<1>1. /\ logger' = [logger EXCEPT ![thread[t].has] = x]
      /\ thread[t].pc = "add" /\ Done(t)
      /\ UNCHANGED <<loggerMap_, raced, appender>>
  BY DEF addAppender, Mine
<1>2. thread[t].ops < MaxOps /\ HasFormatter(a) /\ a \in Appenders
  BY <1>1 DEF IInv, HoldsLogger, Formatted, HasFormatter
<1>3. s \in Seq(Appenders) /\ Mine(t) \in Loggers
  BY <1>1, LoggerOf DEF Loggers
<1>4. /\ Append(s, a) \in Seq(Appenders)
      /\ \A k \in 1 .. Len(Append(s, a)) : HasFormatter(Append(s, a)[k])
  <2>1. /\ Append(s, a) \in Seq(Appenders) /\ Len(Append(s, a)) = Len(s) + 1
        /\ \A k \in 1 .. Len(s) : Append(s, a)[k] = s[k]
        /\ Append(s, a)[Len(s) + 1] = a
    BY <1>2, <1>3, AppendProperties
  <2>2. \A k \in 1 .. Len(s) : HasFormatter(s[k])
    BY <1>1, LoggerOf
  <2>3. \A k \in 1 .. Len(s) + 1 : k \in 1 .. Len(s) \/ k = Len(s) + 1
    BY <1>3
  <2> QED
    BY <2>1, <2>2, <2>3, <1>2
<1>5. x \in Loggers /\ x.appenders_ = Append(s, a)
  BY <1>3, <1>4 DEF Loggers
<1> HIDE DEF x, s, a
<1> QED
  BY <1>1, <1>2, <1>4, <1>5, LoggerOf, OneLoggerChanged, EndOfCall

LEMMA delAppenderIInv ==
  ASSUME IInv, NEW t \in Threads, delAppender(t)
  PROVE  IInv'
<1>1. PICK a \in Appenders :
        logger' = [logger EXCEPT ![thread[t].has].appenders_ =
                                    RemoveFirst(@, a)]
  BY DEF delAppender
<1> DEFINE s == Mine(t).appenders_
           rest == RemoveFirst(s, a)
           x == [Mine(t) EXCEPT !.appenders_ = rest]
<1>2. logger' = [logger EXCEPT ![thread[t].has] = x]
  BY <1>1 DEF Mine
<1>3. /\ thread[t].pc = "use" /\ thread[t].ops < MaxOps /\ Done(t)
      /\ UNCHANGED <<loggerMap_, raced, appender>>
  BY DEF delAppender, Uses
<1>4. s \in Seq(Appenders) /\ Mine(t) \in Loggers
  BY <1>3, LoggerOf DEF Loggers
<1>5. /\ rest \in Seq(Appenders)
      /\ \A k \in 1 .. Len(rest) : \E j \in 1 .. Len(s) : rest[k] = s[j]
  BY <1>4, RemovedIsPart
<1>6. \A k \in 1 .. Len(rest) : HasFormatter(rest[k])
  BY <1>3, <1>5, LoggerOf
<1> HIDE DEF rest
<1>7. x \in Loggers /\ x.appenders_ = rest
  BY <1>4, <1>5 DEF Loggers
<1> HIDE DEF x, s
<1> QED
  BY <1>2, <1>3, <1>6, <1>7, LoggerOf, OneLoggerChanged, EndOfCall

(* A call that leaves the loggers as they are. *)
LEMMA LoggersKept ==
  ASSUME IInv, UNCHANGED logger
  PROVE  /\ logger' \in Seq(Loggers) /\ Len(logger') = Len(logger)
         /\ \A l \in 1 .. Len(logger) :
               \A k \in 1 .. Len(logger'[l].appenders_) :
                   HasFormatter(logger'[l].appenders_[k])
<1> QED
  BY DEF IInv, TypeInv, Formatted

LEMMA NETCO_LOGIInv ==
  ASSUME IInv, NEW t \in Threads, NETCO_LOG(t)
  PROVE  IInv'
<1>1. /\ thread[t].pc = "use" /\ thread[t].ops < MaxOps
      /\ UNCHANGED <<loggerMap_, raced, logger, appender>>
  BY DEF NETCO_LOG, Uses
<1>2. CASE Done(t)
  BY <1>1, <1>2, LoggersKept, EndOfCall
<1>3. ASSUME NEW v \in Levels,
             thread' = [thread EXCEPT ![t] = [@ EXCEPT !.pc = "log",
                                                       !.level = v]]
      PROVE  IInv'
  <2> DEFINE r == [thread[t] EXCEPT !.pc = "log", !.level = v]
  <2>1. thread[t] \in Locals
    BY DEF IInv, TypeInv
  <2>2. /\ r \in Locals /\ r.pc = "log"
        /\ r.has = thread[t].has /\ r.ops = thread[t].ops
    BY <2>1 DEF Locals, PCs
  <2>3. thread' = [thread EXCEPT ![t] = r]
    BY <1>3
  <2> HIDE DEF r
  <2>4. \A u \in Threads : thread'[u].pc = "add" => thread'[u] = thread[u]
    BY <2>2, <2>3 DEF IInv, TypeInv
  <2>5. Formatted'
    BY <2>4, <1>1 DEF IInv, Formatted, HasFormatter
  <2> QED
    BY <1>1, <2>2, <2>3, <2>5, LoggersKept, StepOfOne DEF IInv, TypeInv
<1> QED
  BY <1>2, <1>3 DEF NETCO_LOG

LEMMA logIInv ==
  ASSUME IInv, NEW t \in Threads, log(t)
  PROVE  IInv'
<1>1. /\ thread[t].pc = "log" /\ Done(t)
      /\ UNCHANGED <<loggerMap_, raced, logger, appender>>
  BY DEF log
<1>2. thread[t].ops < MaxOps
  BY <1>1 DEF IInv, HoldsLogger
<1> QED
  BY <1>1, <1>2, LoggersKept, EndOfCall

-----------------------------------------------------------------------------
LEMMA NextIInv == IInv /\ [Next]_vars => IInv'
<1> SUFFICES ASSUME IInv, [Next]_vars PROVE IInv'
  OBVIOUS
<1>1. CASE UNCHANGED vars
  BY <1>1 DEF vars, IInv, TypeInv, HoldsLogger, Formatted, HasFormatter,
              OneMaker
<1>2. ASSUME NEW t \in Threads,
             \/ FindLogger(t) \/ MakeLogger(t)
             \/ setLevel(t) \/ setFormatter(t)
             \/ GiveFormatter(t) \/ addAppender(t) \/ delAppender(t)
             \/ NETCO_LOG(t) \/ log(t)
      PROVE  IInv'
  BY <1>2, FindLoggerIInv, MakeLoggerIInv, setLevelIInv, setFormatterIInv,
     GiveFormatterIInv, addAppenderIInv, delAppenderIInv, NETCO_LOGIInv,
     logIInv
<1> QED
  BY <1>1, <1>2 DEF Next

(* The inductive invariant: getLogger and the calls of a logger, in any
   interleaving, keep what a thread has, and what an appender needs. *)
THEOREM Inductive == Spec => []IInv
<1> QED
  BY InitIInv, NextIInv, PTL DEF Spec

(* Every variable keeps its type; a thread that calls a logger has got one from
   getLogger, and log never writes to an appender that addAppender has left
   without a formatter. *)
THEOREM TypeCorrect == Spec => []TypeOK
<1>1. IInv => TypeOK
  <2> SUFFICES ASSUME IInv PROVE TypeOK
    OBVIOUS
  <2>1. logger \in Seq(Loggers) /\ DOMAIN logger = 1 .. Len(logger)
    BY DEF IInv, TypeInv
  <2>2. ASSUME NEW l \in DOMAIN logger
        PROVE  /\ logger[l].level_ \in {DEBUG} \cup Levels
               /\ \A a \in Range(logger[l].appenders_) :
                     a \in Appenders /\ appender[a].formatter_ # None
    <3>1. logger[l] \in Loggers
      BY <2>1, ElementOfSeq
    <3>2. logger[l].appenders_ \in Seq(Appenders)
      BY <3>1 DEF Loggers
    <3>3. DOMAIN logger[l].appenders_ = 1 .. Len(logger[l].appenders_)
      BY <3>2
    <3>4. \A a \in Range(logger[l].appenders_) : HasFormatter(a)
      BY <3>3, <2>1 DEF Range, IInv, Formatted
    <3> QED
      BY <3>1, <3>4 DEF Loggers, HasFormatter
  <2>3. \A t \in Threads :
          /\ thread[t].pc \in PCs /\ thread[t].ops \in 0 .. MaxOps
          /\ thread[t].pc \in {"use", "add", "log"}
             => thread[t].has \in DOMAIN logger
    BY <2>1 DEF IInv, TypeInv, Locals, HoldsLogger
  <2> QED
    BY <2>2, <2>3 DEF TypeOK, IInv, TypeInv, PCs
<1> QED
  BY <1>1, Inductive, PTL

(* getLogger gives all threads the one logger of a name, unless two threads
   have looked for it in vain before either of them put one into the map. *)
THEOREM LoggerIsShared == Spec => []SharedUnlessRaced
<1>1. IInv => SharedUnlessRaced
  BY DEF IInv, OneMaker, SharedUnlessRaced
<1> QED
  BY <1>1, Inductive, PTL

-----------------------------------------------------------------------------
(* What a piece of a format shows of an event. *)
Chars == STRING \cup Letters
            \cup {"", "%", "d", "[", "]", ":"}   \* for the provers: STRING
Pieces == [text : Seq(Chars), item : Chars]
Marks(event) == Chars \cup {event.message, event.level, event.thread}
Rendered(piece, event) ==
    IF piece.item = "" THEN piece.text ELSE << Shown(piece.item, event) >>

(* g is the output of format after each piece. *)
Renders(seq, event, out) ==
    \E g \in [0 .. Len(seq) -> Seq(Marks(event))] :
        /\ g[0] = << >> /\ g[Len(seq)] = out
        /\ \A k \in 1 .. Len(seq) :
            g[k] = g[k - 1] \o Rendered(seq[k], event)

LEMMA ShownIs ==
  ASSUME NEW letter \in Chars, NEW event
  PROVE  /\ Shown(letter, event) \in Marks(event)
         /\ << Shown(letter, event) >> \in Seq(Marks(event))
<1>1. PICK mark : mark = Shown(letter, event)
  OBVIOUS
<1>2. mark \in Marks(event)
  BY <1>1 DEF Shown, Marks
<1>3. << mark >> \in Seq(Marks(event))
  BY <1>2
<1> QED
  BY <1>1, <1>2, <1>3

LEMMA TextIs ==
  ASSUME NEW text \in Seq(Chars), NEW event
  PROVE  text \in Seq(Marks(event))
<1>1. Chars \subseteq Marks(event)
  BY DEF Marks
<1> QED
  BY <1>1, SeqMonotonic

LEMMA RenderedTyped ==
  ASSUME NEW piece \in Pieces, NEW event
  PROVE  Rendered(piece, event) \in Seq(Marks(event))
<1>1. piece.text \in Seq(Chars) /\ piece.item \in Chars
  BY DEF Pieces
<1> QED
  BY <1>1, ShownIs, TextIs DEF Rendered

(* FlattenSeq: the output is what the pieces show, one after another. *)
LEMMA FormatIs ==
  ASSUME NEW seq \in Seq(Pieces), NEW event, NEW out,
         Renders(seq, event, out)
  PROVE  format(seq, event) = out
<1>1. PICK N \in Nat : N = Len(seq) /\ DOMAIN seq = 1 .. N
  BY LenProperties
<1>2. PICK s : s = [k \in 1 .. N |-> Rendered(seq[k], event)]
  OBVIOUS
<1>3. format(seq, event) = FlattenSeq(s)
  BY <1>1, <1>2 DEF format, Rendered
<1>4. \A k \in 1 .. N : s[k] \in Seq(Marks(event))
  <2> TAKE k \in 1 .. N
  <2>1. seq[k] \in Pieces
    BY <1>1, ElementOfSeq
  <2> QED
    BY <1>2, <2>1, RenderedTyped
<1>5. s \in Seq(Seq(Marks(event))) /\ Len(s) = N
  BY <1>2, <1>4
<1>6. PICK g \in [0 .. N -> Seq(Marks(event))] :
        /\ g[0] = << >> /\ g[N] = out
        /\ \A k \in 1 .. N : g[k] = g[k - 1] \o s[k]
  BY <1>1, <1>2 DEF Renders
<1>7. CASE N = 0
  <2>1. s = << >>
    BY <1>5, <1>7
  <2> QED
    BY <1>3, <1>5, <1>6, <1>7, <2>1 DEF FlattenSeq
<1>8. CASE N # 0
  <2> DEFINE Flattens(h) == h = [i \in 1 .. Len(s) |->
                                    IF i = 1 THEN s[i] ELSE h[i - 1] \o s[i]]
  <2>1. PICK H : H = CHOOSE h : Flattens(h)
    OBVIOUS
  <2>2. FlattenSeq(s) = H[N]
    BY <1>5, <1>8, <2>1 DEF FlattenSeq
  <2>3. Flattens(H)
    <3>1. PICK h : h = [i \in 1 .. N |-> g[i]]
      OBVIOUS
    <3>2. g[1] = s[1]
      <4>0. 1 \in 1 .. N /\ 1 - 1 = 0
        BY <1>8
      <4>1. 1 \in 1 .. N /\ g[1] = << >> \o s[1]
        BY <4>0, <1>6
      <4> QED
        BY <4>1, <1>4, ConcatEmptySeq
    <3>3. ASSUME NEW i \in 1 .. N
          PROVE  h[i] = IF i = 1 THEN s[i] ELSE h[i - 1] \o s[i]
      <4>1. CASE i = 1
        BY <3>1, <3>2, <4>1
      <4>2. CASE i # 1
        <5>1. i - 1 \in 1 .. N
          BY <4>2
        <5> QED
          BY <1>6, <3>1, <4>2, <5>1
      <4> QED
        BY <4>1, <4>2
    <3>4. Flattens(h)
      BY <1>5, <3>1, <3>3
    <3> QED
      BY <2>1, <3>4
  <2>4. \A i \in 1 .. N : H[i] = IF i = 1 THEN s[i] ELSE H[i - 1] \o s[i]
    BY <1>5, <2>3
  <2> HIDE DEF Flattens
  <2> DEFINE T == {i \in Nat : i \in 1 .. N => H[i] = g[i]}
  <2>5. 0 \in T
    OBVIOUS
  <2>6. ASSUME NEW i \in Nat, i \in T PROVE i + 1 \in T
    <3> SUFFICES ASSUME i + 1 \in 1 .. N PROVE H[i + 1] = g[i + 1]
      OBVIOUS
    <3>1. g[i + 1] = g[i] \o s[i + 1]
      <4>1. (i + 1) - 1 = i
        OBVIOUS
      <4> QED
        BY <4>1, <1>6
    <3>2. CASE i = 0
      <4>0. 1 \in 1 .. N /\ i + 1 = 1
        BY <3>2
      <4>1. H[1] = s[1] /\ g[1] = << >> \o s[1] /\ 1 \in 1 .. N
        BY <4>0, <1>6, <2>4, <3>1, <3>2
      <4> QED
        BY <4>1, <3>2, <1>4, ConcatEmptySeq
    <3>3. CASE i # 0
      <4>1. i \in 1 .. N /\ (i + 1) - 1 = i /\ i + 1 # 1
        BY <3>3
      <4>2. H[i] = g[i]
        BY <2>6, <4>1
      <4> QED
        BY <2>4, <3>1, <4>1, <4>2
    <3> QED
      BY <3>2, <3>3
  <2> HIDE DEF T
  <2>7. N \in T
    BY <2>5, <2>6, NatSetInduction
  <2>8. N \in 1 .. N
    BY <1>8
  <2> QED
    BY <1>3, <1>6, <2>2, <2>7, <2>8 DEF T
<1> QED
  BY <1>7, <1>8

LEMMA RendersNone ==
  ASSUME NEW event
  PROVE  Renders(<< >>, event, << >>)
<1>1. PICK g : g = [k \in 0 .. 0 |-> << >>]
  OBVIOUS
<1>2. /\ g \in [0 .. 0 -> Seq(Marks(event))] /\ g[0] = << >>
      /\ Len(<< >>) = 0
  BY <1>1
<1> QED
  BY <1>2 DEF Renders

LEMMA RendersMore ==
  ASSUME NEW seq \in Seq(Pieces), NEW event, NEW out,
         Renders(seq, event, out), NEW piece \in Pieces
  PROVE  /\ seq \o << piece >> \in Seq(Pieces)
         /\ out \in Seq(Marks(event))
         /\ Renders(seq \o << piece >>, event, out \o Rendered(piece, event))
<1>1. PICK N \in Nat : N = Len(seq)
  BY LenProperties
<1>2. PICK s : s = seq \o << piece >>
  OBVIOUS
<1>3. /\ s \in Seq(Pieces) /\ Len(s) = N + 1 /\ s[N + 1] = piece
      /\ \A k \in 1 .. N : s[k] = seq[k]
  BY <1>1, <1>2, AppendIsConcat, AppendProperties
<1>4. PICK g \in [0 .. N -> Seq(Marks(event))] :
        /\ g[0] = << >> /\ g[N] = out
        /\ \A k \in 1 .. N : g[k] = g[k - 1] \o Rendered(seq[k], event)
  BY <1>1 DEF Renders
<1>5. PICK all : all = out \o Rendered(piece, event)
  OBVIOUS
<1>6. out \in Seq(Marks(event)) /\ all \in Seq(Marks(event))
  BY <1>4, <1>5, RenderedTyped, ConcatProperties
<1>7. PICK h : h = [k \in 0 .. N + 1 |-> IF k = N + 1 THEN all ELSE g[k]]
  OBVIOUS
<1>8. /\ h \in [0 .. N + 1 -> Seq(Marks(event))]
      /\ h[N + 1] = all /\ \A k \in 0 .. N : h[k] = g[k]
  BY <1>4, <1>6, <1>7
<1>9. ASSUME NEW k \in 1 .. N + 1
      PROVE  h[k] = h[k - 1] \o Rendered(s[k], event)
  <2>1. CASE k = N + 1
    <3>1. k - 1 = N /\ N \in 0 .. N
      BY <2>1
    <3> QED
      BY <2>1, <3>1, <1>3, <1>4, <1>5, <1>8
  <2>2. CASE k # N + 1
    <3>1. k \in 1 .. N /\ k - 1 \in 0 .. N /\ k \in 0 .. N
      BY <2>2
    <3> QED
      BY <3>1, <1>3, <1>4, <1>8
  <2> QED
    BY <2>1, <2>2
<1>10. h[0] = << >>
  BY <1>4, <1>8
<1>11. Renders(s, event, all)
  BY <1>3, <1>8, <1>9, <1>10 DEF Renders
<1> QED
  BY <1>2, <1>3, <1>5, <1>6, <1>11

-----------------------------------------------------------------------------
(* The loop of init is a fold over the positions of a format: the function on
   the sets of positions that the fold defines. *)
Base == [status |-> 0, start |-> 0, seq |-> << >>]
Turn(f, g, s) == IF s = {} THEN Base
                 ELSE InitStep(f, g[s \ {Max(s)}], Max(s) - 1)
Turns(f, g) == g = [s \in SUBSET (1 .. Len(f)) |-> Turn(f, g, s)]

LEMMA TurnsExist ==
  ASSUME NEW f \in Seq(Chars)
  PROVE  \E g : Turns(f, g)
<1>1. PICK N \in Nat : N = Len(f)
  BY LenProperties
<1> DEFINE All == SUBSET (1 .. N)
           Is(g, n) == /\ g = [s \in All |-> g[s]]
                       /\ \A s \in All : s \subseteq 1 .. n
                                         => g[s] = Turn(f, g, s)
           T == {n \in Nat : \E g : Is(g, n)}
<1>2. 0 \in T
  <2>1. PICK g : g = [s \in All |-> Base]
    OBVIOUS
  <2>2. \A s \in All : s \subseteq 1 .. 0 => s = {}
    OBVIOUS
  <2>3. Is(g, 0)
    BY <2>1, <2>2 DEF Turn
  <2> HIDE DEF Is
  <2> QED
    BY <2>3
<1>3. ASSUME NEW n \in Nat, n \in T PROVE n + 1 \in T
  <2>1. PICK g : Is(g, n)
    BY <1>3
  <2>2. PICK h : h = [s \in All |-> IF s \subseteq 1 .. n THEN g[s]
                                    ELSE Turn(f, g, s)]
    OBVIOUS
  <2>3. ASSUME NEW s \in All, s \subseteq 1 .. n + 1
        PROVE  h[s] = Turn(f, h, s)
    <3>1. h[s] = Turn(f, g, s)
      BY <2>1, <2>2
    <3>2. CASE s = {}
      BY <3>1, <3>2 DEF Turn
    <3>3. CASE s # {}
      <4>1. PICK m \in s : m = Max(s) /\ \A k \in s : m >= k
        BY <2>3, <3>3, LastPosition
      <4>2. PICK r : r = s \ {m}
        OBVIOUS
      <4>3. r \in All /\ r \subseteq 1 .. n
        <5>1. \A k \in r : k \in 1 .. n + 1 /\ k # m /\ m >= k /\ m \in 1 .. n + 1
          BY <2>3, <4>1, <4>2
        <5>2. \A k \in r : k \in 1 .. n
          BY <5>1
        <5> QED
          BY <5>2, <4>2
      <4>4. h[r] = g[r]
        BY <2>2, <4>3
      <4>5. /\ Turn(f, g, s) = InitStep(f, g[r], m - 1)
            /\ Turn(f, h, s) = InitStep(f, h[r], m - 1)
        BY <3>3, <4>1, <4>2 DEF Turn
      <4> QED
        BY <3>1, <4>4, <4>5
    <3> QED
      BY <3>2, <3>3
  <2>4. h = [s \in All |-> h[s]]
    BY <2>2
  <2>5. Is(h, n + 1)
    BY <2>3, <2>4
  <2> HIDE DEF Is
  <2> QED
    BY <2>5
<1> HIDE DEF T
<1>4. N \in T
  BY <1>2, <1>3, NatSetInduction
<1>5. PICK g : Is(g, N)
  BY <1>4 DEF T
<1>6. \A s \in All : g[s] = Turn(f, g, s)
  BY <1>5
<1>7. g = [s \in All |-> Turn(f, g, s)]
  BY <1>5, <1>6, Zenon
<1> QED
  BY <1>1, <1>7 DEF Turns

(* init: state[i] is what the loop has after i characters. *)
LEMMA InitIs ==
  ASSUME NEW f \in Seq(Chars), NEW N \in Nat, N = Len(f)
  PROVE  \E state :
            /\ state[0] = Base
            /\ \A i \in 0 .. N - 1 : state[i + 1] = InitStep(f, state[i], i)
            /\ init(f) = state[N].seq \o
                            IF state[N].start < N
                            THEN << Text(f, state[N].start,
                                         N - state[N].start) >>
                            ELSE << >>
<1> DEFINE same == [i \in DOMAIN f |-> i]
           Folds(g) == g = [s \in SUBSET DOMAIN same |->
                        IF s = {} THEN Base
                        ELSE InitStep(f, g[s \ {Max(s)}], same[Max(s)] - 1)]
<1>1. PICK g : g = CHOOSE h : Folds(h)
  OBVIOUS
<1>2. PICK last : last = g[DOMAIN same]
  OBVIOUS
<1>3. init(f) = last.seq \o IF last.start < N
                            THEN << Text(f, last.start, N - last.start) >>
                            ELSE << >>
  BY <1>1, <1>2 DEF init, FoldLeftDomain, FoldLeft, MapThenFoldSet, Base
<1>4. DOMAIN f = 1 .. N /\ DOMAIN same = 1 .. N
  BY LenProperties
<1>5. ASSUME NEW h PROVE Folds(h) <=> Turns(f, h)
  <2>1. \A s \in SUBSET (1 .. N) : s # {} => Max(s) \in 1 .. N
    BY LastPosition
  <2>2. \A s \in SUBSET (1 .. N) : s # {} => same[Max(s)] = Max(s)
    BY <2>1, <1>4
  <2>3. \A s \in SUBSET (1 .. N) :
            Turn(f, h, s) =
                IF s = {} THEN Base
                ELSE InitStep(f, h[s \ {Max(s)}], same[Max(s)] - 1)
    BY <2>2, Zenon DEF Turn
  <2> HIDE DEF same
  <2> QED
    BY <2>3, <1>4, Zenon DEF Turns
<1>6. Turns(f, g)
  <2>1. \E h : Folds(h)
    BY <1>5, TurnsExist
  <2> HIDE DEF Folds
  <2>2. Folds(g)
    BY <1>1, <2>1
  <2> QED
    BY <1>5, <2>2
<1>7. \A s \in SUBSET (1 .. N) : g[s] = Turn(f, g, s)
  BY <1>6, Zenon DEF Turns
<1>8. PICK state : state = [i \in 0 .. N |-> g[1 .. i]]
  OBVIOUS
<1>9. state[0] = Base
  <2>1. 1 .. 0 = {} /\ {} \in SUBSET (1 .. N)
    OBVIOUS
  <2>2. g[{}] = Base
    BY <2>1, <1>7 DEF Turn
  <2> QED
    BY <2>1, <2>2, <1>8
<1>10. ASSUME NEW i \in 0 .. N - 1
       PROVE  state[i + 1] = InitStep(f, state[i], i)
  <2>1. PICK s : s = 1 .. i + 1
    OBVIOUS
  <2>2. s \in SUBSET (1 .. N) /\ s # {} /\ i + 1 \in s /\ i + 1 \in Nat
    <3>1. i + 1 \in s /\ i + 1 \in Nat
      BY <2>1
    <3>2. \A k \in s : k \in 1 .. N
      BY <2>1
    <3> QED
      BY <3>1, <3>2, Zenon
  <2>3. Max(s) \in s /\ \A k \in s : Max(s) >= k
    <3>1. s \in SUBSET (1 .. N) /\ s # {}
      BY <2>2
    <3> QED
      BY <3>1, LastPosition
  <2>4. Max(s) = i + 1
    BY <2>1, <2>2, <2>3
  <2>5. s \ {i + 1} = 1 .. i /\ (i + 1) - 1 = i
    BY <2>1
  <2>6. g[s] = InitStep(f, g[1 .. i], i)
    BY <1>7, <2>2, <2>4, <2>5 DEF Turn
  <2> QED
    BY <1>8, <2>1, <2>6
<1>11. last = state[N]
  BY <1>2, <1>4, <1>8
<1> QED
  BY <1>3, <1>9, <1>10, <1>11

-----------------------------------------------------------------------------
(* The documented line, from a position on. *)
LineFrom(f, event, d, k) ==
    IF k > Len(f) THEN << >>
    ELSE IF f[k] = "%" THEN << Shown(f[k + 1], event) >> \o d[k + 2]
    ELSE << f[k] >> \o d[k + 1]

Line(f, event, d) ==
    /\ d \in [1 .. Len(f) + 2 -> Seq(Marks(event))]
    /\ \A k \in 1 .. Len(f) + 2 : d[k] = LineFrom(f, event, d, k)

LEMMA DocumentedIs ==
  ASSUME NEW f \in Seq(Chars), Plain(f), NEW event,
         NEW N \in Nat, N = Len(f)
  PROVE  \E d : Line(f, event, d) /\ Documented(f, event) = d[1]
<1> DEFINE Is(d) == d = [k \in 1 .. N + 2 |-> LineFrom(f, event, d, k)]
           Ends(d, j) == \A k \in 1 .. N + 2 :
                            k > N - j => d[k] = LineFrom(f, event, d, k)
           Typed == [1 .. N + 2 -> Seq(Marks(event))]
           T == {j \in Nat : j <= N => \E d \in Typed : Ends(d, j)}
<1>2. ASSUME NEW k \in 1 .. N, NEW d \in Typed
      PROVE  LineFrom(f, event, d, k) \in Seq(Marks(event))
  <2>1. f[k] \in Chars /\ ~(k > Len(f))
    BY ElementOfSeq
  <2>2. CASE f[k] = "%"
    <3>1. k + 1 \in 1 .. N /\ k + 2 \in 1 .. N + 2
      BY <2>2 DEF Plain
    <3>2. f[k + 1] \in Chars /\ d[k + 2] \in Seq(Marks(event))
      BY <3>1, ElementOfSeq
    <3>3. << Shown(f[k + 1], event) >> \in Seq(Marks(event))
      BY <3>2, ShownIs
    <3> QED
      BY <2>1, <2>2, <3>2, <3>3, ConcatProperties DEF LineFrom
  <2>3. CASE f[k] # "%"
    <3>1. << f[k] >> \in Seq(Chars) /\ d[k + 1] \in Seq(Marks(event))
      BY <2>1
    <3>2. << f[k] >> \in Seq(Marks(event))
      BY <3>1, TextIs
    <3> QED
      BY <2>1, <2>3, <3>1, <3>2, ConcatProperties DEF LineFrom
  <2> QED
    BY <2>2, <2>3
<1>3. 0 \in T
  <2>1. PICK d : d = [k \in 1 .. N + 2 |-> << >>]
    OBVIOUS
  <2>2. << >> \in Seq(Marks(event))
    OBVIOUS
  <2>3. d \in Typed
    BY <2>1, <2>2
  <2>4. Ends(d, 0)
    BY <2>1 DEF LineFrom
  <2> HIDE DEF Ends, Typed
  <2> QED
    BY <2>3, <2>4
<1>4. ASSUME NEW j \in Nat, j \in T PROVE j + 1 \in T
  <2> SUFFICES ASSUME j + 1 <= N PROVE \E d \in Typed : Ends(d, j + 1)
    OBVIOUS
  <2>1. PICK d \in Typed : Ends(d, j)
    BY <1>4
  <2>2. PICK p \in 1 .. N : p = N - j
    OBVIOUS
  <2>3. PICK x \in Seq(Marks(event)) : x = LineFrom(f, event, d, p)
    BY <1>2
  <2>4. PICK e : e = [d EXCEPT ![p] = x]
    OBVIOUS
  <2>5. /\ e \in Typed /\ e[p] = x
        /\ \A k \in 1 .. N + 2 : k > p => e[k] = d[k]
    BY <2>3, <2>4
  <2>6. ASSUME NEW k \in 1 .. N + 2, k > N - (j + 1)
        PROVE  e[k] = LineFrom(f, event, e, k)
    <3>1. LineFrom(f, event, e, k) = LineFrom(f, event, d, k)
      <4>1. CASE k > N
        BY <4>1 DEF LineFrom
      <4>2. CASE k <= N
        <5>1. /\ k + 1 \in 1 .. N + 2 /\ k + 2 \in 1 .. N + 2
              /\ k + 1 > p /\ k + 2 > p
          BY <2>2, <2>6, <4>2
        <5>2. e[k + 1] = d[k + 1] /\ e[k + 2] = d[k + 2]
          BY <2>5, <5>1
        <5> QED
          BY <5>2 DEF LineFrom
      <4> QED
        BY <4>1, <4>2
    <3>2. CASE k = p
      BY <3>1, <3>2, <2>3, <2>5
    <3>3. CASE k # p
      <4>1. k > p /\ k > N - j
        BY <2>2, <2>6, <3>3
      <4>2. d[k] = LineFrom(f, event, d, k)
        BY <2>1, <4>1
      <4> QED
        BY <4>1, <4>2, <3>1, <2>5
    <3> QED
      BY <3>2, <3>3
  <2> QED
    BY <2>5, <2>6
<1> HIDE DEF T
<1>5. N \in T
  BY <1>3, <1>4, NatSetInduction
<1>6. PICK d \in Typed : Ends(d, N)
  BY <1>5 DEF T
<1>7. \A k \in 1 .. N + 2 : d[k] = LineFrom(f, event, d, k)
  BY <1>6
<1>8. \E e : Is(e)
  BY <1>6, <1>7, Zenon
<1>9. PICK e : e = CHOOSE g : Is(g)
  OBVIOUS
<1>10. Documented(f, event) = e[1]
  BY <1>9 DEF Documented, LineFrom
<1>11. e = [k \in 1 .. N + 2 |-> LineFrom(f, event, e, k)]
  BY <1>8, <1>9
<1>12. \A k \in 1 .. N + 2 : e[k] = LineFrom(f, event, e, k)
  BY <1>11
<1>13. \A k \in 1 .. N + 2 : e[k] = d[k]
  <2> DEFINE R == {j \in Nat : \A k \in 1 .. N + 2 : k > N - j => e[k] = d[k]}
  <2>1. 0 \in R
    <3>1. \A k \in 1 .. N + 2 : k > N - 0 => k > Len(f)
      OBVIOUS
    <3> QED
      BY <3>1, <1>7, <1>12 DEF LineFrom
  <2>2. ASSUME NEW j \in Nat, j \in R PROVE j + 1 \in R
    <3> SUFFICES ASSUME NEW k \in 1 .. N + 2, k > N - (j + 1)
                 PROVE  e[k] = d[k]
      OBVIOUS
    <3>1. CASE k > N
      BY <3>1, <1>7, <1>12 DEF LineFrom
    <3>2. CASE k <= N
      <4>1. /\ k + 1 \in 1 .. N + 2 /\ k + 2 \in 1 .. N + 2
            /\ k + 1 > N - j /\ k + 2 > N - j
        BY <3>2
      <4>2. e[k + 1] = d[k + 1] /\ e[k + 2] = d[k + 2]
        BY <2>2, <4>1
      <4>3. LineFrom(f, event, e, k) = LineFrom(f, event, d, k)
        BY <4>2 DEF LineFrom
      <4> QED
        BY <4>3, <1>7, <1>12
    <3> QED
      BY <3>1, <3>2
  <2> HIDE DEF R
  <2>3. N \in R
    BY <2>1, <2>2, NatSetInduction
  <2>4. \A k \in 1 .. N + 2 : k > N - N
    OBVIOUS
  <2> QED
    BY <2>3, <2>4 DEF R
<1>14. Documented(f, event) = d[1]
  BY <1>10, <1>13
<1>15. Line(f, event, d)
  BY <1>6, <1>7 DEF Line
<1> QED
  BY <1>14, <1>15

-----------------------------------------------------------------------------
(* After i characters of a plain format: what the items and texts so far show,
   the text since the last letter, and the documented line from there on make
   the documented line.  A % after that text waits for its letter. *)
States == [status : {0, 1}, start : Nat, seq : Seq(Pieces)]
Read(s, i) == i - s.status
Kept(f, event, d, s, i) ==
    /\ s \in States /\ s.start <= Read(s, i)
    /\ s.status = 1 => i >= 1 /\ f[i] = "%"
    /\ \A k \in 1 .. Len(f) : s.start < k /\ k <= Read(s, i) => f[k] # "%"
    /\ s.start = 0 \/ f[s.start] # "%"
    /\ \E out \in Seq(Marks(event)) :
        /\ Renders(s.seq, event, out)
        /\ d[1] = (out \o SubSeq(f, s.start + 1, Read(s, i)))
                  \o d[Read(s, i) + 1]

(* The same, of the values that the state has. *)
LEMMA KeptOf ==
  ASSUME NEW f, NEW event, NEW d, NEW s, NEW i \in Nat, Kept(f, event, d, s, i),
         NEW p, p = Read(s, i)
  PROVE  /\ s \in States /\ s.start \in Nat /\ s.seq \in Seq(Pieces)
         /\ s.start <= p /\ p = i - s.status
         /\ s.status = 1 => i >= 1 /\ f[i] = "%"
         /\ \A k \in 1 .. Len(f) : s.start < k /\ k <= p => f[k] # "%"
         /\ s.start = 0 \/ f[s.start] # "%"
         /\ \E out \in Seq(Marks(event)) :
             /\ Renders(s.seq, event, out)
             /\ d[1] = (out \o SubSeq(f, s.start + 1, p)) \o d[p + 1]
<1>1. s \in States /\ s.start \in Nat /\ s.seq \in Seq(Pieces)
  BY DEF Kept, States
<1> QED
  BY <1>1, Zenon DEF Kept, Read

LEMMA KeptIf ==
  ASSUME NEW f, NEW event, NEW d, NEW s, NEW i \in Nat, NEW p, NEW start \in Nat,
         NEW seq \in Seq(Pieces), s \in States, s.start = start,
         s.seq = seq, p = i - s.status, start <= p,
         s.status = 1 => i >= 1 /\ f[i] = "%",
         \A k \in 1 .. Len(f) : start < k /\ k <= p => f[k] # "%",
         start = 0 \/ f[start] # "%",
         NEW out \in Seq(Marks(event)), Renders(seq, event, out),
         d[1] = (out \o SubSeq(f, start + 1, p)) \o d[p + 1]
  PROVE  Kept(f, event, d, s, i)
<1>1. Read(s, i) = p
  BY DEF Read
<1>2. \E o \in Seq(Marks(event)) :
        /\ Renders(s.seq, event, o)
        /\ d[1] = (o \o SubSeq(f, s.start + 1, Read(s, i)))
                  \o d[Read(s, i) + 1]
  BY <1>1, Zenon
<1> QED
  BY <1>1, <1>2, Zenon DEF Kept

LEMMA Associates ==
  ASSUME NEW event, NEW a \in Seq(Marks(event)), NEW b \in Seq(Marks(event)),
         NEW c \in Seq(Marks(event))
  PROVE  (a \o b) \o c = a \o (b \o c)
<1> QED
  BY ConcatAssociative

LEMMA LettersAre ==
  ASSUME NEW c \in Letters \cup {"d"}, NEW event
  PROVE  /\ c \in Chars /\ c # "%" /\ c # "" /\ c \notin Silent
         /\ Item(c) \in Pieces
         /\ Rendered(Item(c), event) = << Shown(c, event) >>
<1>1. c \in {"T", "t", "F", "p", "f", "l", "m", "n", "d"}
  BY DEF Letters
<1>2. c \in Chars
  BY DEF Chars
<1>3. c # "%" /\ c # ""
  BY <1>1
<1>4. c # "N" /\ c # "c"
  BY <1>1
<1>5. << >> \in Seq(Chars)
  OBVIOUS
<1>6. Item(c) \in Pieces
  BY <1>2, <1>5 DEF Item, Pieces
<1>7. Item(c).item = c
  BY DEF Item
<1>8. Rendered(Item(c), event) = << Shown(c, event) >>
  BY <1>3, <1>7 DEF Rendered
<1>9. c \notin Silent
  BY <1>4 DEF Silent
<1> QED
  BY <1>2, <1>3, <1>6, <1>8, <1>9

LEMMA TextTyped ==
  ASSUME NEW f \in Seq(Chars), NEW from \in Nat, NEW to \in Nat,
         to <= Len(f), NEW event
  PROVE  /\ SubSeq(f, from + 1, to) \in Seq(Chars)
         /\ SubSeq(f, from + 1, to) \in Seq(Marks(event))
<1>1. \A i \in from + 1 .. to : f[i] \in Chars
  BY ElementOfSeq
<1>2. from + 1 \in Int /\ to \in Int
  OBVIOUS
<1>3. SubSeq(f, from + 1, to) \in Seq(Chars)
  BY <1>1, <1>2, SubSeqProperties
<1> QED
  BY <1>3, TextIs

LEMMA TextTaken ==
  ASSUME NEW f \in Seq(Chars), NEW from \in Nat, NEW to \in Nat,
         from <= to, to <= Len(f), NEW event
  PROVE  /\ Text(f, from, to - from) \in Pieces
         /\ Rendered(Text(f, from, to - from), event)
                = SubSeq(f, from + 1, to)
<1>1. PICK text \in Seq(Chars) : text = SubSeq(f, from + 1, to)
  BY TextTyped
<1>2. PICK none \in Chars : none = ""
  BY DEF Chars
<1>3. from + (to - from) = to
  OBVIOUS
<1>4. Text(f, from, to - from) = [text |-> text, item |-> none]
  BY <1>1, <1>2, <1>3, Zenon DEF Text
<1>5. [text |-> text, item |-> none] \in Pieces
  BY DEF Pieces
<1>6. /\ [text |-> text, item |-> none].item = none
      /\ [text |-> text, item |-> none].text = text
  OBVIOUS
<1>7. Rendered([text |-> text, item |-> none], event) = text
  BY <1>2, <1>6, Zenon DEF Rendered
<1> QED
  BY <1>1, <1>4, <1>5, <1>7

(* The next character is a %. *)
LEMMA StepPercent ==
  ASSUME NEW f \in Seq(Chars), Plain(f), NEW event, NEW d, NEW s,
         NEW i \in 0 .. Len(f) - 1, Kept(f, event, d, s, i), f[i + 1] = "%"
  PROVE  Kept(f, event, d, InitStep(f, s, i), i + 1)
<1>1. PICK N \in Nat : N = Len(f)
  BY LenProperties
<1>2. s.status = 0
  <2> SUFFICES ASSUME s.status = 1 PROVE FALSE
    BY DEF Kept, States
  <2>1. i \in 1 .. Len(f) /\ f[i] = "%"
    BY <1>1 DEF Kept
  <2>2. f[i + 1] \in Letters \cup {"d"}
    BY <2>1 DEF Plain
  <2> QED
    BY <2>2, LettersAre
<1>3. PICK r : r = InitStep(f, s, i)
  OBVIOUS
<1>4. r \in States /\ r.status = 1 /\ r.start = s.start /\ r.seq = s.seq
  <2>1. r = [s EXCEPT !.status = 1] /\ s \in States
    BY <1>3 DEF InitStep, Kept
  <2> QED
    BY <2>1 DEF States
<1>5. i \in Nat /\ i + 1 \in Nat /\ i + 1 >= 1 /\ i = (i + 1) - 1
  BY <1>1
<1>6. i = Read(s, i)
  BY <1>2, <1>5 DEF Read
<1>7. /\ s.start \in Nat /\ s.seq \in Seq(Pieces) /\ s.start <= i
      /\ \A k \in 1 .. Len(f) : s.start < k /\ k <= i => f[k] # "%"
      /\ s.start = 0 \/ f[s.start] # "%"
  BY <1>5, <1>6, KeptOf
<1>8. PICK out \in Seq(Marks(event)) :
        /\ Renders(s.seq, event, out)
        /\ d[1] = (out \o SubSeq(f, s.start + 1, i)) \o d[i + 1]
  BY <1>6, Zenon DEF Kept
<1>9. i = (i + 1) - r.status
  BY <1>4, <1>5
<1>10. Kept(f, event, d, r, i + 1)
  BY <1>4, <1>5, <1>7, <1>8, <1>9, KeptIf
<1> QED
  BY <1>3, <1>10

(* The next character is text. *)
LEMMA StepText ==
  ASSUME NEW f \in Seq(Chars), NEW event,
         NEW d, Line(f, event, d), NEW s, NEW i \in 0 .. Len(f) - 1, Kept(f, event, d, s, i),
         f[i + 1] # "%", s.status = 0
  PROVE  Kept(f, event, d, InitStep(f, s, i), i + 1)
<1>1. PICK N \in Nat : N = Len(f)
  BY LenProperties
<1>2. InitStep(f, s, i) = s
  BY DEF InitStep
<1>11. i \in Nat /\ i + 1 \in 1 .. N /\ i = Read(s, i)
  BY <1>1 DEF Read
<1>12. /\ s \in States /\ s.start \in Nat /\ s.seq \in Seq(Pieces) /\ s.start <= i
       /\ \A k \in 1 .. Len(f) : s.start < k /\ k <= i => f[k] # "%"
       /\ s.start = 0 \/ f[s.start] # "%"
  BY <1>11, KeptOf
<1>3. PICK out \in Seq(Marks(event)) :
        /\ Renders(s.seq, event, out)
        /\ d[1] = (out \o SubSeq(f, s.start + 1, i)) \o d[i + 1]
  BY <1>11, Zenon DEF Kept
<1>4. PICK text : text = SubSeq(f, s.start + 1, i)
  OBVIOUS
<1>5. PICK c \in Chars : c = f[i + 1]
  <2>1. i + 1 \in 1 .. Len(f)
    BY <1>1, <1>11
  <2> QED
    BY <2>1, ElementOfSeq
<1>6. d[i + 1] = << c >> \o d[i + 2]
  <2>1. i + 1 \in 1 .. Len(f) + 2 /\ ~(i + 1 > Len(f)) /\ (i + 1) + 1 = i + 2
    BY <1>1
  <2> QED
    BY <2>1, <1>5 DEF Line, LineFrom
<1>7. SubSeq(f, s.start + 1, i + 1) = text \o << c >>
  <2>1. /\ s.start + 1 \in 1 .. Len(f) /\ i + 1 \in s.start + 1 .. Len(f)
        /\ (i + 1) - 1 = i
    BY <1>1, <1>11, <1>12
  <2> QED
    BY <2>1, <1>4, <1>5, SubSeqRecursiveSecond
<1>8. d[1] = (out \o SubSeq(f, s.start + 1, i + 1)) \o d[i + 2]
  <2>1. /\ text \in Seq(Marks(event)) /\ << c >> \in Seq(Marks(event))
        /\ d[i + 2] \in Seq(Marks(event))
    <3>1. /\ << c >> \in Seq(Chars) /\ i + 2 \in 1 .. Len(f) + 2
          /\ d[i + 2] \in Seq(Marks(event))
      BY <1>1, <1>11 DEF Line
    <3>2. i <= Len(f)
      BY <1>1, <1>11
    <3>3. text \in Seq(Marks(event))
      BY <1>4, <1>11, <1>12, <3>2, TextTyped
    <3> QED
      BY <3>1, <3>3, TextIs
  <2>2. PICK one, rest : one = << c >> /\ rest = d[i + 2]
    OBVIOUS
  <2>3. out \o text \in Seq(Marks(event))
    BY <2>1, ConcatProperties
  <2>4. (out \o text) \o (<< c >> \o d[i + 2])
            = ((out \o text) \o << c >>) \o d[i + 2]
    <3>1. (out \o text) \o (one \o rest) = ((out \o text) \o one) \o rest
      <4>1. PICK both : both = out \o text
        OBVIOUS
      <4>2. /\ one \in Seq(Marks(event)) /\ rest \in Seq(Marks(event))
            /\ both \in Seq(Marks(event))
        BY <2>1, <2>2, <2>3, <4>1
      <4>3. (both \o one) \o rest = both \o (one \o rest)
        BY <4>2, Associates
      <4> QED
        BY <4>1, <4>3
    <3> QED
      BY <3>1, <2>2
  <2>5. (out \o text) \o << c >> = out \o (text \o << c >>)
    <3>1. (out \o text) \o one = out \o (text \o one)
      <4>1. one \in Seq(Marks(event))
        BY <2>1, <2>2
      <4> QED
        <5>1. /\ out \in Seq(Marks(event)) /\ text \in Seq(Marks(event))
              /\ one \in Seq(Marks(event))
          BY <1>3, <2>1, <4>1
        <5> QED
          BY <5>1, Associates
    <3> QED
      BY <3>1, <2>2
  <2> QED
    BY <1>3, <1>4, <1>6, <1>7, <2>4, <2>5
<1>9. /\ s.start <= i + 1 /\ i + 1 = (i + 1) - s.status
      /\ (i + 1) + 1 = i + 2 /\ i + 1 \in Nat
      /\ s.status # 1
  BY <1>11, <1>12
<1>10. \A k \in 1 .. Len(f) : s.start < k /\ k <= i + 1 => f[k] # "%"
  <2> SUFFICES ASSUME NEW k \in 1 .. Len(f), s.start < k, k <= i + 1
               PROVE  f[k] # "%"
    OBVIOUS
  <2>1. k = i + 1 \/ k <= i
    BY <1>1
  <2> QED
    BY <2>1, <1>12
<1>13. d[1] = (out \o SubSeq(f, s.start + 1, i + 1)) \o d[(i + 1) + 1]
  BY <1>8, <1>9
<1>14. Kept(f, event, d, s, i + 1)
  BY <1>3, <1>9, <1>10, <1>12, <1>13, KeptIf
<1> QED
  BY <1>2, <1>14

(* The next character is the letter of a %. *)
LEMMA StepLetter ==
  ASSUME NEW f \in Seq(Chars), Plain(f), NEW event,
         NEW d, Line(f, event, d), NEW s, NEW i \in 0 .. Len(f) - 1, Kept(f, event, d, s, i),
         f[i + 1] # "%", s.status = 1
  PROVE  Kept(f, event, d, InitStep(f, s, i), i + 1)
<1>1. PICK N \in Nat : N = Len(f)
  BY LenProperties
<1>2. /\ i \in 1 .. N - 1 /\ f[i] = "%" /\ s.start \in Nat
      /\ s.start <= i - 1 /\ s.seq \in Seq(Pieces)
      /\ \A k \in 1 .. N : s.start < k /\ k <= i - 1 => f[k] # "%"
      /\ s.start = 0 \/ f[s.start] # "%"
  BY <1>1 DEF Kept, Read, States
<1>3. PICK c \in Letters \cup {"d"} : c = f[i + 1]
  BY <1>1, <1>2 DEF Plain
<1>4. PICK text : text = SubSeq(f, s.start + 1, i - 1)
  OBVIOUS
<1>5. PICK out \in Seq(Marks(event)) :
        Renders(s.seq, event, out) /\ d[1] = (out \o text) \o d[i]
  <2>1. Read(s, i) = i - 1 /\ (i - 1) + 1 = i
    BY <1>2 DEF Read
  <2> QED
    BY <2>1, <1>4 DEF Kept
<1>6. /\ text \in Seq(Marks(event))
      /\ Text(f, s.start, (i - 1) - s.start) \in Pieces
      /\ Rendered(Text(f, s.start, (i - 1) - s.start), event) = text
  <2>1. PICK p \in Nat : p = i - 1 /\ p <= Len(f) /\ s.start <= p
    BY <1>1, <1>2
  <2>2. /\ Text(f, s.start, p - s.start) \in Pieces
        /\ Rendered(Text(f, s.start, p - s.start), event)
            = SubSeq(f, s.start + 1, p)
        /\ SubSeq(f, s.start + 1, p) \in Seq(Marks(event))
    <3>1. PICK from \in Nat : from = s.start /\ from <= p
      BY <1>2, <2>1
    <3>2. /\ Text(f, from, p - from) \in Pieces
          /\ Rendered(Text(f, from, p - from), event)
              = SubSeq(f, from + 1, p)
      BY <2>1, <3>1, TextTaken
    <3>3. SubSeq(f, from + 1, p) \in Seq(Marks(event))
      BY <2>1, <3>1, TextTyped
    <3> QED
      BY <3>1, <3>2, <3>3
  <2> QED
    BY <1>4, <2>1, <2>2
<1>7. PICK mid : mid = s.seq \o TextBefore(f, s.start, i)
  OBVIOUS
<1>8. mid \in Seq(Pieces) /\ Renders(mid, event, out \o text)
  <2>1. CASE s.start > i - 2
    <3>1. TextBefore(f, s.start, i) = << >>
      BY <2>1 DEF TextBefore
    <3>2. text = << >>
      <4>1. s.start + 1 \in Int /\ i - 1 \in Int /\ i - 1 < s.start + 1
        BY <1>2, <2>1
      <4> QED
        BY <4>1, <1>4, SubSeqEmpty
    <3>3. s.seq \o << >> = s.seq /\ out \o << >> = out
      BY <1>2, ConcatEmptySeq
    <3> QED
      BY <1>2, <1>5, <1>7, <3>1, <3>2, <3>3
  <2>2. CASE ~(s.start > i - 2)
    <3>1. c # "d"
      <4> SUFFICES ASSUME c = "d" PROVE FALSE
        OBVIOUS
      <4>1. i > 1
        BY <1>2, <2>2
      <4>2. i > 2 /\ f[i - 2] = "%"
        BY <1>1, <1>2, <1>3, <4>1 DEF Plain
      <4>3. s.start = i - 2 \/ s.start < i - 2
        BY <1>2, <2>2
      <4>4. i - 2 \in 1 .. N /\ i - 2 <= i - 1 /\ i - 2 # 0
        BY <1>2, <4>2
      <4> QED
        BY <1>2, <4>2, <4>3, <4>4
    <3>2. TextBefore(f, s.start, i)
            = << Text(f, s.start, (i - 1) - s.start) >>
      <4>1. i - s.start - 1 = (i - 1) - s.start
        BY <1>2
      <4> QED
        BY <1>3, <2>2, <3>1, <4>1 DEF TextBefore
    <3> QED
      BY <1>2, <1>5, <1>6, <1>7, <3>2, RendersMore
  <2> QED
    BY <2>1, <2>2
<1>9. PICK all : all = (out \o text) \o << Shown(c, event) >>
  OBVIOUS
<1>10. /\ mid \o << Item(c) >> \in Seq(Pieces)
       /\ Renders(mid \o << Item(c) >>, event, all)
       /\ all \in Seq(Marks(event)) /\ out \o text \in Seq(Marks(event))
       /\ << Shown(c, event) >> \in Seq(Marks(event))
  <2>1. Item(c) \in Pieces
        /\ Rendered(Item(c), event) = << Shown(c, event) >> /\ c \in Chars
    BY LettersAre
  <2>2. /\ mid \o << Item(c) >> \in Seq(Pieces)
        /\ out \o text \in Seq(Marks(event))
        /\ Renders(mid \o << Item(c) >>, event,
                   (out \o text) \o Rendered(Item(c), event))
    BY <1>8, <2>1, RendersMore
  <2>3. << Shown(c, event) >> \in Seq(Marks(event))
    BY <2>1, ShownIs
  <2>4. (out \o text) \o << Shown(c, event) >> \in Seq(Marks(event))
    BY <2>2, <2>3, ConcatProperties
  <2> QED
    BY <1>9, <2>1, <2>2, <2>3, <2>4
<1>11. d[1] = all \o d[i + 2]
  <2>1. i \in 1 .. Len(f) + 2 /\ ~(i > Len(f)) /\ i + 2 \in 1 .. Len(f) + 2
    BY <1>1, <1>2
  <2>2. d[i] = << Shown(c, event) >> \o d[i + 2]
    BY <2>1, <1>2, <1>3 DEF Line, LineFrom
  <2>3. d[i + 2] \in Seq(Marks(event))
    BY <2>1 DEF Line
  <2>4. (out \o text) \o (<< Shown(c, event) >> \o d[i + 2])
            = ((out \o text) \o << Shown(c, event) >>) \o d[i + 2]
    <3>1. PICK one, rest : one = << Shown(c, event) >> /\ rest = d[i + 2]
      OBVIOUS
    <3>2. one \in Seq(Marks(event)) /\ rest \in Seq(Marks(event))
      BY <1>10, <2>3, <3>1
    <3>3. PICK both \in Seq(Marks(event)) : both = out \o text
      BY <1>10
    <3>4. (both \o one) \o rest = both \o (one \o rest)
      <4>1. /\ both \in Seq(Marks(event)) /\ one \in Seq(Marks(event))
            /\ rest \in Seq(Marks(event))
        BY <3>2, <3>3
      <4> QED
        BY <4>1, Associates
    <3> QED
      BY <3>1, <3>3, <3>4
  <2> QED
    BY <1>5, <1>9, <2>2, <2>4
<1>12. PICK r : r = InitStep(f, s, i)
  OBVIOUS
<1>13. r = [status |-> 0, start |-> i + 1, seq |-> mid \o << Item(c) >>]
  <2>1. c \notin Silent
    BY LettersAre
  <2> QED
    BY <1>3, <1>7, <1>12, <2>1 DEF InitStep
<1>14. /\ r.status = 0 /\ r.start = i + 1 /\ r.seq = mid \o << Item(c) >>
       /\ r \in States
  <2>1. i + 1 \in Nat
    BY <1>2
  <2> QED
    BY <1>10, <1>13, <2>1 DEF States
<1>15. all \o SubSeq(f, (i + 1) + 1, i + 1) = all
  <2>1. (i + 1) + 1 \in Int /\ i + 1 \in Int /\ i + 1 < (i + 1) + 1
    BY <1>2
  <2>2. SubSeq(f, (i + 1) + 1, i + 1) = << >>
    BY <2>1, SubSeqEmpty
  <2> QED
    BY <2>2, <1>10, ConcatEmptySeq
<1>16. d[1] = (all \o SubSeq(f, (i + 1) + 1, i + 1)) \o d[(i + 1) + 1]
  <2>1. (i + 1) + 1 = i + 2
    BY <1>2
  <2> QED
    BY <1>11, <1>15, <2>1
<1>17. \A k \in 1 .. Len(f) : ~(i + 1 < k /\ k <= i + 1)
  BY <1>1, <1>2
<1>18. i + 1 \in Nat /\ i + 1 <= i + 1 /\ i + 1 = (i + 1) - 0
  BY <1>2
<1>19. r.status # 1 /\ i + 1 = (i + 1) - r.status
  BY <1>14, <1>18
<1>20. PICK q \in Nat : q = i + 1
  BY <1>18
<1>21. Kept(f, event, d, r, q)
  <2>1. d[1] = (all \o SubSeq(f, q + 1, q)) \o d[q + 1]
    BY <1>16, <1>20
  <2>2. q <= q /\ q = q - r.status /\ r.start = q /\ f[q] # "%"
    BY <1>14, <1>18, <1>19, <1>20
  <2>3. \A k \in 1 .. Len(f) : q < k /\ k <= q => f[k] # "%"
    BY <1>17, <1>20
  <2> QED
    BY <1>10, <1>14, <1>19, <2>1, <2>2, <2>3, KeptIf
<1> QED
  BY <1>12, <1>20, <1>21

(* LoggerFormatter::init takes a plain format of any length apart so that
   format writes the line that the comment in init describes, whatever the
   event. *)
THEOREM PlainShown ==
  ASSUME NEW f \in Seq(Chars), Plain(f), NEW event
  PROVE  format(init(f), event) = Documented(f, event)
<1>1. PICK N \in Nat : N = Len(f)
  BY LenProperties
<1>2. PICK d : Line(f, event, d) /\ Documented(f, event) = d[1]
  BY <1>1, DocumentedIs
<1>3. PICK state :
        /\ state[0] = Base
        /\ \A i \in 0 .. N - 1 : state[i + 1] = InitStep(f, state[i], i)
        /\ init(f) = state[N].seq \o
                        IF state[N].start < N
                        THEN << Text(f, state[N].start, N - state[N].start) >>
                        ELSE << >>
  BY <1>1, InitIs
<1> DEFINE T == {i \in Nat : i <= N => Kept(f, event, d, state[i], i)}
<1>4. 0 \in T
  <2>1. Base.status = 0 /\ Base.start = 0 /\ Base.seq = << >>
    BY DEF Base
  <2>2. SubSeq(f, 1, 0) = << >>
    BY SubSeqEmpty
  <2>3. /\ Renders(<< >>, event, << >>) /\ << >> \in Seq(Pieces)
        /\ << >> \in Seq(Marks(event))
    BY RendersNone
  <2>4. d[1] = (<< >> \o << >>) \o d[1]
    <3>1. 1 \in 1 .. Len(f) + 2
      BY <1>1
    <3>2. d[1] \in Seq(Marks(event))
      BY <1>2, <3>1 DEF Line
    <3>3. << >> \o << >> = << >> /\ << >> \o d[1] = d[1]
      BY <2>3, <3>2, ConcatEmptySeq
    <3> QED
      BY <3>3
  <2>5. Kept(f, event, d, Base, 0)
    <3>1. PICK z \in Nat : z = 0
      OBVIOUS
    <3>2. d[1] = (<< >> \o SubSeq(f, z + 1, z)) \o d[z + 1]
      <4>1. z + 1 \in Int /\ z \in Int /\ z < z + 1 /\ z + 1 = 1
        BY <3>1
      <4>2. SubSeq(f, z + 1, z) = << >>
        BY <4>1, SubSeqEmpty
      <4> QED
        BY <2>4, <4>1, <4>2
    <3>3. \A k \in 1 .. Len(f) : ~(z < k /\ k <= z)
      BY <1>1, <3>1
    <3>4. /\ Base \in States /\ Base.status # 1 /\ Base.start = z
          /\ z = z - Base.status /\ z <= z
      BY <2>1, <2>3, <3>1 DEF Base, States
    <3>5. Kept(f, event, d, Base, z)
      BY <2>1, <2>3, <3>1, <3>2, <3>3, <3>4, KeptIf
    <3> QED
      BY <3>1, <3>5
  <2> QED
    BY <1>3, <2>5
<1>5. ASSUME NEW i \in Nat, i \in T PROVE i + 1 \in T
  <2> SUFFICES ASSUME i + 1 <= N PROVE Kept(f, event, d, state[i + 1], i + 1)
    OBVIOUS
  <2>1. i \in 0 .. N - 1 /\ Kept(f, event, d, state[i], i)
    BY <1>5
  <2>2. PICK s : s = state[i]
    OBVIOUS
  <2>3. s.status \in {0, 1}
    BY <2>1, <2>2 DEF Kept, States
  <2>4. Kept(f, event, d, InitStep(f, s, i), i + 1)
    BY <1>1, <1>2, <2>1, <2>2, <2>3, StepPercent, StepText, StepLetter
  <2> QED
    BY <1>3, <2>1, <2>2, <2>4
<1> HIDE DEF T
<1>6. N \in T
  BY <1>4, <1>5, NatSetInduction
<1>7. PICK s : s = state[N]
  OBVIOUS
<1>8. Kept(f, event, d, s, N)
  BY <1>6, <1>7 DEF T
<1>9. s.status = 0
  <2> SUFFICES ASSUME s.status = 1 PROVE FALSE
    BY <1>8 DEF Kept, States
  <2>1. N \in 1 .. Len(f) /\ f[N] = "%"
    BY <1>1, <1>8 DEF Kept
  <2> QED
    BY <1>1, <2>1 DEF Plain
<1>10. PICK out \in Seq(Marks(event)) :
        /\ Renders(s.seq, event, out)
        /\ d[1] = (out \o SubSeq(f, s.start + 1, N)) \o d[N + 1]
  <2>1. Read(s, N) = N
    BY <1>9 DEF Read
  <2> QED
    BY <1>8, <2>1 DEF Kept
<1>11. s.start \in Nat /\ s.start <= N /\ s.seq \in Seq(Pieces)
  BY <1>8, <1>9 DEF Kept, Read, States
<1>12. PICK text \in Seq(Marks(event)) : text = SubSeq(f, s.start + 1, N)
  <2>1. N <= Len(f)
    BY <1>1
  <2> QED
    BY <1>11, <2>1, TextTyped
<1>13. d[1] = out \o text
  <2>0. N + 1 \in 1 .. Len(f) + 2 /\ N + 1 > Len(f)
    BY <1>1
  <2>1. d[N + 1] = << >>
    BY <2>0, <1>2 DEF Line, LineFrom
  <2>2. out \o text \in Seq(Marks(event))
    BY ConcatProperties
  <2> QED
    BY <1>10, <1>12, <2>1, <2>2, ConcatEmptySeq
<1>14. init(f) \in Seq(Pieces) /\ Renders(init(f), event, out \o text)
  <2>1. CASE s.start < N
    <3>1. init(f) = s.seq \o << Text(f, s.start, N - s.start) >>
      BY <1>3, <1>7, <2>1
    <3>2. /\ Text(f, s.start, N - s.start) \in Pieces
          /\ Rendered(Text(f, s.start, N - s.start), event) = text
      <4>1. N <= Len(f)
        BY <1>1
      <4> QED
        BY <1>11, <1>12, <4>1, TextTaken
    <3> QED
      BY <1>10, <1>11, <3>1, <3>2, RendersMore
  <2>2. CASE ~(s.start < N)
    <3>1. init(f) = s.seq \o << >>
      BY <1>3, <1>7, <2>2
    <3>2. text = << >>
      <4>1. s.start + 1 \in Int /\ N \in Int /\ N < s.start + 1
        BY <1>11, <2>2
      <4> QED
        BY <4>1, <1>12, SubSeqEmpty
    <3> QED
      BY <1>10, <1>11, <3>1, <3>2, ConcatEmptySeq
  <2> QED
    BY <2>1, <2>2
<1> QED
  BY <1>2, <1>13, <1>14, FormatIs

-----------------------------------------------------------------------------
(* Every line is what format makes of an event with some format. *)
Events == [message : Threads, level : {0} \cup Levels, thread : Threads]
Rows == {[event |-> event, format_ |-> f, text |-> format(init(f), event)] :
            event \in Events, f \in Formats \cup {Default.format_}}
LinesInv == \A a \in Appenders : lines[a] \in Seq(Rows)

LEMMA FormatsTyped ==
  \A f \in Formats \cup {Default.format_} : f \in Seq(Chars)
<1>1. \A f \in Formats : f \in Seq(Chars)
  <2>1. STRING \subseteq Chars
    BY DEF Chars
  <2> QED
    BY <2>1, FormatsAssumption, SeqMonotonic
<1>2. Default.format_ \in Seq(Chars)
  <2>1. Default.format_ = <<"%", "d", "%", "T", "[", "%", "p", "]", "%", "T",
                            "[", "%", "t", "]", "%", "T", "%", "f", ":", "%",
                            "l", "%", "T", "%", "m", "%", "n">>
    BY DEF Default, Formatter
  <2>2. {"%", "d", "T", "[", "p", "]", "t", "f", ":", "l", "m", "n"}
            \subseteq Chars
    BY DEF Chars, Letters
  <2> QED
    BY <2>1, <2>2
<1> QED
  BY <1>1, <1>2

LEMMA WrittenRows ==
  ASSUME IInv, NEW a \in Appenders, HasFormatter(a), NEW event \in Events,
         NEW n \in Nat
  PROVE  Written(a, event, n) \in Seq(Rows)
<1>1. appender[a].formatter_ \in Formatters
  BY DEF IInv, TypeInv, HasFormatter
<1>2. PICK f \in Formats \cup {Default.format_} :
        appender[a].formatter_ = Formatter(f)
  <2>1. Default = Formatter(Default.format_)
    BY DEF Default, Formatter
  <2> QED
    BY <1>1, <2>1, Zenon DEF Formatters
<1>3. /\ appender[a].formatter_.format_ = f
      /\ appender[a].formatter_.formatSequence_ = init(f)
  BY <1>2 DEF Formatter
<1>4. PICK row : row = [event |-> event, format_ |-> f,
                        text |-> format(init(f), event)]
  OBVIOUS
<1>5. row \in Rows
  BY <1>4 DEF Rows
<1>6. Written(a, event, n) = [k \in 1 .. n |-> row]
  BY <1>3, <1>4 DEF Written
<1> QED
  BY <1>5, <1>6

LEMMA logLines ==
  ASSUME IInv, LinesInv, NEW t \in Threads, log(t)
  PROVE  LinesInv'
<1>1. thread[t].pc = "log" /\ thread[t] \in Locals
  BY DEF log, IInv, TypeInv
<1> DEFINE all == Mine(t).appenders_
           at(a) == {k \in DOMAIN all : all[k] = a}
           to(a) == IF /\ thread[t].level >= Mine(t).level_
                       /\ thread[t].level > appender[a].level_
                    THEN Cardinality(at(a)) ELSE 0
<1>2. lines' = [a \in Appenders |-> lines[a] \o Written(a, Event(t), to(a))]
  BY DEF log
<1>3. Event(t) \in Events
  BY <1>1 DEF Event, Events, Locals
<1>4. /\ all \in Seq(Appenders) /\ DOMAIN all = 1 .. Len(all)
      /\ \A k \in 1 .. Len(all) : HasFormatter(all[k])
  BY <1>1, LoggerOf DEF Loggers
<1>5. ASSUME NEW a \in Appenders
      PROVE  lines[a] \o Written(a, Event(t), to(a)) \in Seq(Rows)
  <2>1. IsFiniteSet(at(a)) /\ Cardinality(at(a)) \in Nat
    <3>1. PICK n \in Nat : n = Len(all)
      BY <1>4
    <3>2. IsFiniteSet(1 .. n)
      BY FS_Interval
    <3>3. at(a) \subseteq 1 .. n
      BY <1>4, <3>1
    <3> QED
      BY <3>2, <3>3, FS_Subset, FS_CardinalityType
  <2>2. PICK n \in Nat : n = to(a)
    BY <2>1
  <2>3. Written(a, Event(t), n) \in Seq(Rows)
    <3>1. CASE HasFormatter(a)
      BY <3>1, <1>3, WrittenRows
    <3>2. CASE ~HasFormatter(a)
      <4>1. at(a) = {}
        BY <1>4, <3>2
      <4>2. n = 0
        BY <2>2, <4>1, FS_EmptySet
      <4>3. Written(a, Event(t), n) = << >>
        BY <4>2 DEF Written
      <4>4. << >> \in Seq(Rows)
        OBVIOUS
      <4> QED
        BY <4>3, <4>4, Zenon
    <3> QED
      BY <3>1, <3>2
  <2> HIDE DEF to
  <2> QED
    BY <2>2, <2>3, ConcatProperties DEF LinesInv
<1> HIDE DEF to
<1> QED
  BY <1>2, <1>5 DEF LinesInv

LEMMA NextLines == IInv /\ LinesInv /\ [Next]_vars => LinesInv'
<1> SUFFICES ASSUME IInv, LinesInv, [Next]_vars PROVE LinesInv'
  OBVIOUS
<1>1. CASE UNCHANGED lines
  BY <1>1 DEF LinesInv
<1>2. CASE UNCHANGED vars
  BY <1>1, <1>2 DEF vars
<1>3. ASSUME NEW t \in Threads,
             \/ FindLogger(t) \/ MakeLogger(t)
             \/ setLevel(t) \/ setFormatter(t)
             \/ GiveFormatter(t) \/ addAppender(t) \/ delAppender(t)
             \/ NETCO_LOG(t)
      PROVE  LinesInv'
  BY <1>1, <1>3 DEF FindLogger, MakeLogger, setLevel, setFormatter,
     GiveFormatter, addAppender, delAppender, NETCO_LOG
<1> QED
  BY <1>2, <1>3, logLines DEF Next

(* Whatever formats and appenders the threads set while others log: a line
   shows of its event what the comment in LoggerFormatter::init says of the
   format that its appender has, for every plain format of any length. *)
THEOREM LinesShown == Spec => []LinesAsDocumented
<1>1. Init => LinesInv
  BY DEF Init, LinesInv
<1>2. LinesInv => LinesAsDocumented
  <2> SUFFICES ASSUME LinesInv, NEW a \in Appenders, NEW k \in DOMAIN lines[a],
                      Plain(lines[a][k].format_)
               PROVE  lines[a][k].text = Documented(lines[a][k].format_,
                                                    lines[a][k].event)
    BY DEF LinesAsDocumented
  <2>1. lines[a][k] \in Rows
    <3>1. lines[a] \in Seq(Rows) /\ k \in 1 .. Len(lines[a])
      BY DEF LinesInv
    <3> QED
      BY <3>1, ElementOfSeq
  <2>2. PICK event \in Events, f \in Formats \cup {Default.format_} :
          lines[a][k] = [event |-> event, format_ |-> f,
                         text |-> format(init(f), event)]
    BY <2>1 DEF Rows
  <2>3. /\ lines[a][k].event = event /\ lines[a][k].format_ = f
        /\ lines[a][k].text = format(init(f), event)
    BY <2>2
  <2> QED
    BY <2>3, FormatsTyped, PlainShown
<1> QED
  BY <1>1, <1>2, NextLines, Inductive, PTL DEF Spec

=============================================================================
