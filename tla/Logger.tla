------------------------------- MODULE Logger -------------------------------
(***************************************************************************)
(* The loggers of a process (src/log.cc, include/log.h): LoggerManager's   *)
(* map of them, and a Logger, which writes the events of a level or more   *)
(* to its appenders.  Every Logger and the map have a spinlock, under      *)
(* which one step is atomic; getLogger takes the map's twice, NETCO_LOG    *)
(* tests the level before it makes the event, and addAppender gives the    *)
(* appender a formatter before it takes the lock.                          *)
(***************************************************************************)
EXTENDS LogFormat

CONSTANTS
    Threads,     \* threads that use loggers
    Appenders,
    None,
    Formats,     \* bound: what setFormatter is called with
    Levels,      \* bound: the levels of events, loggers and appenders
    MaxLoggers,  \* bound: the loggers that are made
    MaxOps       \* bound: calls of a thread to the logger it has

ASSUME LoggerAssumption ==
    /\ Levels \subseteq 1 .. 5 /\ MaxLoggers \in Nat /\ MaxOps \in Nat
    /\ Cardinality(Threads) <= MaxLoggers

VARIABLES
    loggerMap_,  \* the number of the logger of a name; 0 if there is none
    logger,      \* the loggers, in the order in which they are made
    appender,    \* the formatter and the level of each appender
    thread,      \* the locals of each thread
    lines,       \* what each appender has written
    raced        \* two calls of getLogger made a logger at one time

vars == <<loggerMap_, logger, appender, thread, lines, raced>>

DEBUG == 1
Formatter(f) == [format_ |-> f, formatSequence_ |-> init(f)]
(* "%d%T[%p]%T[%t]%T%f:%l%T%m%n" *)
Default == Formatter(<<"%", "d", "%", "T", "[", "%", "p", "]", "%", "T",
                       "[", "%", "t", "]", "%", "T", "%", "f", ":", "%", "l",
                       "%", "T", "%", "m", "%", "n">>)
NewLogger == [level_ |-> DEBUG, formatter_ |-> Default, appenders_ |-> << >>]
(* A format is a string, a formatter an object, and None a null pointer. *)
ASSUME FormatsAssumption == Formats \subseteq Seq(STRING)
ASSUME FormatterAssumption ==
    None \notin {Formatter(f) : f \in Formats} \cup {Default}

Idle == [pc |-> "start", has |-> 0, level |-> 0, with |-> None, ops |-> 0]

(* Of an appender to a file, level_ is not initialised. *)
Init ==
    /\ loggerMap_ = 0 /\ logger = << >>
    /\ appender \in [Appenders ->
                        [level_ : {0} \cup Levels, formatter_ : {None}]]
    /\ thread = [t \in Threads |-> Idle]
    /\ lines = [a \in Appenders |-> << >>]
    /\ raced = FALSE

-----------------------------------------------------------------------------
(* LoggerManager::getLogger *)

FindLogger(t) ==
    /\ thread[t].pc = "start"
    /\ thread' = [thread EXCEPT ![t] = [@ EXCEPT
                    !.pc = IF loggerMap_ = 0 THEN "make" ELSE "use",
                    !.has = loggerMap_]]
    /\ raced' = (raced \/ \E u \in Threads : thread[u].pc = "make")
    /\ UNCHANGED <<loggerMap_, logger, appender, lines>>

(* Mutant: the new logger is not put into the map. *)
MakeLogger_unmapped(t) ==
    /\ thread[t].pc = "make" /\ Len(logger) < MaxLoggers
    /\ logger' = Append(logger, NewLogger)
    /\ thread' = [thread EXCEPT ![t] = [@ EXCEPT !.pc = "use",
                                                 !.has = Len(logger) + 1]]
    /\ UNCHANGED <<loggerMap_, appender, lines, raced>>

(* insert leaves a logger that another thread has put there, but the new one
   is returned. *)
MakeLogger(t) ==
    /\ thread[t].pc = "make" /\ Len(logger) < MaxLoggers
    /\ logger' = Append(logger, NewLogger)
    /\ loggerMap_' = IF loggerMap_ = 0 THEN Len(logger) + 1 ELSE loggerMap_
    /\ thread' = [thread EXCEPT ![t] = [@ EXCEPT !.pc = "use",
                                                 !.has = Len(logger) + 1]]
    /\ UNCHANGED <<appender, lines, raced>>

-----------------------------------------------------------------------------
(* Logger.  A thread has got its logger once, and keeps the pointer. *)

Mine(t) == logger[thread[t].has]
Uses(t) == thread[t].pc = "use" /\ thread[t].ops < MaxOps
Done(t) ==
    thread' = [thread EXCEPT ![t] = [Idle EXCEPT
                                        !.pc = "use", !.has = thread[t].has,
                                        !.ops = thread[t].ops + 1]]

setLevel(t) ==
    /\ Uses(t)
    /\ \E v \in Levels : logger' = [logger EXCEPT ![thread[t].has].level_ = v]
    /\ Done(t)
    /\ UNCHANGED <<loggerMap_, appender, lines, raced>>

(* Bound: one call in all. *)
setFormatter(t) ==
    /\ Uses(t)
    /\ \A l \in DOMAIN logger : logger[l].formatter_ = Default
    /\ \E f \in Formats :
        logger' = [logger EXCEPT ![thread[t].has].formatter_ = Formatter(f)]
    /\ Done(t)
    /\ UNCHANGED <<loggerMap_, appender, lines, raced>>

(* Mutant: the appender is given its formatter after the lock. *)
GiveFormatter_later(t) ==
    /\ Uses(t)
    /\ \E a \in Appenders :
        thread' = [thread EXCEPT ![t] = [@ EXCEPT !.pc = "add", !.with = a]]
    /\ UNCHANGED <<loggerMap_, logger, appender, lines, raced>>

(* addAppender, before it takes the lock: hasFormatter, the read of formatter_
   and the appender's setFormatter, none of them under a lock.  They are one
   step here.  In the code two threads may both find no formatter,
   and the later one's stays; and formatter_ may be read while setFormatter
   writes it under the lock, which is a data race on a shared_ptr (line 35) and
   is not represented. *)
GiveFormatter(t) ==
    /\ Uses(t)
    /\ \E a \in Appenders :
        /\ appender' = IF appender[a].formatter_ # None THEN appender
                       ELSE [appender EXCEPT ![a].formatter_ =
                                                Mine(t).formatter_]
        /\ thread' = [thread EXCEPT ![t] = [@ EXCEPT !.pc = "add", !.with = a]]
    /\ UNCHANGED <<loggerMap_, logger, lines, raced>>

addAppender(t) ==
    /\ thread[t].pc = "add"
    /\ logger' = [logger EXCEPT ![thread[t].has].appenders_ =
                                    Append(@, thread[t].with)]
    /\ Done(t)
    /\ UNCHANGED <<loggerMap_, appender, lines, raced>>

delAppender(t) ==
    /\ Uses(t)
    /\ \E a \in Appenders :
        logger' = [logger EXCEPT ![thread[t].has].appenders_ =
                                    RemoveFirst(@, a)]
    /\ Done(t)
    /\ UNCHANGED <<loggerMap_, appender, lines, raced>>

(* NETCO_LOG_LEVEL: the level is read without the lock, *)
NETCO_LOG(t) ==
    /\ Uses(t)
    /\ \E v \in Levels :
        IF Mine(t).level_ <= v
        THEN thread' = [thread EXCEPT ![t] = [@ EXCEPT !.pc = "log",
                                                       !.level = v]]
        ELSE Done(t)
    /\ UNCHANGED <<loggerMap_, logger, appender, lines, raced>>

Event(t) == [message |-> t, level |-> thread[t].level, thread |-> t]

(* What appender a writes for n times that it is attached. *)
Written(a, event, n) ==
    LET by == appender[a].formatter_ IN
    [k \in 1 .. n |->
        [event |-> event, format_ |-> by.format_,
         text |-> format(by.formatSequence_, event)]]

(* and ~EventWraper: Logger::log, and the log of each appender. *)
log(t) ==
    /\ thread[t].pc = "log"
    /\ LET all == Mine(t).appenders_
           to(a) == IF /\ thread[t].level >= Mine(t).level_
                       /\ thread[t].level > appender[a].level_
                    THEN Cardinality({k \in DOMAIN all : all[k] = a})
                    ELSE 0 IN
        lines' = [a \in Appenders |-> lines[a] \o Written(a, Event(t), to(a))]
    /\ Done(t)
    /\ UNCHANGED <<loggerMap_, logger, appender, raced>>

-----------------------------------------------------------------------------
Next ==
    \E t \in Threads :
        \/ FindLogger(t) \/ MakeLogger(t)
        \/ setLevel(t) \/ setFormatter(t)
        \/ GiveFormatter(t) \/ addAppender(t) \/ delAppender(t)
        \/ NETCO_LOG(t) \/ log(t)

Spec == Init /\ [][Next]_vars

-----------------------------------------------------------------------------
(* Every variable keeps its type: a thread that uses a logger has one, and a
   logger never writes to an appender without a formatter. *)
TypeOK ==
    /\ loggerMap_ \in 0 .. Len(logger) /\ Len(logger) <= MaxLoggers
    /\ \A l \in DOMAIN logger :
        /\ logger[l].level_ \in {DEBUG} \cup Levels
        /\ \A a \in Range(logger[l].appenders_) :
            /\ a \in Appenders
            /\ appender[a].formatter_ # None
    /\ \A t \in Threads :
        /\ thread[t].pc \in {"start", "make", "use", "add", "log"}
        /\ thread[t].pc \in {"use", "add", "log"}
            => thread[t].has \in DOMAIN logger
        /\ thread[t].ops \in 0 .. MaxOps

(* All threads share the one logger of a name, with its level and appenders,
   unless the first calls of getLogger for that name raced. *)
SharedUnlessRaced ==
    raced \/ \A t \in Threads : thread[t].has # 0 => thread[t].has = loggerMap_

(* A line shows of its event what the comment in LoggerFormatter::init says of
   the format that its appender has, for every format that is not one of those
   for which init does something else. *)
LinesAsDocumented ==
    \A a \in Appenders : \A k \in DOMAIN lines[a] :
        Plain(lines[a][k].format_)
        => lines[a][k].text = Documented(lines[a][k].format_,
                                         lines[a][k].event)
=============================================================================
