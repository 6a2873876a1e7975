-------------------------- MODULE SlackReportingProofs --------------------------
(***************************************************************************)
(* Theorems about SlackReporting for any channels, lists of them and        *)
(* severities.  Types hold for any number of requests; how often a channel  *)
(* is told of a new outage, that threads tell what the row holds and that   *)
(* somebody knows of the outage hold for requests that follow each other,   *)
(* here a single one that is used again and again.                          *)
(***************************************************************************)
EXTENDS SlackReporting, FiniteSetTheorems, TLAPS

ChannelsOf(rounds) == {e.channel : e \in rounds}

\* What a request in progress knows, if the channels in T have threads: the round
\* it is at is one that is left to do, replies and emoji go to stored threads.
Consistent(w, T) ==
    /\ w.pc \in {"store", "mark"} => w.round \in w.todo
    /\ w.pc \notin {"reply", "mark"} => w.mode = "post"
    /\ w.pc = "reply" => w.mode = "reply"
    /\ w.mode = "reply" => ChannelsOf(w.todo) \subseteq T
    /\ w.pc = "mark" => w.round.channel \in T

Sound == \A r \in Requests : req[r] # Idle => Consistent(req[r], Threaded)

TypeInv == TypeOK /\ Sound

LEMMA ActiveIsWorking ==
    ASSUME TypeInv, NEW r \in Requests, req[r].pc # "idle" \/ req[r] # Idle
    PROVE  req[r] \in Working /\ req[r] # Idle /\ Consistent(req[r], Threaded)
<1>1. req[r] \in Working \cup {Idle}
  BY DEF TypeInv, TypeOK
<1>2. Idle.pc = "idle"
  BY DEF Idle
<1>3. Idle \notin Working
  BY <1>2 DEF Working
<1>4. QED BY <1>1, <1>2, <1>3 DEF TypeInv, Sound

\* A step that gives request r a well-formed state and keeps threads leaves all
\* requests well-formed.
LEMMA OneMoves ==
    ASSUME TypeInv, NEW r \in Requests, NEW w \in Working \cup {Idle},
           req' = [req EXCEPT ![r] = w], w # Idle => Consistent(w, Threaded'),
           Threaded \subseteq Threaded'
    PROVE  req' \in [Requests -> Working \cup {Idle}] /\ Sound'
<1>1. req' \in [Requests -> Working \cup {Idle}]
  BY DEF TypeInv, TypeOK
<1>2. ASSUME NEW q \in Requests, req'[q] # Idle PROVE Consistent(req'[q], Threaded')
  <2>1. CASE q = r
    <3>1. req'[q] = w
      BY <2>1 DEF TypeInv, TypeOK
    <3>2. QED BY <1>2, <3>1
  <2>2. CASE q # r
    <3>1. req'[q] = req[q]
      BY <2>2 DEF TypeInv, TypeOK
    <3>2. Consistent(req[q], Threaded)
      BY <1>2, <3>1 DEF TypeInv, Sound
    <3>3. QED BY <3>1, <3>2 DEF Consistent
  <2>3. QED BY <2>1, <2>2
<1>3. QED BY <1>1, <1>2 DEF Sound

\* The same without a change of threads.
LEMMA OneMovesOn ==
    ASSUME TypeInv, NEW r \in Requests, NEW w \in Working \cup {Idle},
           req' = [req EXCEPT ![r] = w], w # Idle => Consistent(w, Threaded),
           UNCHANGED threads
    PROVE  req' \in [Requests -> Working \cup {Idle}] /\ Sound'
<1>1. Threaded' = Threaded
  BY DEF Threaded
<1>2. QED BY <1>1, OneMoves

\* What a loop does after a channel: the next one, if any is left.
LEMMA LoopGoesOn ==
    ASSUME NEW w \in Working, NEW todo \in SUBSET Round, NEW T,
           w.mode = "reply" => ChannelsOf(todo) \subseteq T
    PROVE  LET on == [w EXCEPT !.pc = w.mode, !.todo = todo]
           IN  on \in Working /\ Consistent(on, T)
<1> DEFINE on == [w EXCEPT !.pc = w.mode, !.todo = todo]
<1>1. w.mode \in {"post", "reply"}
  BY DEF Working
<1>2. on \in Working /\ on.pc = w.mode /\ on.mode = w.mode /\ on.todo = todo
  BY <1>1 DEF Working
<1> HIDE DEF on
<1>3. Consistent(on, T)
  BY <1>1, <1>2 DEF Consistent
<1>4. QED BY <1>2, <1>3 DEF on

LEMMA NextMoves ==
    ASSUME TypeInv, NEW r \in Requests, req[r] \in Working, NEW todo \in SUBSET Round,
           req[r].mode = "reply" => ChannelsOf(todo) \subseteq Threaded', NextOf(r, todo),
           Threaded \subseteq Threaded'
    PROVE  req' \in [Requests -> Working \cup {Idle}] /\ Sound'
<1> DEFINE on == [req[r] EXCEPT !.pc = req[r].mode, !.todo = todo]
<1>1. on \in Working /\ Consistent(on, Threaded')
  BY LoopGoesOn
<1>2. req' = [req EXCEPT ![r] = IF todo = {} THEN Idle ELSE on]
  BY DEF NextOf
<1> HIDE DEF on
<1>3. QED BY <1>1, <1>2, OneMoves

\* The other moves, and what they keep.
LEMMA Fresh ==
    ASSUME NEW outage \in Outage, NEW pc \in {"old", "report"}, NEW T
    PROVE  LET w == [pc |-> pc, mode |-> "post", outage |-> outage, old |-> NoOutage,
                     channels |-> {}, todo |-> {}, round |-> NoThread]
           IN  w \in Working /\ Consistent(w, T)
  BY DEF Working, Consistent

\* The lists a loop starts with.
LEMMA ListTypes ==
    ASSUME TypeOK, NEW severity
    PROVE  /\ FilterChannelsBySeverity(reporting, severity) \in SUBSET Round
           /\ ThreadRounds \in SUBSET Round
           /\ ChannelsOf(ThreadRounds) = Threaded
<1>1. ThreadRounds \in SUBSET Round /\ ChannelsOf(ThreadRounds) = Threaded
  <2>1. \A c \in Threaded : [at |-> 0, channel |-> c] \in Round
    BY DEF Threaded, Round
  <2>2. ThreadRounds \in SUBSET Round
    BY <2>1 DEF ThreadRounds
  <2>3. ASSUME NEW c \in ChannelsOf(ThreadRounds) PROVE c \in Threaded
    BY DEF ChannelsOf, ThreadRounds
  <2>4. ASSUME NEW c \in Threaded PROVE c \in ChannelsOf(ThreadRounds)
    <3>1. [at |-> 0, channel |-> c] \in ThreadRounds
      BY DEF ThreadRounds
    <3>2. QED BY <3>1 DEF ChannelsOf
  <2>5. QED BY <2>2, <2>3, <2>4
<1>2. CASE reporting = NoComponent
  BY <1>1, <1>2 DEF FilterChannelsBySeverity
<1>3. CASE reporting # NoComponent
  <2>1. reporting \in Seq(SlackReportingConfig)
    BY <1>3, SlackAssumption DEF TypeOK
  <2>2. DOMAIN reporting \subseteq Nat /\ \A i \in DOMAIN reporting : reporting[i] \in SlackReportingConfig
    BY <2>1
  <2>3. \A entry \in SlackReportingConfig : entry.channel \in Channels
    BY DEF SlackReportingConfig
  <2>4. \A i \in DOMAIN reporting : [at |-> i, channel |-> reporting[i].channel] \in Round
    BY <2>2, <2>3 DEF Round
  <2>5. QED BY <1>1, <1>3, <2>4 DEF FilterChannelsBySeverity
<1>4. QED BY <1>2, <1>3

LEMMA MessageType ==
    ASSUME NEW told \in Outage, NEW new \in Outage, NEW old
    PROVE  UpdateMessage(told, old, new) \in Outage
  BY DEF UpdateMessage, Outage

\* Replies and emoji change what a thread says, never which channels have one.
LEMMA ThreadsStay ==
    ASSUME TypeInv, NEW r \in Requests, ReplyMessage(r) \/ AddResolvedEmoji(r)
    PROVE  threads' \in [Channels -> Thread \cup {NoThread}] /\ Threaded' = Threaded
<1>t. TypeOK
  BY DEF TypeInv
<1>1. ASSUME ReplyMessage(r)
     PROVE  threads' \in [Channels -> Thread \cup {NoThread}] /\ Threaded' = Threaded
  <2>1. req[r] \in Working /\ Consistent(req[r], Threaded) /\ req[r].pc = "reply"
    BY <1>1, ActiveIsWorking DEF ReplyMessage
  <2>2. ChannelsOf(req[r].todo) \subseteq Threaded /\ req[r].outage \in Outage
    BY <2>1 DEF Working, Consistent
  <2>3. \E c \in ChannelsOf(req[r].todo) :
          \/ threads' = [threads EXCEPT ![c].told = UpdateMessage(@, req[r].old, req[r].outage)]
          \/ UNCHANGED threads
    BY <1>1 DEF ReplyMessage, First, ChannelsOf
  <2>h. PICK c \in ChannelsOf(req[r].todo) :
          \/ threads' = [threads EXCEPT ![c].told = UpdateMessage(@, req[r].old, req[r].outage)]
          \/ UNCHANGED threads
    BY <2>3
  <2>4. threads[c] \in Thread /\ c \in Channels
    BY <1>t, <2>2, <2>h DEF TypeOK, Threaded
  <2> DEFINE told == UpdateMessage(threads[c].told, req[r].old, req[r].outage)
  <2>5. [threads[c] EXCEPT !.told = told] \in Thread
    <3>1. threads[c].told \in Outage
      BY <2>4 DEF Thread
    <3>2. told \in Outage
      BY <2>2, <3>1, MessageType
    <3> HIDE DEF told
    <3>3. QED BY <2>4, <3>2 DEF Thread
  <2>6. threads' \in {threads, [threads EXCEPT ![c] = [threads[c] EXCEPT !.told = told]]}
    BY <1>t, <2>h, <2>4 DEF TypeOK
  <2> HIDE DEF told
  <2>7. QED BY <1>t, <2>4, <2>5, <2>6, SlackValuesAssumption DEF TypeOK, Threaded
<1>2. ASSUME AddResolvedEmoji(r)
     PROVE  threads' \in [Channels -> Thread \cup {NoThread}] /\ Threaded' = Threaded
  <2> DEFINE c == req[r].round.channel
  <2>1. c \in Threaded
    BY <1>2, ActiveIsWorking DEF AddResolvedEmoji, Consistent
  <2>2. threads[c] \in Thread /\ c \in Channels
    BY <1>t, <2>1 DEF TypeOK, Threaded
  <2>3. [threads[c] EXCEPT !.marked = TRUE] \in Thread
    BY <2>2 DEF Thread
  <2>4. threads' \in {threads, [threads EXCEPT ![c] = [threads[c] EXCEPT !.marked = TRUE]]}
    BY <1>2, <1>t, <2>2 DEF TypeOK, AddResolvedEmoji
  <2>5. QED BY <1>t, <2>2, <2>3, <2>4, SlackValuesAssumption DEF TypeOK, Threaded
<1>3. QED BY <1>1, <1>2

LEMMA TypeInit == Init => TypeInv
<1>1. 0 \in 0..MaxRoots
  BY SlackAssumption
<1>2. QED BY <1>1 DEF Init, TypeInv, TypeOK, Sound

LEMMA TypeStep == TypeInv /\ [Next]_vars => TypeInv'
<1> SUFFICES ASSUME TypeInv, [Next]_vars PROVE TypeInv'
  OBVIOUS
<1>t. TypeOK
  BY DEF TypeInv
<1>1. ASSUME NEW r \in Requests, CreateOutage(r) PROVE TypeInv'
  <2>1. PICK severity \in Levels :
          /\ row' = [severity |-> severity, ended |-> FALSE]
          /\ Start(r, "report", [severity |-> severity, ended |-> FALSE])
    BY <1>1 DEF CreateOutage
  <2> DEFINE outage == [severity |-> severity, ended |-> FALSE]
             w == [pc |-> "report", mode |-> "post", outage |-> outage, old |-> NoOutage,
                   channels |-> {}, todo |-> {}, round |-> NoThread]
  <2>2. outage \in Outage
    BY DEF Outage
  <2>3. w \in Working /\ Consistent(w, Threaded)
    BY <2>2, Fresh
  <2>4. req' = [req EXCEPT ![r] = w] /\ UNCHANGED threads
    BY <1>1, <2>1 DEF Start, CreateOutage
  <2> HIDE DEF w
  <2>5. req' \in [Requests -> Working \cup {Idle}] /\ Sound'
    BY <2>3, <2>4, OneMovesOn
  <2>6. QED BY <1>t, <1>1, <2>1, <2>2, <2>5 DEF CreateOutage, TypeInv, TypeOK
<1>2. ASSUME NEW r \in Requests, UpdateOutage(r) PROVE TypeInv'
  <2>1. PICK outage \in Outage : Start(r, "old", outage)
    BY <1>2 DEF UpdateOutage
  <2> DEFINE w == [pc |-> "old", mode |-> "post", outage |-> outage, old |-> NoOutage,
                   channels |-> {}, todo |-> {}, round |-> NoThread]
  <2>2. w \in Working /\ Consistent(w, Threaded)
    BY Fresh
  <2>3. req' = [req EXCEPT ![r] = w] /\ UNCHANGED threads
    BY <1>2, <2>1 DEF Start, UpdateOutage
  <2> HIDE DEF w
  <2>4. req' \in [Requests -> Working \cup {Idle}] /\ Sound'
    BY <2>2, <2>3, OneMovesOn
  <2>5. QED BY <1>t, <1>2, <2>4 DEF UpdateOutage, TypeInv, TypeOK
<1>3. ASSUME NEW r \in Requests, ReadOld(r) PROVE TypeInv'
  <2> DEFINE w == [req[r] EXCEPT !.old = row, !.pc = "save"]
  <2>1. req[r] \in Working /\ Consistent(req[r], Threaded) /\ req[r].pc = "old"
    BY <1>3, ActiveIsWorking DEF ReadOld
  <2>2. w \in Working /\ Consistent(w, Threaded)
    BY <1>t, <2>1 DEF Working, Consistent, TypeOK
  <2>3. req' = [req EXCEPT ![r] = w] /\ UNCHANGED threads
    BY <1>3, <1>t DEF ReadOld, TypeOK
  <2> HIDE DEF w
  <2>4. req' \in [Requests -> Working \cup {Idle}] /\ Sound'
    BY <2>2, <2>3, OneMovesOn
  <2>5. QED BY <1>t, <1>3, <2>4 DEF ReadOld, TypeInv, TypeOK
<1>4. ASSUME NEW r \in Requests, SaveOutage(r) PROVE TypeInv'
  <2> DEFINE w == [req[r] EXCEPT !.pc = "threads"]
  <2>1. req[r] \in Working /\ Consistent(req[r], Threaded) /\ req[r].pc = "save"
    BY <1>4, ActiveIsWorking DEF SaveOutage
  <2>2. w \in Working /\ Consistent(w, Threaded)
    BY <2>1 DEF Working, Consistent
  <2>3. req' = [req EXCEPT ![r] = w] /\ UNCHANGED threads
    BY <1>4, <1>t DEF SaveOutage, Goto, TypeOK
  <2> HIDE DEF w
  <2>4. req' \in [Requests -> Working \cup {Idle}] /\ Sound'
    BY <2>2, <2>3, OneMovesOn
  <2>5. row' \in Outage
    BY <1>4, <2>1 DEF SaveOutage, Working
  <2>6. QED BY <1>t, <1>4, <2>4, <2>5 DEF SaveOutage, TypeInv, TypeOK
<1>5. ASSUME NEW r \in Requests, ReportOutageUpdate(r) PROVE TypeInv'
  <2> DEFINE w == IF Threaded = {} THEN [req[r] EXCEPT !.pc = "report"]
                  ELSE [req[r] EXCEPT !.pc = "reply", !.mode = "reply", !.channels = ThreadRounds,
                                      !.todo = ThreadRounds]
  <2>1. req[r] \in Working /\ Consistent(req[r], Threaded) /\ req[r].pc = "threads"
    BY <1>5, ActiveIsWorking DEF ReportOutageUpdate
  <2>2. ThreadRounds \in SUBSET Round /\ ChannelsOf(ThreadRounds) = Threaded
    BY <1>t, ListTypes
  <2>3. w \in Working /\ Consistent(w, Threaded)
    BY <2>1, <2>2 DEF Working, Consistent
  <2>4. req' = [req EXCEPT ![r] = w] /\ UNCHANGED threads
    BY <1>5, <1>t DEF ReportOutageUpdate, TypeOK
  <2> HIDE DEF w
  <2>5. req' \in [Requests -> Working \cup {Idle}] /\ Sound'
    BY <2>3, <2>4, OneMovesOn
  <2>6. QED BY <1>t, <1>5, <2>5 DEF ReportOutageUpdate, TypeInv, TypeOK
<1>6. ASSUME NEW r \in Requests, ReportOutage(r) PROVE TypeInv'
  <2> DEFINE channels == FilterChannelsBySeverity(reporting, req[r].outage.severity)
             w == [req[r] EXCEPT !.pc = "check", !.channels = channels, !.todo = channels]
  <2>1. req[r] \in Working /\ Consistent(req[r], Threaded) /\ req[r].pc = "report"
    BY <1>6, ActiveIsWorking DEF ReportOutage
  <2>2. channels \in SUBSET Round
    BY <1>t, ListTypes
  <2>3. req' = [req EXCEPT ![r] = IF channels = {} THEN Idle ELSE w] /\ UNCHANGED threads
    BY <1>6, <1>t DEF ReportOutage, TypeOK
  <2> HIDE DEF channels
  <2>4. w \in Working /\ Consistent(w, Threaded)
    BY <2>1, <2>2 DEF Working, Consistent
  <2> HIDE DEF w
  <2>5. req' \in [Requests -> Working \cup {Idle}] /\ Sound'
    BY <2>3, <2>4, OneMovesOn
  <2>6. QED BY <1>t, <1>6, <2>5 DEF ReportOutage, TypeInv, TypeOK
<1>7. ASSUME NEW r \in Requests, LookUpComponent(r) PROVE TypeInv'
  <2> DEFINE w == [req[r] EXCEPT !.pc = "post"]
  <2>1. req[r] \in Working /\ Consistent(req[r], Threaded) /\ req[r].pc = "check"
    BY <1>7, ActiveIsWorking DEF LookUpComponent
  <2>2. w \in Working /\ Consistent(w, Threaded)
    BY <2>1 DEF Working, Consistent
  <2>3. req' = [req EXCEPT ![r] = IF reporting = NoComponent THEN Idle ELSE w] /\ UNCHANGED threads
    BY <1>7, <1>t DEF LookUpComponent, Goto, TypeOK
  <2> HIDE DEF w
  <2>4. req' \in [Requests -> Working \cup {Idle}] /\ Sound'
    BY <2>2, <2>3, OneMovesOn
  <2>5. QED BY <1>t, <1>7, <2>4 DEF LookUpComponent, TypeInv, TypeOK
<1>8. ASSUME NEW r \in Requests, PostMessage(r) PROVE TypeInv'
  <2>1. req[r] \in Working /\ Consistent(req[r], Threaded) /\ req[r].pc = "post"
    BY <1>8, ActiveIsWorking DEF PostMessage
  <2>2. Threaded' = Threaded /\ UNCHANGED threads
    BY <1>8 DEF PostMessage, Threaded
  <2>3. PICK e \in req[r].todo :
          \/ /\ roots' = [roots EXCEPT ![e.channel] = IF @ < MaxRoots THEN @ + 1 ELSE @]
             /\ req' = [req EXCEPT ![r].round = e, ![r].pc = "store"]
             /\ UNCHANGED trouble
          \/ /\ Trouble("slack")
             /\ NextOf(r, req[r].todo \ {e})
             /\ UNCHANGED roots
    BY <1>8 DEF PostMessage, First
  <2>4. e \in Round /\ req[r].todo \subseteq Round
    BY <2>1, <2>3 DEF Working
  <2>5. ASSUME req' = [req EXCEPT ![r].round = e, ![r].pc = "store"]
       PROVE  req' \in [Requests -> Working \cup {Idle}] /\ Sound'
    <3> DEFINE w == [req[r] EXCEPT !.round = e, !.pc = "store"]
    <3>1. w \in Working /\ Consistent(w, Threaded)
      BY <2>1, <2>3, <2>4 DEF Working, Consistent
    <3>2. req' = [req EXCEPT ![r] = w]
      BY <1>t, <2>5 DEF TypeOK
    <3> HIDE DEF w
    <3>3. QED BY <2>2, <3>1, <3>2, OneMovesOn
  <2>6. ASSUME NextOf(r, req[r].todo \ {e})
       PROVE  req' \in [Requests -> Working \cup {Idle}] /\ Sound'
    <3>1. req[r].mode = "reply" => ChannelsOf(req[r].todo \ {e}) \subseteq Threaded'
      BY <2>1, <2>2 DEF Consistent
    <3>2. QED BY <2>1, <2>2, <2>4, <2>6, <3>1, NextMoves
  <2>7. req' \in [Requests -> Working \cup {Idle}] /\ Sound'
    BY <2>3, <2>5, <2>6
  <2>8. roots' \in [Channels -> 0..MaxRoots]
    <3>1. e.channel \in Channels /\ MaxRoots \in Nat
      BY <2>4, SlackAssumption DEF Round
    <3>2. QED BY <1>t, <2>3, <3>1 DEF TypeOK
  <2>9. trouble' \subseteq {"slack", "database", "reload"}
    BY <1>t, <2>3 DEF TypeOK, Trouble
  <2>10. QED BY <1>t, <1>8, <2>7, <2>8, <2>9 DEF PostMessage, TypeInv, TypeOK
<1>9. ASSUME NEW r \in Requests, CreateThread(r) PROVE TypeInv'
  <2> DEFINE e == req[r].round
             c == e.channel
             thread == [told |-> req[r].outage, marked |-> FALSE]
  <2>1. req[r] \in Working /\ Consistent(req[r], Threaded) /\ req[r].pc = "store"
    BY <1>9, ActiveIsWorking DEF CreateThread
  <2>2. e \in req[r].todo /\ req[r].todo \subseteq Round /\ req[r].mode = "post"
        /\ req[r].outage \in Outage
    BY <2>1 DEF Working, Consistent
  <2>c. c \in Channels
    BY <2>2 DEF Round
  <2>3. thread \in Thread
    BY <2>2 DEF Thread
  <2>4. CASE threads' = [threads EXCEPT ![c] = thread] /\ UNCHANGED trouble
             /\ IF req[r].outage.ended THEN Goto(r, "mark") ELSE NextOf(r, req[r].todo \ {e})
    <3>1. threads' \in [Channels -> Thread \cup {NoThread}]
      BY <1>t, <2>c, <2>3, <2>4 DEF TypeOK
    <3>2. Threaded \subseteq Threaded' /\ c \in Threaded'
      BY <1>t, <2>c, <2>3, <2>4, SlackValuesAssumption DEF TypeOK, Threaded
    <3>3. CASE Goto(r, "mark")
      <4> DEFINE w == [req[r] EXCEPT !.pc = "mark"]
      <4>1. w \in Working /\ Consistent(w, Threaded')
        BY <2>1, <2>2, <3>2 DEF Working, Consistent
      <4>2. req' = [req EXCEPT ![r] = w]
        BY <1>t, <3>3 DEF Goto, TypeOK
      <4> HIDE DEF w
      <4>3. req' \in [Requests -> Working \cup {Idle}] /\ Sound'
        BY <3>2, <4>1, <4>2, OneMoves
      <4>4. QED BY <1>t, <1>9, <2>4, <3>1, <4>3 DEF CreateThread, TypeInv, TypeOK
    <3>4. CASE NextOf(r, req[r].todo \ {e})
      <4>1. req' \in [Requests -> Working \cup {Idle}] /\ Sound'
        BY <2>1, <2>2, <3>2, <3>4, NextMoves
      <4>2. QED BY <1>t, <1>9, <2>4, <3>1, <4>1 DEF CreateThread, TypeInv, TypeOK
    <3>5. QED BY <2>4, <3>3, <3>4
  <2>5. CASE /\ UNCHANGED threads
             /\ NextOf(r, req[r].todo \ {e})
             /\ trouble' \in {trouble, trouble \cup {"database"}}
    <3>1. Threaded' = Threaded
      BY <2>5 DEF Threaded
    <3>2. req' \in [Requests -> Working \cup {Idle}] /\ Sound'
      BY <2>1, <2>2, <2>5, <3>1, NextMoves
    <3>3. QED BY <1>t, <1>9, <2>5, <3>2 DEF CreateThread, TypeInv, TypeOK
  <2>6. QED BY <1>9, <2>4, <2>5, Zenon DEF CreateThread, Trouble
<1>10. ASSUME NEW r \in Requests, ReplyMessage(r) PROVE TypeInv'
  <2>1. req[r] \in Working /\ Consistent(req[r], Threaded) /\ req[r].pc = "reply"
    BY <1>10, ActiveIsWorking DEF ReplyMessage
  <2>2. ChannelsOf(req[r].todo) \subseteq Threaded /\ req[r].mode = "reply"
    BY <2>1 DEF Consistent
  <2>3. PICK e \in req[r].todo :
          \/ /\ IF req[r].outage.ended
                THEN req' = [req EXCEPT ![r].round = e, ![r].pc = "mark"]
                ELSE NextOf(r, req[r].todo \ {e})
             /\ UNCHANGED trouble
          \/ /\ Trouble("slack")
             /\ NextOf(r, req[r].todo \ {e})
    BY <1>10 DEF ReplyMessage, First
  <2>4. e \in Round /\ req[r].todo \ {e} \in SUBSET Round
    BY <2>1, <2>3 DEF Working
  <2>5. e.channel \in Threaded /\ ChannelsOf(req[r].todo \ {e}) \subseteq Threaded
    BY <2>2, <2>3 DEF ChannelsOf
  <2>7. threads' \in [Channels -> Thread \cup {NoThread}] /\ Threaded' = Threaded
    BY <1>10, ThreadsStay
  <2>8. ASSUME req' = [req EXCEPT ![r].round = e, ![r].pc = "mark"]
       PROVE  req' \in [Requests -> Working \cup {Idle}] /\ Sound'
    <3> DEFINE w == [req[r] EXCEPT !.round = e, !.pc = "mark"]
    <3>1. w \in Working /\ Consistent(w, Threaded')
      BY <2>1, <2>2, <2>3, <2>4, <2>5, <2>7 DEF Working, Consistent
    <3>2. req' = [req EXCEPT ![r] = w]
      BY <1>t, <2>8 DEF TypeOK
    <3> HIDE DEF w
    <3>3. QED BY <2>7, <3>1, <3>2, OneMoves
  <2>9. ASSUME NextOf(r, req[r].todo \ {e})
       PROVE  req' \in [Requests -> Working \cup {Idle}] /\ Sound'
    BY <2>1, <2>2, <2>4, <2>5, <2>7, <2>9, NextMoves
  <2>10. req' \in [Requests -> Working \cup {Idle}] /\ Sound'
    BY <2>3, <2>8, <2>9
  <2>11. trouble' \subseteq {"slack", "database", "reload"}
    BY <1>t, <2>3 DEF TypeOK, Trouble
  <2>12. QED BY <1>t, <1>10, <2>7, <2>10, <2>11 DEF ReplyMessage, TypeInv, TypeOK
<1>11. ASSUME NEW r \in Requests, AddResolvedEmoji(r) PROVE TypeInv'
  <2> DEFINE e == req[r].round
  <2>1. req[r] \in Working /\ Consistent(req[r], Threaded) /\ req[r].pc = "mark"
    BY <1>11, ActiveIsWorking DEF AddResolvedEmoji
  <2>2. req[r].todo \ {e} \in SUBSET Round
        /\ (req[r].mode = "reply" => ChannelsOf(req[r].todo \ {e}) \subseteq Threaded)
    BY <2>1 DEF Working, Consistent, ChannelsOf
  <2>6. threads' \in [Channels -> Thread \cup {NoThread}] /\ Threaded' = Threaded
    BY <1>11, ThreadsStay
  <2>7. NextOf(r, req[r].todo \ {e}) /\ trouble' \in {trouble, trouble \cup {"slack"}}
    BY <1>11 DEF AddResolvedEmoji, Trouble
  <2>8. req' \in [Requests -> Working \cup {Idle}] /\ Sound'
    BY <2>1, <2>2, <2>6, <2>7, NextMoves
  <2>9. QED BY <1>t, <1>11, <2>6, <2>7, <2>8 DEF AddResolvedEmoji, TypeInv, TypeOK
<1>12. ASSUME NEW r \in Requests, Fail(r) PROVE TypeInv'
  <2>1. req' \in [Requests -> Working \cup {Idle}] /\ Sound'
    BY <1>12, OneMovesOn DEF Fail
  <2>2. QED BY <1>t, <1>12, <2>1 DEF Fail, Trouble, TypeInv, TypeOK
<1>13. CASE ReloadConfig
  BY <1>t, <1>13 DEF ReloadConfig, Trouble, TypeInv, TypeOK, Sound, Threaded
<1>14. CASE UNCHANGED vars
  BY <1>t, <1>14 DEF vars, TypeInv, TypeOK, Sound, Threaded
<1>15. QED
  BY <1>1, <1>2, <1>3, <1>4, <1>5, <1>6, <1>7, <1>8, <1>9, <1>10, <1>11, <1>12, <1>13, <1>14, Zenon
  DEF Next

\* The reporter keeps its shape however many requests overlap: what is replied to is
\* a stored thread, and no channel outside the configuration's is posted to.
THEOREM TypeCorrect == Spec => []TypeOK
<1>1. TypeInv => TypeOK
  BY DEF TypeInv
<1>2. QED BY <1>1, TypeInit, TypeStep, PTL DEF Spec

--------------------------------------------------------------------------------
(***************************************************************************)
(* Requests one after the other.                                            *)
(***************************************************************************)
OneAtATime == \A q, r \in Requests : q = r

\* Where opening messages are still to be posted there are no threads, unless the
\* same list named the channel before: T is the set of channels that have one.
Repeats(w, todo, T) ==
    \A e \in todo : e.channel \in T => \E d \in w.channels \ todo : d.channel = e.channel

ToStrangers(w, T) ==
    /\ w.mode = "post" => w.todo \subseteq w.channels
    /\ w.pc = "report" => T = {}
    /\ w.pc \in {"check", "post", "store"} => Repeats(w, w.todo, T)
    /\ (w.pc = "mark" /\ w.mode = "post") => Repeats(w, w.todo \ {w.round}, T)

PostsToStrangers ==
    /\ row = NoOutage => Threaded = {} /\ \A r \in Requests : req[r] = Idle
    /\ \A r \in Requests : req[r] # Idle => ToStrangers(req[r], Threaded)

\* After a round of channel c the others repeat channels, also if c has a thread now.
LEMMA RoundDone ==
    ASSUME NEW w, NEW T, NEW S, NEW e \in w.todo, w.todo \subseteq w.channels,
           Repeats(w, w.todo, T), S \subseteq T \cup {e.channel}
    PROVE  Repeats(w, w.todo \ {e}, S)
<1> SUFFICES ASSUME NEW f \in w.todo \ {e}, f.channel \in S
             PROVE  \E d \in w.channels \ (w.todo \ {e}) : d.channel = f.channel
  BY DEF Repeats
<1>1. CASE f.channel = e.channel
  <2>1. e \in w.channels \ (w.todo \ {e})
    OBVIOUS
  <2>2. QED BY <1>1, <2>1
<1>2. CASE f.channel \in T
  BY <1>2 DEF Repeats
<1>3. QED BY <1>1, <1>2

LEMMA NextToStrangers ==
    ASSUME NEW w \in Working, NEW todo \in SUBSET Round, NEW T,
           w.mode = "post" => todo \subseteq w.channels /\ Repeats(w, todo, T)
    PROVE  ToStrangers([w EXCEPT !.pc = w.mode, !.todo = todo], T)
<1> DEFINE on == [w EXCEPT !.pc = w.mode, !.todo = todo]
<1>1. w.mode \in {"post", "reply"}
  BY DEF Working
<1>2. on.pc = w.mode /\ on.mode = w.mode /\ on.todo = todo /\ on.channels = w.channels
  BY DEF Working
<1> HIDE DEF on
<1>3. ToStrangers(on, T)
  BY <1>1, <1>2 DEF ToStrangers, Repeats
<1>4. QED BY <1>3 DEF on

\* The one request moves on.
LEMMA OnlyOneMoves ==
    ASSUME OneAtATime, TypeInv, NEW r \in Requests, NEW w \in Working \cup {Idle},
           req' = [req EXCEPT ![r] = w], w # Idle => ToStrangers(w, Threaded'),
           row' # NoOutage
    PROVE  PostsToStrangers'
<1>1. \A q \in Requests : req'[q] = w
  BY DEF OneAtATime, TypeInv, TypeOK
<1>2. QED BY <1>1 DEF PostsToStrangers

LEMMA OnlyOneLoops ==
    ASSUME OneAtATime, TypeInv, NEW r \in Requests, req[r] \in Working,
           NEW todo \in SUBSET Round, NextOf(r, todo), row' # NoOutage,
           req[r].mode = "post" => todo \subseteq req[r].channels /\ Repeats(req[r], todo, Threaded')
    PROVE  PostsToStrangers'
<1> DEFINE on == [req[r] EXCEPT !.pc = req[r].mode, !.todo = todo]
<1>1. on \in Working
  <2>1. req[r].mode \in {"post", "reply"}
    BY DEF Working
  <2>2. QED BY <2>1 DEF Working
<1>2. ToStrangers(on, Threaded')
  BY NextToStrangers
<1>3. req' = [req EXCEPT ![r] = IF todo = {} THEN Idle ELSE on]
  BY DEF NextOf
<1> HIDE DEF on
<1>4. QED BY <1>1, <1>2, <1>3, OnlyOneMoves

LEMMA StrangersStep ==
    ASSUME OneAtATime, TypeInv, PostsToStrangers, [Next]_vars
    PROVE  PostsToStrangers'
<1>t. TypeOK
  BY DEF TypeInv
<1>w. ASSUME NEW r \in Requests, req[r].pc # "idle"
      PROVE  /\ req[r] \in Working /\ Consistent(req[r], Threaded)
             /\ ToStrangers(req[r], Threaded) /\ row # NoOutage
  BY <1>w, ActiveIsWorking DEF PostsToStrangers
<1>1. ASSUME NEW r \in Requests, CreateOutage(r) PROVE PostsToStrangers'
  <2>1. PICK severity \in Levels :
          /\ row' = [severity |-> severity, ended |-> FALSE]
          /\ Start(r, "report", [severity |-> severity, ended |-> FALSE])
    BY <1>1 DEF CreateOutage
  <2> DEFINE w == [pc |-> "report", mode |-> "post",
                   outage |-> [severity |-> severity, ended |-> FALSE], old |-> NoOutage,
                   channels |-> {}, todo |-> {}, round |-> NoThread]
  <2>2. row' \in Outage
    BY <2>1 DEF Outage
  <2>3. Threaded' = {}
    BY <1>1 DEF CreateOutage, PostsToStrangers, Threaded
  <2>4. w \in Working
    BY <2>1, <2>2, Fresh
  <2>5. ToStrangers(w, Threaded')
    BY <2>3 DEF ToStrangers
  <2>6. req' = [req EXCEPT ![r] = w]
    BY <2>1 DEF Start
  <2> HIDE DEF w
  <2>7. QED BY <2>2, <2>4, <2>5, <2>6, SlackValuesAssumption, OnlyOneMoves
<1>2. ASSUME NEW r \in Requests, UpdateOutage(r) PROVE PostsToStrangers'
  <2>1. PICK outage \in Outage : Start(r, "old", outage)
    BY <1>2 DEF UpdateOutage
  <2> DEFINE w == [pc |-> "old", mode |-> "post", outage |-> outage, old |-> NoOutage,
                   channels |-> {}, todo |-> {}, round |-> NoThread]
  <2>2. w \in Working
    BY Fresh
  <2>3. ToStrangers(w, Threaded')
    BY DEF ToStrangers
  <2>4. req' = [req EXCEPT ![r] = w] /\ row' # NoOutage
    BY <1>2, <2>1 DEF Start, UpdateOutage
  <2> HIDE DEF w
  <2>5. QED BY <2>2, <2>3, <2>4, OnlyOneMoves
<1>3. ASSUME NEW r \in Requests, ReadOld(r) \/ SaveOutage(r) PROVE PostsToStrangers'
  <2> DEFINE read  == [req[r] EXCEPT !.old = row, !.pc = "save"]
             saved == [req[r] EXCEPT !.pc = "threads"]
  <2>1. req[r].pc # "idle"
    BY <1>3 DEF ReadOld, SaveOutage
  <2>2. req[r] \in Working /\ row # NoOutage /\ ToStrangers(req[r], Threaded)
    BY <1>w, <2>1
  <2>3. read \in Working /\ saved \in Working /\ req[r].outage \in Outage
    BY <1>t, <2>2 DEF Working, TypeOK
  <2>4. ToStrangers(read, Threaded') /\ ToStrangers(saved, Threaded')
    BY <2>2 DEF ToStrangers, Working
  <2>5. req' = [req EXCEPT ![r] = read] \/ req' = [req EXCEPT ![r] = saved]
    BY <1>3, <1>t DEF ReadOld, SaveOutage, Goto, TypeOK
  <2>6. row' # NoOutage
    BY <1>3, <2>2, <2>3, SlackValuesAssumption DEF ReadOld, SaveOutage
  <2> HIDE DEF read, saved
  <2>7. QED BY <2>3, <2>4, <2>5, <2>6, OnlyOneMoves
<1>4. ASSUME NEW r \in Requests, ReportOutageUpdate(r) PROVE PostsToStrangers'
  <2> DEFINE w == IF Threaded = {} THEN [req[r] EXCEPT !.pc = "report"]
                  ELSE [req[r] EXCEPT !.pc = "reply", !.mode = "reply", !.channels = ThreadRounds,
                                      !.todo = ThreadRounds]
  <2>1. req[r] \in Working /\ row # NoOutage /\ ToStrangers(req[r], Threaded)
    BY <1>4, <1>w DEF ReportOutageUpdate
  <2>2. Threaded' = Threaded /\ ThreadRounds \in SUBSET Round
    BY <1>4, <1>t, ListTypes DEF ReportOutageUpdate, Threaded
  <2>3. w \in Working /\ ToStrangers(w, Threaded')
    BY <2>1, <2>2 DEF Working, ToStrangers
  <2>4. req' = [req EXCEPT ![r] = w] /\ row' # NoOutage
    BY <1>4, <1>t, <2>1 DEF ReportOutageUpdate, TypeOK
  <2> HIDE DEF w
  <2>5. QED BY <2>3, <2>4, OnlyOneMoves
<1>5. ASSUME NEW r \in Requests, ReportOutage(r) PROVE PostsToStrangers'
  <2> DEFINE channels == FilterChannelsBySeverity(reporting, req[r].outage.severity)
             w == [req[r] EXCEPT !.pc = "check", !.channels = channels, !.todo = channels]
  <2>1. req[r] \in Working /\ row # NoOutage /\ Threaded = {}
    BY <1>5, <1>w DEF ReportOutage, ToStrangers
  <2>2. channels \in SUBSET Round
    BY <1>t, ListTypes
  <2>3. req' = [req EXCEPT ![r] = IF channels = {} THEN Idle ELSE w] /\ row' # NoOutage
    BY <1>5, <1>t, <2>1 DEF ReportOutage, TypeOK
  <2> HIDE DEF channels
  <2>4. Threaded' = {}
    BY <1>5, <2>1 DEF ReportOutage, Threaded
  <2>5. w \in Working /\ ToStrangers(w, Threaded')
    BY <2>1, <2>2, <2>4 DEF Working, ToStrangers, Repeats
  <2> HIDE DEF w
  <2>6. QED BY <2>3, <2>5, OnlyOneMoves
<1>6. ASSUME NEW r \in Requests, LookUpComponent(r) PROVE PostsToStrangers'
  <2> DEFINE w == [req[r] EXCEPT !.pc = "post"]
  <2>1. /\ req[r] \in Working /\ row # NoOutage /\ req[r].pc = "check"
        /\ ToStrangers(req[r], Threaded)
    BY <1>6, <1>w DEF LookUpComponent
  <2>2. Threaded' = Threaded
    BY <1>6 DEF LookUpComponent, Threaded
  <2>3. /\ w \in Working /\ w.pc = "post" /\ w.todo = req[r].todo /\ w.channels = req[r].channels
        /\ w.mode = req[r].mode
    BY <2>1 DEF Working
  <2>4. req' = [req EXCEPT ![r] = IF reporting = NoComponent THEN Idle ELSE w] /\ row' # NoOutage
    BY <1>6, <1>t, <2>1 DEF LookUpComponent, Goto, TypeOK
  <2> HIDE DEF w
  <2>5. ToStrangers(w, Threaded')
    BY <2>1, <2>2, <2>3 DEF ToStrangers, Repeats
  <2>6. QED BY <2>3, <2>4, <2>5, OnlyOneMoves
<1>7. ASSUME NEW r \in Requests, PostMessage(r) PROVE PostsToStrangers'
  <2>1. /\ req[r] \in Working /\ row' # NoOutage /\ req[r].mode = "post"
        /\ req[r].todo \subseteq req[r].channels /\ Repeats(req[r], req[r].todo, Threaded)
    BY <1>7, <1>w DEF PostMessage, ToStrangers, Consistent
  <2>2. Threaded' = Threaded
    BY <1>7 DEF PostMessage, Threaded
  <2>3. PICK e \in req[r].todo : \/ req' = [req EXCEPT ![r].round = e, ![r].pc = "store"]
                                 \/ NextOf(r, req[r].todo \ {e})
    BY <1>7 DEF PostMessage, First
  <2>4. e \in Round /\ req[r].todo \ {e} \in SUBSET Round
    BY <2>1, <2>3 DEF Working
  <2>5. CASE req' = [req EXCEPT ![r].round = e, ![r].pc = "store"]
    <3> DEFINE w == [req[r] EXCEPT !.round = e, !.pc = "store"]
    <3>1. /\ w \in Working /\ w.pc = "store" /\ w.todo = req[r].todo
          /\ w.channels = req[r].channels
      BY <2>1, <2>4 DEF Working
    <3>2. req' = [req EXCEPT ![r] = w]
      BY <1>t, <2>5 DEF TypeOK
    <3> HIDE DEF w
    <3>3. ToStrangers(w, Threaded')
      BY <2>1, <2>2, <3>1 DEF ToStrangers, Repeats
    <3>4. QED BY <2>1, <3>1, <3>2, <3>3, OnlyOneMoves
  <2>6. CASE NextOf(r, req[r].todo \ {e})
    <3>1. Repeats(req[r], req[r].todo \ {e}, Threaded')
      BY <2>1, <2>2, <2>3, RoundDone
    <3>2. QED BY <2>1, <2>4, <2>6, <3>1, OnlyOneLoops
  <2>7. QED BY <2>3, <2>5, <2>6
<1>8. ASSUME NEW r \in Requests, CreateThread(r) PROVE PostsToStrangers'
  <2> DEFINE e == req[r].round
             w == [req[r] EXCEPT !.pc = "mark"]
  <2>1. /\ req[r] \in Working /\ row' # NoOutage /\ e \in req[r].todo
        /\ req[r].todo \subseteq Round /\ req[r].todo \subseteq req[r].channels
        /\ Repeats(req[r], req[r].todo, Threaded)
    BY <1>8, <1>w DEF CreateThread, ToStrangers, Consistent, Working
  <2>2. Threaded' \subseteq Threaded \cup {e.channel}
    BY <1>8, <1>t, <2>1 DEF CreateThread, Threaded, TypeOK
  <2>3. Repeats(req[r], req[r].todo \ {e}, Threaded')
    BY <2>1, <2>2, RoundDone
  <2>4. req' = [req EXCEPT ![r] = w] \/ NextOf(r, req[r].todo \ {e})
    BY <1>8, <1>t DEF CreateThread, Goto, TypeOK
  <2>5. /\ w \in Working /\ w.pc = "mark" /\ w.todo = req[r].todo /\ w.channels = req[r].channels
        /\ w.round = e
    BY <2>1 DEF Working
  <2>6. req[r].todo \ {e} \in SUBSET Round /\ req[r].todo \ {e} \subseteq req[r].channels
    BY <2>1
  <2> HIDE DEF w, e
  <2>7. ToStrangers(w, Threaded')
    BY <2>1, <2>3, <2>5 DEF ToStrangers, Repeats
  <2>8. QED BY <2>1, <2>3, <2>4, <2>5, <2>6, <2>7, OnlyOneMoves, OnlyOneLoops
<1>9. ASSUME NEW r \in Requests, ReplyMessage(r) PROVE PostsToStrangers'
  <2>1. req[r] \in Working /\ row' # NoOutage /\ req[r].mode = "reply"
    BY <1>9, <1>w DEF ReplyMessage, Consistent
  <2>2. PICK e \in req[r].todo : \/ req' = [req EXCEPT ![r].round = e, ![r].pc = "mark"]
                                 \/ NextOf(r, req[r].todo \ {e})
    BY <1>9 DEF ReplyMessage, First
  <2>3. e \in Round /\ req[r].todo \ {e} \in SUBSET Round
    BY <2>1, <2>2 DEF Working
  <2>4. CASE req' = [req EXCEPT ![r].round = e, ![r].pc = "mark"]
    <3> DEFINE w == [req[r] EXCEPT !.round = e, !.pc = "mark"]
    <3>1. w \in Working /\ ToStrangers(w, Threaded')
      BY <2>1, <2>3 DEF Working, ToStrangers
    <3>2. req' = [req EXCEPT ![r] = w]
      BY <1>t, <2>4 DEF TypeOK
    <3> HIDE DEF w
    <3>3. QED BY <2>1, <3>1, <3>2, OnlyOneMoves
  <2>5. CASE NextOf(r, req[r].todo \ {e})
    BY <2>1, <2>3, <2>5, OnlyOneLoops
  <2>6. QED BY <2>2, <2>4, <2>5
<1>10. ASSUME NEW r \in Requests, AddResolvedEmoji(r) PROVE PostsToStrangers'
  <2> DEFINE e == req[r].round
  <2>1. /\ req[r] \in Working /\ row' # NoOutage /\ req[r].todo \ {e} \in SUBSET Round
        /\ req[r].mode = "post" => /\ req[r].todo \ {e} \subseteq req[r].channels
                                   /\ Repeats(req[r], req[r].todo \ {e}, Threaded)
    BY <1>10, <1>w DEF AddResolvedEmoji, ToStrangers, Consistent, Working
  <2>2. Threaded' = Threaded
    BY <1>10, ThreadsStay
  <2>3. NextOf(r, req[r].todo \ {e})
    BY <1>10 DEF AddResolvedEmoji
  <2> HIDE DEF e
  <2>4. QED BY <2>1, <2>2, <2>3, OnlyOneLoops
<1>11. ASSUME NEW r \in Requests, Fail(r) PROVE PostsToStrangers'
  <2>1. row' # NoOutage /\ req' = [req EXCEPT ![r] = Idle]
    BY <1>11 DEF Fail, PostsToStrangers
  <2>2. QED BY <2>1, OnlyOneMoves
<1>12. CASE ReloadConfig \/ UNCHANGED vars
  BY <1>12 DEF ReloadConfig, vars, PostsToStrangers, Threaded
<1>13. QED
  BY <1>1, <1>2, <1>3, <1>4, <1>5, <1>6, <1>7, <1>8, <1>9, <1>10, <1>11, <1>12, Zenon DEF Next

\* As long as requests follow each other, a channel with a thread (postToSlackChannels)
\* gets another opening message only from a request whose own list names it twice,
\* whatever fails and wherever the process stops.
THEOREM NoSecondOpening == ASSUME OneAtATime PROVE Spec => ReopenedByTheSameList
<1>1. Init => TypeInv /\ PostsToStrangers
  BY TypeInit DEF Init, PostsToStrangers, Threaded
<1>2. TypeInv /\ PostsToStrangers /\ [Next]_vars => TypeInv' /\ PostsToStrangers'
  BY TypeStep, StrangersStep
<1>3. TypeInv /\ PostsToStrangers /\ [Next]_vars =>
        [\A c \in Threaded : roots'[c] = roots[c] \/ \E r \in Requests : NamedTwice(req[r].channels, c)]_vars
  <2> SUFFICES ASSUME TypeInv, PostsToStrangers, Next, NEW c \in Threaded
               PROVE  roots'[c] = roots[c] \/ \E r \in Requests : NamedTwice(req[r].channels, c)
    BY DEF vars
  <2>1. ASSUME NEW r \in Requests, PostMessage(r)
        PROVE  roots'[c] = roots[c] \/ NamedTwice(req[r].channels, c)
    <3>1. req[r].pc = "post" /\ req[r].mode = "post"
      BY <2>1, ActiveIsWorking DEF PostMessage, Consistent
    <3>2. req[r] # Idle
      BY <3>1 DEF Idle
    <3>3. req[r].todo \subseteq req[r].channels /\ Repeats(req[r], req[r].todo, Threaded)
      BY <3>1, <3>2 DEF PostsToStrangers, ToStrangers
    <3>4. roots \in [Channels -> 0..MaxRoots] /\ c \in Channels
      BY DEF TypeInv, TypeOK, Threaded
    <3>5. PICK e \in req[r].todo :
             roots' = [roots EXCEPT ![e.channel] = IF @ < MaxRoots THEN @ + 1 ELSE @] \/ UNCHANGED roots
      BY <2>1 DEF PostMessage, First
    <3>6. CASE e.channel # c
      BY <3>4, <3>5, <3>6
    <3>7. CASE e.channel = c
      <4>1. PICK d \in req[r].channels \ req[r].todo : d.channel = c
        BY <3>3, <3>5, <3>7 DEF Repeats
      <4>2. d # e /\ e \in req[r].channels
        BY <3>3, <3>5
      <4>3. QED BY <3>7, <4>1, <4>2 DEF NamedTwice
    <3>8. QED BY <3>6, <3>7
  <2>2. CASE UNCHANGED roots
    BY <2>2
  <2>3. QED
    BY <2>1, <2>2, Zenon
    DEF Next, CreateOutage, UpdateOutage, ReadOld, SaveOutage, ReportOutageUpdate, ReportOutage,
        LookUpComponent, CreateThread, ReplyMessage, AddResolvedEmoji, Fail, ReloadConfig
<1>4. QED BY <1>1, <1>2, <1>3, PTL DEF Spec, ReopenedByTheSameList
--------------------------------------------------------------------------------
(***************************************************************************)
(* The opening messages of a channel, posted and still to come, are no more *)
(* than a configuration in use lists; a message without a stored thread     *)
(* belongs to a request that is about to store one.                         *)
(***************************************************************************)
Of(rounds, c) == {e \in rounds : e.channel = c}

\* The rounds in which request w may still post an opening message.
Remaining(w) ==
    IF w.pc \in {"check", "post"} THEN w.todo
    ELSE IF w.pc = "store" \/ (w.pc = "mark" /\ w.mode = "post") THEN w.todo \ {w.round} ELSE {}

Fits(config, rounds) ==
    /\ IsFiniteSet(rounds)
    /\ \A c \in Channels : roots[c] + Cardinality(Of(rounds, c)) <= Listed(config, c)

Budget ==
    \E config \in ConfigsSoFar :
        Fits(config, {}) /\ \A r \in Requests : Fits(config, Remaining(req[r]))

StoredOrAboutTo(c) ==
    c \notin Threaded =>
        roots[c] = 0 \/ \E r \in Requests : req[r].pc = "store" /\ req[r].round.channel = c

RootsAreThreads == "database" \notin trouble => Budget /\ \A c \in Channels : StoredOrAboutTo(c)

LEMMA ListedIsNat ==
    ASSUME NEW config \in Configs, NEW c \in Channels
    PROVE  Listed(config, c) \in Nat
<1>1. CASE config = NoComponent
  BY <1>1 DEF Listed
<1>2. CASE config # NoComponent
  <2>1. config \in Seq(SlackReportingConfig)
    BY <1>2, SlackAssumption
  <2>2. DOMAIN config = 1..Len(config) /\ Len(config) \in Nat
    BY <2>1
  <2>3. IsFiniteSet(DOMAIN config)
    BY <2>2, FS_Interval
  <2>4. Cardinality({i \in DOMAIN config : config[i].channel = c}) \in Nat
    BY <2>3, FS_Subset, FS_CardinalityType
  <2>5. QED BY <1>2, <2>4 DEF Listed
<1>3. QED BY <1>1, <1>2

\* A list of rounds has no more of a channel than the configuration it is taken from.
LEMMA ListCount ==
    ASSUME TypeOK, NEW severity, NEW c
    PROVE  LET list == FilterChannelsBySeverity(reporting, severity)
           IN  IsFiniteSet(list) /\ Cardinality(Of(list, c)) <= Listed(reporting, c)
<1> DEFINE list == FilterChannelsBySeverity(reporting, severity)
<1>1. CASE reporting = NoComponent
  <2>1. list = {} /\ Of({}, c) = {}
    BY <1>1 DEF FilterChannelsBySeverity, Of
  <2>2. QED BY <1>1, <2>1, FS_EmptySet DEF Listed
<1>2. CASE reporting # NoComponent
  <2> DEFINE named   == {i \in DOMAIN reporting : reporting[i].channel = c}
             reached == {i \in DOMAIN reporting : Reaches(severity, reporting[i])}
             both    == {i \in reached : reporting[i].channel = c}
             round   == [i \in reached |-> [at |-> i, channel |-> reporting[i].channel]]
             ofC     == [i \in both |-> [at |-> i, channel |-> reporting[i].channel]]
  <2>1. reporting \in Seq(SlackReportingConfig)
    BY <1>2, SlackAssumption DEF TypeOK
  <2>2. DOMAIN reporting = 1..Len(reporting) /\ Len(reporting) \in Nat
    BY <2>1
  <2>3. IsFiniteSet(DOMAIN reporting)
    BY <2>2, FS_Interval
  <2>4. IsFiniteSet(named) /\ IsFiniteSet(reached)
    BY <2>3, FS_Subset
  <2>5. both \in SUBSET named
    OBVIOUS
  <2>6. IsFiniteSet(both) /\ Cardinality(both) <= Cardinality(named)
    BY <2>4, <2>5, FS_Subset
  <2>7. list = {[at |-> i, channel |-> reporting[i].channel] : i \in reached}
    BY <1>2 DEF FilterChannelsBySeverity
  <2>8. round \in Surjection(reached, list)
    BY <2>7 DEF Surjection
  <2>9. \A e \in list : e.channel = c <=> e.at \in both /\ e = [at |-> e.at, channel |-> reporting[e.at].channel]
    BY <2>7
  <2>10. \A i \in both : ofC[i] \in Of(list, c)
    BY <2>7 DEF Of
  <2>11. \A e \in Of(list, c) : e.at \in both /\ ofC[e.at] = e
    BY <2>9 DEF Of
  <2>12. ofC \in Surjection(both, Of(list, c))
    BY <2>10, <2>11 DEF Surjection
  <2> HIDE DEF list, named, reached, both, round, ofC
  <2>13. IsFiniteSet(list)
    BY <2>4, <2>8, FS_Surjection
  <2>14. IsFiniteSet(Of(list, c)) /\ Cardinality(Of(list, c)) <= Cardinality(both)
    BY <2>6, <2>12, FS_Surjection
  <2>15. /\ Cardinality(named) \in Nat /\ Cardinality(both) \in Nat
         /\ Cardinality(Of(list, c)) \in Nat
    BY <2>4, <2>6, <2>14, FS_CardinalityType
  <2>16. Listed(reporting, c) = Cardinality(named)
    BY <1>2 DEF Listed, named
  <2>17. QED BY <2>6, <2>13, <2>14, <2>15, <2>16 DEF list
<1>3. QED BY <1>1, <1>2

\* Fewer rounds fit as well.
LEMMA FewerFit ==
    ASSUME TypeOK, NEW config \in Configs, NEW rounds, Fits(config, rounds), NEW fewer \in SUBSET rounds
    PROVE  Fits(config, fewer)
<1>1. IsFiniteSet(rounds) /\ IsFiniteSet(fewer)
  BY FS_Subset DEF Fits
<1>2. ASSUME NEW c \in Channels
      PROVE  roots[c] + Cardinality(Of(fewer, c)) <= Listed(config, c)
  <2>1. IsFiniteSet(Of(rounds, c)) /\ Of(fewer, c) \in SUBSET Of(rounds, c)
    BY <1>1, FS_Subset DEF Of
  <2>2. IsFiniteSet(Of(fewer, c)) /\ Cardinality(Of(fewer, c)) <= Cardinality(Of(rounds, c))
    BY <2>1, FS_Subset
  <2>3. Cardinality(Of(fewer, c)) \in Nat /\ Cardinality(Of(rounds, c)) \in Nat
    BY <2>1, <2>2, FS_CardinalityType
  <2>4. Listed(config, c) \in Nat /\ roots[c] \in Nat
    BY ListedIsNat, SlackAssumption DEF TypeOK
  <2>5. roots[c] + Cardinality(Of(rounds, c)) <= Listed(config, c)
    BY DEF Fits
  <2>6. QED BY <2>2, <2>3, <2>4, <2>5
<1>3. QED BY <1>1, <1>2 DEF Fits

\* Posting one of the rounds leaves room for the others.
LEMMA PostedFits ==
    ASSUME TypeOK, NEW config \in Configs, NEW rounds, Fits(config, rounds),
           NEW e \in rounds, e.channel \in Channels,
           roots' = [roots EXCEPT ![e.channel] = IF @ < MaxRoots THEN @ + 1 ELSE @]
    PROVE  IsFiniteSet(rounds \ {e})
           /\ \A c \in Channels : roots'[c] + Cardinality(Of(rounds \ {e}, c)) <= Listed(config, c)
<1>1. IsFiniteSet(rounds) /\ IsFiniteSet(rounds \ {e})
  BY FS_RemoveElement DEF Fits
<1>2. ASSUME NEW c \in Channels
      PROVE  roots'[c] + Cardinality(Of(rounds \ {e}, c)) <= Listed(config, c)
  <2>1. IsFiniteSet(Of(rounds, c))
    BY <1>1, FS_Subset DEF Of
  <2>2. Of(rounds \ {e}, c) = Of(rounds, c) \ {e}
    BY DEF Of
  <2>3. e \in Of(rounds, c) <=> e.channel = c
    BY DEF Of
  <2>4. Cardinality(Of(rounds \ {e}, c)) = IF e.channel = c THEN Cardinality(Of(rounds, c)) - 1
                                           ELSE Cardinality(Of(rounds, c))
    BY <2>1, <2>2, <2>3, FS_RemoveElement
  <2>5. Cardinality(Of(rounds, c)) \in Nat /\ Listed(config, c) \in Nat
    BY <2>1, FS_CardinalityType, ListedIsNat
  <2>6. roots[c] \in Nat /\ MaxRoots \in Nat /\ c \in DOMAIN roots
    BY SlackAssumption DEF TypeOK
  <2>7. roots[c] + Cardinality(Of(rounds, c)) <= Listed(config, c)
    BY DEF Fits
  <2>8. roots'[c] \in Nat /\ roots'[c] <= IF e.channel = c THEN roots[c] + 1 ELSE roots[c]
    BY <2>6
  <2>9. QED BY <2>4, <2>5, <2>6, <2>7, <2>8
<1>3. QED BY <1>1, <1>2

LEMMA ConfigsInUse == ASSUME TypeOK PROVE ConfigsSoFar \subseteq Configs /\ reporting \in ConfigsSoFar
  BY DEF ConfigsSoFar, TypeOK

\* Whatever posts nothing and adds no rounds keeps the budget.
LEMMA BudgetStays ==
    ASSUME OneAtATime, TypeInv, Budget, NEW r \in Requests, UNCHANGED roots,
           ConfigsSoFar \subseteq ConfigsSoFar', Remaining(req'[r]) \subseteq Remaining(req[r])
    PROVE  Budget'
<1>t. TypeOK
  BY DEF TypeInv
<1>1. PICK config \in ConfigsSoFar : Fits(config, {}) /\ Fits(config, Remaining(req[r]))
  BY DEF Budget
<1>2. config \in Configs
  BY <1>t, ConfigsInUse
<1>3. Fits(config, Remaining(req'[r]))
  BY <1>t, <1>1, <1>2, FewerFit
<1>4. Fits(config, {})' /\ \A rounds : Fits(config, rounds) => Fits(config, rounds)'
  BY <1>1 DEF Fits
<1>5. Fits(config, Remaining(req[r]))'
  BY <1>3 DEF Fits
<1>6. \A q \in Requests : q = r
  BY DEF OneAtATime
<1>7. QED BY <1>1, <1>4, <1>5, <1>6 DEF Budget

\* What posts nothing and stores nothing leaves the accounts alone.
LEMMA AccountsStay ==
    ASSUME OneAtATime, TypeInv, RootsAreThreads, NEW r \in Requests, req[r].pc # "store",
           UNCHANGED roots, Threaded \subseteq Threaded', trouble \subseteq trouble',
           ConfigsSoFar \subseteq ConfigsSoFar', Remaining(req'[r]) \subseteq Remaining(req[r])
    PROVE  RootsAreThreads'
<1> SUFFICES ASSUME "database" \notin trouble' PROVE Budget' /\ \A c \in Channels : StoredOrAboutTo(c)'
  BY DEF RootsAreThreads
<1>1. \A q \in Requests : req[q].pc # "store"
  BY DEF OneAtATime
<1>2. Budget /\ \A c \in Channels : StoredOrAboutTo(c)
  BY DEF RootsAreThreads
<1>3. Budget'
  BY <1>2, BudgetStays
<1>4. QED BY <1>1, <1>2, <1>3 DEF StoredOrAboutTo

\* What a loop has left after a round.
LEMMA NextRemains ==
    ASSUME TypeInv, NEW r \in Requests, req[r] \in Working, NEW todo, NextOf(r, todo)
    PROVE  Remaining(req'[r]) \subseteq IF req[r].mode = "post" THEN todo ELSE {}
<1> DEFINE on == [req[r] EXCEPT !.pc = req[r].mode, !.todo = todo]
<1>1. req'[r] = IF todo = {} THEN Idle ELSE on
  BY DEF NextOf, TypeInv, TypeOK
<1>2. req[r].mode \in {"post", "reply"} /\ on.pc = req[r].mode /\ on.todo = todo
  BY DEF Working
<1> HIDE DEF on
<1>3. Remaining(Idle) = {}
  BY DEF Remaining, Idle
<1>4. Remaining(on) \subseteq IF req[r].mode = "post" THEN todo ELSE {}
  BY <1>2 DEF Remaining
<1>5. QED BY <1>1, <1>3, <1>4

LEMMA RootsStep ==
    ASSUME OneAtATime, TypeInv, PostsToStrangers, RootsAreThreads, [Next]_vars
    PROVE  RootsAreThreads'
<1>t. TypeOK
  BY DEF TypeInv
<1>w. ASSUME NEW r \in Requests, req[r].pc # "idle"
      PROVE  /\ req[r] \in Working /\ Consistent(req[r], Threaded) /\ ToStrangers(req[r], Threaded)
  BY <1>w, ActiveIsWorking DEF PostsToStrangers
<1>i. Idle.pc = "idle" /\ Remaining(Idle) = {}
  BY DEF Idle, Remaining
<1>1. ASSUME NEW r \in Requests, PostMessage(r) PROVE RootsAreThreads'
  <2>1. /\ req[r] \in Working /\ req[r].pc = "post" /\ req[r].mode = "post"
        /\ Remaining(req[r]) = req[r].todo
    BY <1>1, <1>w DEF PostMessage, Consistent, Remaining
  <2>2. Threaded' = Threaded /\ UNCHANGED reporting
    BY <1>1 DEF PostMessage, Threaded
  <2>3. PICK e \in req[r].todo :
          \/ /\ roots' = [roots EXCEPT ![e.channel] = IF @ < MaxRoots THEN @ + 1 ELSE @]
             /\ req' = [req EXCEPT ![r].round = e, ![r].pc = "store"]
             /\ UNCHANGED trouble
          \/ Trouble("slack") /\ UNCHANGED roots /\ NextOf(r, req[r].todo \ {e})
    BY <1>1 DEF PostMessage, First
  <2>4. CASE /\ roots' = [roots EXCEPT ![e.channel] = IF @ < MaxRoots THEN @ + 1 ELSE @]
             /\ req' = [req EXCEPT ![r].round = e, ![r].pc = "store"]
             /\ UNCHANGED trouble
    <3> SUFFICES ASSUME "database" \notin trouble' PROVE Budget' /\ \A c \in Channels : StoredOrAboutTo(c)'
      BY DEF RootsAreThreads
    <3>1. \A q \in Requests : q = r
      BY DEF OneAtATime
    <3>2. Budget /\ \A c \in Channels : c \notin Threaded => roots[c] = 0
      BY <2>1, <2>4, <3>1 DEF RootsAreThreads, StoredOrAboutTo
    <3>3. e.channel \in Channels
      BY <2>1, <2>3 DEF Working, Round
    <3>4. /\ req'[r].pc = "store" /\ req'[r].round = e /\ req'[r].todo = req[r].todo
      BY <1>t, <2>1, <2>4 DEF TypeOK, Working
    <3>5. Budget'
      <4>1. PICK config \in ConfigsSoFar : Fits(config, {}) /\ Fits(config, req[r].todo)
        BY <2>1, <3>2 DEF Budget
      <4>2. config \in Configs /\ config \in ConfigsSoFar'
        BY <1>t, <2>2, <2>4, ConfigsInUse DEF ConfigsSoFar
      <4>3. /\ IsFiniteSet(req[r].todo \ {e})
            /\ \A c \in Channels :
                  roots'[c] + Cardinality(Of(req[r].todo \ {e}, c)) <= Listed(config, c)
        BY <1>t, <2>3, <2>4, <3>3, <4>1, <4>2, PostedFits
      <4>4. \A c \in Channels : roots'[c] + 0 <= Listed(config, c)
        <5> SUFFICES ASSUME NEW c \in Channels PROVE roots'[c] + 0 <= Listed(config, c)
          OBVIOUS
        <5>1. IsFiniteSet(Of(req[r].todo \ {e}, c))
          BY <4>3, FS_Subset DEF Of
        <5>2. Cardinality(Of(req[r].todo \ {e}, c)) \in Nat /\ Listed(config, c) \in Nat
          BY <4>2, <5>1, FS_CardinalityType, ListedIsNat
        <5>3. roots'[c] \in Nat
          BY <1>t, <2>4, SlackAssumption DEF TypeOK
        <5>4. QED BY <4>3, <5>2, <5>3
      <4>5. Remaining(req'[r]) = req[r].todo \ {e}
        BY <3>4 DEF Remaining
      <4>6. Fits(config, Remaining(req[r]))'
        BY <4>3, <4>5 DEF Fits
      <4>7. Fits(config, {})'
        <5>1. \A c \in Channels : Of({}, c) = {}
          BY DEF Of
        <5>2. QED BY <4>4, <5>1, FS_EmptySet DEF Fits
      <4>8. QED BY <3>1, <4>2, <4>6, <4>7 DEF Budget
    <3>6. ASSUME NEW c \in Channels PROVE StoredOrAboutTo(c)'
      <4>1. CASE e.channel = c
        BY <3>4, <4>1 DEF StoredOrAboutTo
      <4>2. CASE e.channel # c
        <5>1. roots'[c] = roots[c]
          BY <1>t, <2>4, <4>2 DEF TypeOK
        <5>2. QED BY <2>2, <3>2, <5>1 DEF StoredOrAboutTo
      <4>3. QED BY <4>1, <4>2
    <3>7. QED BY <3>5, <3>6
  <2>5. CASE Trouble("slack") /\ UNCHANGED roots /\ NextOf(r, req[r].todo \ {e})
    <3>1. Remaining(req'[r]) \subseteq Remaining(req[r])
      BY <2>1, <2>5, NextRemains
    <3>2. trouble \subseteq trouble' /\ ConfigsSoFar \subseteq ConfigsSoFar'
      BY <1>t, <2>2, <2>5 DEF Trouble, ConfigsSoFar, TypeOK
    <3>3. QED BY <2>1, <2>2, <2>5, <3>1, <3>2, AccountsStay
  <2>6. QED BY <2>3, <2>4, <2>5
<1>2. ASSUME NEW r \in Requests, CreateThread(r) PROVE RootsAreThreads'
  <2> DEFINE e      == req[r].round
             c      == e.channel
             thread == [told |-> req[r].outage, marked |-> FALSE]
  <2>1. /\ req[r] \in Working /\ req[r].pc = "store" /\ req[r].mode = "post"
        /\ e \in Round /\ e \in req[r].todo /\ c \in Channels
    BY <1>2, <1>w DEF CreateThread, Consistent, Working, Round
  <2>2. UNCHANGED <<roots, reporting>>
    BY <1>2 DEF CreateThread
  <2>3. Remaining(req[r]) = req[r].todo \ {e}
    BY <2>1 DEF Remaining
  <2>4. Remaining(req'[r]) \subseteq Remaining(req[r])
    <3>1. CASE NextOf(r, req[r].todo \ {e})
      BY <2>1, <2>3, <3>1, NextRemains
    <3>2. CASE Goto(r, "mark")
      <4>1. req'[r] = [req[r] EXCEPT !.pc = "mark"]
        BY <1>t, <3>2 DEF Goto, TypeOK
      <4>2. req'[r].pc = "mark" /\ req'[r].mode = "post" /\ req'[r].todo = req[r].todo /\ req'[r].round = e
        BY <2>1, <4>1 DEF Working
      <4>3. QED BY <2>3, <4>2 DEF Remaining
    <3>3. QED BY <1>2, <3>1, <3>2 DEF CreateThread
  <2> SUFFICES ASSUME "database" \notin trouble' PROVE Budget' /\ \A d \in Channels : StoredOrAboutTo(d)'
    BY DEF RootsAreThreads
  <2>5. UNCHANGED trouble
    BY <1>2 DEF CreateThread, Trouble
  <2>6. Budget /\ \A d \in Channels : StoredOrAboutTo(d)
    BY <2>5 DEF RootsAreThreads
  <2>7. ConfigsSoFar \subseteq ConfigsSoFar'
    BY <2>2, <2>5 DEF ConfigsSoFar
  <2>8. Threaded \cup {c} \subseteq Threaded'
    <3>1. ~Trouble("database")
      BY DEF Trouble
    <3>2. CASE threads[c] # NoThread /\ UNCHANGED threads
      BY <2>1, <3>2 DEF Threaded
    <3>3. CASE threads' = [threads EXCEPT ![c] = thread]
      <4>1. thread \in Thread
        BY <2>1 DEF Working, Thread
      <4> HIDE DEF thread
      <4>2. QED BY <1>t, <2>1, <3>3, <4>1, SlackValuesAssumption DEF TypeOK, Threaded
    <3>4. QED BY <1>2, <3>1, <3>2, <3>3 DEF CreateThread
  <2>9. \A d \in Channels : StoredOrAboutTo(d)'
    <3>1. \A q \in Requests : req[q].round.channel = c
      BY DEF OneAtATime
    <3> HIDE DEF c
    <3>2. QED BY <2>2, <2>6, <2>8, <3>1 DEF StoredOrAboutTo
  <2>10. QED BY <2>2, <2>4, <2>6, <2>7, <2>9, BudgetStays
<1>3. ASSUME NEW r \in Requests, ReplyMessage(r) \/ AddResolvedEmoji(r) PROVE RootsAreThreads'
  <2>1. req[r].pc \in {"reply", "mark"} /\ UNCHANGED <<roots, reporting>>
    BY <1>3 DEF ReplyMessage, AddResolvedEmoji
  <2>2. trouble \subseteq trouble' /\ ConfigsSoFar \subseteq ConfigsSoFar'
    BY <1>3, <1>t DEF ReplyMessage, AddResolvedEmoji, Trouble, ConfigsSoFar, TypeOK
  <2>3. Threaded' = Threaded
    BY <1>3, ThreadsStay
  <2>4. Remaining(req'[r]) \subseteq Remaining(req[r])
    <3>1. req[r] \in Working /\ Consistent(req[r], Threaded)
      BY <2>1, <1>w
    <3>2. ASSUME ReplyMessage(r) PROVE Remaining(req'[r]) = {}
      <4>1. req[r].pc = "reply" /\ req[r].mode = "reply"
        BY <3>1, <3>2 DEF ReplyMessage, Consistent
      <4>2. PICK e \in req[r].todo : \/ req' = [req EXCEPT ![r].round = e, ![r].pc = "mark"]
                                     \/ NextOf(r, req[r].todo \ {e})
        BY <3>2 DEF ReplyMessage, First
      <4>3. CASE req' = [req EXCEPT ![r].round = e, ![r].pc = "mark"]
        <5>1. req'[r].pc = "mark" /\ req'[r].mode = "reply"
          BY <1>t, <3>1, <4>1, <4>3 DEF TypeOK, Working
        <5>2. QED BY <5>1 DEF Remaining
      <4>4. CASE NextOf(r, req[r].todo \ {e})
        BY <3>1, <4>1, <4>4, NextRemains
      <4>5. QED BY <4>2, <4>3, <4>4
    <3>3. ASSUME AddResolvedEmoji(r) PROVE Remaining(req'[r]) \subseteq Remaining(req[r])
      <4>1. req[r].pc = "mark" /\ NextOf(r, req[r].todo \ {req[r].round})
        BY <3>3 DEF AddResolvedEmoji
      <4>2. Remaining(req'[r]) \subseteq IF req[r].mode = "post" THEN req[r].todo \ {req[r].round} ELSE {}
        BY <3>1, <4>1, NextRemains
      <4>3. QED BY <4>1, <4>2 DEF Remaining
    <3>4. QED BY <1>3, <3>2, <3>3
  <2>5. QED BY <2>1, <2>2, <2>3, <2>4, AccountsStay
<1>4. ASSUME NEW r \in Requests, ReportOutage(r) PROVE RootsAreThreads'
  <2> DEFINE channels == FilterChannelsBySeverity(reporting, req[r].outage.severity)
             w == [req[r] EXCEPT !.pc = "check", !.channels = channels, !.todo = channels]
  <2>1. req[r] \in Working /\ req[r].pc = "report" /\ Threaded = {}
    BY <1>4, <1>w DEF ReportOutage, ToStrangers
  <2>2. UNCHANGED <<roots, threads, trouble, reporting>>
    BY <1>4 DEF ReportOutage
  <2> SUFFICES ASSUME "database" \notin trouble PROVE Budget' /\ \A c \in Channels : StoredOrAboutTo(c)'
    BY <2>2 DEF RootsAreThreads
  <2>3. \A q \in Requests : q = r
    BY DEF OneAtATime
  <2>4. \A c \in Channels : roots[c] = 0
    BY <2>1, <2>3 DEF RootsAreThreads, StoredOrAboutTo
  <2>5. \A c \in Channels : StoredOrAboutTo(c)'
    BY <2>2, <2>4 DEF StoredOrAboutTo
  <2>6. channels \in SUBSET Round
    BY <1>t, ListTypes
  <2>7. IsFiniteSet(channels)
        /\ \A c \in Channels : Cardinality(Of(channels, c)) <= Listed(reporting, c)
    BY <1>t, ListCount
  <2>8. req' = [req EXCEPT ![r] = IF channels = {} THEN Idle ELSE w]
    BY <1>t, <1>4 DEF ReportOutage, TypeOK
  <2> HIDE DEF channels
  <2>9. w.pc = "check" /\ w.todo = channels
    BY <2>1, <2>6 DEF Working
  <2> HIDE DEF w
  <2>10. Remaining(w) = channels
    BY <2>9 DEF Remaining
  <2>11. Remaining(req'[r]) \subseteq channels
    BY <1>i, <1>t, <2>8, <2>10 DEF TypeOK
  <2>12. reporting \in Configs /\ reporting \in ConfigsSoFar'
    BY <1>t, <2>2 DEF TypeOK, ConfigsSoFar
  <2>13. Fits(reporting, channels)
    <3> SUFFICES ASSUME NEW c \in Channels
                 PROVE  roots[c] + Cardinality(Of(channels, c)) <= Listed(reporting, c)
      BY <2>7 DEF Fits
    <3>1. IsFiniteSet(Of(channels, c))
      BY <2>7, FS_Subset DEF Of
    <3>2. Cardinality(Of(channels, c)) \in Nat
      BY <3>1, FS_CardinalityType
    <3>3. QED BY <2>4, <2>7, <3>2
  <2>14. Fits(reporting, Remaining(req'[r])) /\ Fits(reporting, {})
    BY <1>t, <2>11, <2>12, <2>13, FewerFit
  <2>15. Budget'
    BY <2>2, <2>3, <2>12, <2>14 DEF Budget, Fits
  <2>16. QED BY <2>5, <2>15
<1>5. ASSUME NEW r \in Requests,
             \/ CreateOutage(r) \/ UpdateOutage(r) \/ ReadOld(r) \/ SaveOutage(r)
             \/ ReportOutageUpdate(r) \/ LookUpComponent(r)
      PROVE  RootsAreThreads'
  <2>1. req[r].pc # "store"
    BY <1>5 DEF Idle, CreateOutage, UpdateOutage, Start, ReadOld, SaveOutage, ReportOutageUpdate,
        LookUpComponent
  <2>2. UNCHANGED <<roots, threads, trouble, reporting>>
    BY <1>5 DEF CreateOutage, UpdateOutage, ReadOld, SaveOutage, ReportOutageUpdate, LookUpComponent
  <2>3. Remaining(req'[r]) \subseteq Remaining(req[r])
    <3>1. CASE LookUpComponent(r)
      <4>1. req[r] \in Working /\ req[r].pc = "check"
        BY <1>w, <3>1 DEF LookUpComponent
      <4>2. req'[r] \in {Idle, [req[r] EXCEPT !.pc = "post"]}
        BY <1>t, <3>1 DEF LookUpComponent, Goto, TypeOK
      <4>3. LET w == [req[r] EXCEPT !.pc = "post"] IN w.pc = "post" /\ w.todo = req[r].todo
        BY <4>1 DEF Working
      <4>4. QED BY <1>i, <4>1, <4>2, <4>3 DEF Remaining
    <3>2. ASSUME \/ CreateOutage(r) \/ UpdateOutage(r) \/ ReadOld(r) \/ SaveOutage(r)
                 \/ ReportOutageUpdate(r)
          PROVE  Remaining(req'[r]) = {}
      <4>1. CASE CreateOutage(r) \/ UpdateOutage(r)
        <5>1. req'[r].pc \in {"old", "report"}
          BY <1>t, <4>1 DEF CreateOutage, UpdateOutage, Start, TypeOK
        <5>2. QED BY <5>1 DEF Remaining
      <4>2. CASE ReadOld(r) \/ SaveOutage(r) \/ ReportOutageUpdate(r)
        <5>1. req[r] \in Working
          BY <1>w, <4>2 DEF ReadOld, SaveOutage, ReportOutageUpdate
        <5>2. CASE ReadOld(r) \/ SaveOutage(r)
          <6>1. req'[r].pc \in {"save", "threads"}
            BY <1>t, <5>1, <5>2 DEF ReadOld, SaveOutage, Goto, TypeOK, Working
          <6>2. QED BY <6>1 DEF Remaining
        <5>3. CASE ReportOutageUpdate(r)
          <6>1. req'[r] \in {[req[r] EXCEPT !.pc = "report"],
                             [req[r] EXCEPT !.pc = "reply", !.mode = "reply", !.channels = ThreadRounds,
                                            !.todo = ThreadRounds]}
            BY <1>t, <5>3 DEF ReportOutageUpdate, TypeOK
          <6>2. req'[r].pc \in {"report", "reply"}
            BY <5>1, <6>1 DEF Working
          <6>3. QED BY <6>2 DEF Remaining
        <5>4. QED BY <4>2, <5>2, <5>3
      <4>3. QED BY <3>2, <4>1, <4>2
    <3>3. QED BY <1>5, <3>1, <3>2
  <2>4. Threaded' = Threaded /\ ConfigsSoFar' = ConfigsSoFar
    BY <2>2 DEF Threaded, ConfigsSoFar
  <2>5. QED BY <2>1, <2>2, <2>3, <2>4, AccountsStay
<1>6. ASSUME NEW r \in Requests, Fail(r) PROVE RootsAreThreads'
  BY <1>6 DEF Fail, Trouble, RootsAreThreads
<1>7. CASE ReloadConfig \/ UNCHANGED vars
  <2>1. UNCHANGED <<threads, roots, req>> /\ trouble \subseteq trouble'
    BY <1>7 DEF ReloadConfig, Trouble, vars
  <2>2. ConfigsSoFar \subseteq ConfigsSoFar'
    BY <1>7, <1>t DEF ReloadConfig, Trouble, vars, ConfigsSoFar, TypeOK
  <2>3. QED BY <2>1, <2>2 DEF RootsAreThreads, Budget, Fits, StoredOrAboutTo, Threaded
<1>8. QED
  BY <1>1, <1>2, <1>3, <1>4, <1>5, <1>6, <1>7, Zenon DEF Next

\* As long as requests follow each other and the database works, a channel gets no more
\* opening messages (postToSlackChannels) than one of the configurations in use lists it,
\* whichever calls to Slack fail and however the configuration changes.
THEOREM OneOpening == ASSUME OneAtATime PROVE Spec => []OneRootPerEntry
<1>1. Init => TypeInv /\ PostsToStrangers /\ RootsAreThreads
  <2> SUFFICES ASSUME Init PROVE TypeInv /\ PostsToStrangers /\ RootsAreThreads
    OBVIOUS
  <2>1. TypeInv /\ PostsToStrangers
    BY TypeInit DEF Init, PostsToStrangers, Threaded
  <2>2. \A r \in Requests : Remaining(req[r]) = {}
    BY DEF Init, Idle, Remaining
  <2>3. reporting \in Configs /\ reporting \in ConfigsSoFar
    BY DEF Init, ConfigsSoFar
  <2>4. Fits(reporting, {})
    <3>1. \A c \in Channels : Of({}, c) = {} /\ roots[c] = 0 /\ Listed(reporting, c) \in Nat
      BY <2>3, ListedIsNat DEF Init, Of
    <3>2. QED BY <3>1, FS_EmptySet DEF Fits
  <2>5. QED BY <2>1, <2>2, <2>3, <2>4 DEF RootsAreThreads, Budget, StoredOrAboutTo, Init
<1>2. /\ TypeInv /\ PostsToStrangers /\ RootsAreThreads /\ [Next]_vars
      => TypeInv' /\ PostsToStrangers' /\ RootsAreThreads'
  BY TypeStep, StrangersStep, RootsStep
<1>3. TypeInv /\ RootsAreThreads => OneRootPerEntry
  <2> SUFFICES ASSUME TypeInv, "database" \notin trouble, Budget
               PROVE  \E config \in ConfigsSoFar : \A c \in Channels : roots[c] <= Listed(config, c)
    BY DEF RootsAreThreads, OneRootPerEntry
  <2>1. PICK config \in ConfigsSoFar : Fits(config, {})
    BY DEF Budget
  <2>2. \A c \in Channels : Of({}, c) = {} /\ roots[c] \in Nat
    BY SlackAssumption DEF Of, TypeInv, TypeOK
  <2>3. QED BY <2>1, <2>2, FS_EmptySet DEF Fits
<1>4. QED BY <1>1, <1>2, <1>3, PTL DEF Spec
--------------------------------------------------------------------------------
(***************************************************************************)
(* What the threads say while a request is in progress.                     *)
(***************************************************************************)
Tells(thread, o) == thread.told = o /\ (o.ended => thread.marked)

\* Request w still has to reply in the thread of c.
Behind(w, c) ==
    \/ w.pc = "threads"
    \/ w.pc = "reply" /\ c \in ChannelsOf(w.todo)
    \/ w.pc = "mark" /\ w.mode = "reply"
         /\ c \in ChannelsOf(w.todo \ {w.round}) \ {w.round.channel}

\* A thread tells what the row holds, its emoji may be about to come; or it tells
\* what the row held before, and is about to be told the difference.
Follows(c) ==
    \/ threads[c].told = row
         /\ (row.ended => threads[c].marked
                            \/ \E r \in Requests : req[r].pc = "mark" /\ req[r].round.channel = c)
    \/ \E r \in Requests : Behind(req[r], c) /\ Tells(threads[c], req[r].old)

\* Once a request has saved it reports what it saved; its old copy is what it replaced.
KnowsRow(w) ==
    /\ w.pc = "save" => w.old = row
    /\ w.pc \notin {"idle", "old", "save"} => w.outage = row
    /\ w.pc = "mark" => row.ended

ThreadsFollow ==
    trouble \subseteq {"reload"} =>
        /\ \A c \in Threaded : Follows(c)
        /\ \A r \in Requests : KnowsRow(req[r])

\* A step of the one request that leaves row and threads alone.
LEMMA FollowsStay ==
    ASSUME OneAtATime, TypeInv, ThreadsFollow,
           NEW r \in Requests, NEW w \in Working \cup {Idle},
           req' = [req EXCEPT ![r] = w], UNCHANGED <<row, threads, trouble>>,
           trouble \subseteq {"reload"} => KnowsRow(w),
           req[r].pc # "mark",
           \A c \in Threaded : Behind(req[r], c) => Behind(w, c) /\ w.old = req[r].old
    PROVE  ThreadsFollow'
<1>1. \A q \in Requests : q = r /\ req'[q] = w
  BY DEF OneAtATime, TypeInv, TypeOK
<1> SUFFICES ASSUME trouble \subseteq {"reload"} PROVE ThreadsFollow'
  BY DEF ThreadsFollow
<1>2. ASSUME NEW c \in Threaded PROVE Follows(c)'
  <2>1. Follows(c)
    BY <1>2 DEF ThreadsFollow
  <2>2. CASE threads[c].told = row /\ (row.ended => threads[c].marked)
    BY <2>2 DEF Follows
  <2>3. CASE Behind(req[r], c) /\ Tells(threads[c], req[r].old)
    <3>1. Behind(req'[r], c) /\ Tells(threads'[c], req'[r].old)
      BY <1>1, <1>2, <2>3
    <3>2. QED BY <3>1 DEF Follows, Behind
  <2>4. QED BY <1>1, <2>1, <2>2, <2>3 DEF Follows
<1>3. \A q \in Requests : KnowsRow(req[q])'
  BY <1>1 DEF KnowsRow
<1>4. Threaded' = Threaded
  BY DEF Threaded
<1>5. QED BY <1>2, <1>3, <1>4 DEF ThreadsFollow

\* Where a message or an emoji reached one thread, that thread tells the row now, and the
\* others are as far as they were.
LEMMA FollowsOn ==
    ASSUME OneAtATime, TypeInv, ThreadsFollow, trouble \subseteq {"reload"},
           NEW r \in Requests, NEW w \in Working \cup {Idle}, NEW c \in Channels,
           req' = [req EXCEPT ![r] = w], UNCHANGED row, KnowsRow(w),
           Threaded' \subseteq Threaded \cup {c},
           \A d \in Threaded \ {c} : threads'[d] = threads[d],
           threads'[c].told = row,
           row.ended => threads'[c].marked \/ (w.pc = "mark" /\ w.round.channel = c),
           \A d \in Threaded \ {c} : ~(req[r].pc = "mark" /\ req[r].round.channel = d),
           \A d \in Threaded \ {c} : Behind(req[r], d) => Behind(w, d) /\ w.old = req[r].old
    PROVE  ThreadsFollow'
<1>1. \A q \in Requests : q = r /\ req'[q] = w
  BY DEF OneAtATime, TypeInv, TypeOK
<1>2. ASSUME NEW d \in Threaded \ {c} PROVE Follows(d)'
  <2>1. Follows(d)
    BY <1>2 DEF ThreadsFollow
  <2>2. CASE threads[d].told = row /\ (row.ended => threads[d].marked)
    BY <1>2, <2>2 DEF Follows
  <2>3. CASE Behind(req[r], d) /\ Tells(threads[d], req[r].old)
    <3>1. Behind(req'[r], d) /\ Tells(threads'[d], req'[r].old)
      BY <1>1, <1>2, <2>3
    <3>2. QED BY <3>1 DEF Follows, Behind
  <2>4. QED BY <1>1, <1>2, <2>1, <2>2, <2>3 DEF Follows
<1>3. Follows(c)'
  BY <1>1 DEF Follows
<1>4. \A q \in Requests : KnowsRow(req[q])'
  BY <1>1 DEF KnowsRow
<1>5. QED BY <1>2, <1>3, <1>4 DEF ThreadsFollow

\* A loop that goes on with todo is behind with the threads in it.
LEMMA LoopIsBehind ==
    ASSUME NEW r \in Requests, req[r] \in Working, NEW todo \in SUBSET Round,
           NextOf(r, todo), KnowsRow(req[r]), req[r].pc \notin {"idle", "old", "save"}
    PROVE  \E w \in Working \cup {Idle} :
             /\ req' = [req EXCEPT ![r] = w]
             /\ KnowsRow(w)
             /\ req[r].mode = "reply" => \A d \in ChannelsOf(todo) : Behind(w, d) /\ w.old = req[r].old
<1> DEFINE on == [req[r] EXCEPT !.pc = req[r].mode, !.todo = todo]
           w  == IF todo = {} THEN Idle ELSE on
<1>1. on \in Working
  BY LoopGoesOn
<1>2. req[r].mode \in {"post", "reply"}
  BY DEF Working
<1>3. /\ on.pc = req[r].mode /\ on.todo = todo
      /\ on.old = req[r].old /\ on.outage = req[r].outage
  BY DEF Working
<1>4. req' = [req EXCEPT ![r] = w]
  BY DEF NextOf
<1> HIDE DEF on
<1>5. KnowsRow(on)
  BY <1>2, <1>3 DEF KnowsRow
<1>6. KnowsRow(Idle)
  BY DEF KnowsRow, Idle
<1>7. req[r].mode = "reply" => \A d \in ChannelsOf(todo) : Behind(w, d) /\ w.old = req[r].old
  BY <1>3 DEF Behind, ChannelsOf
<1>8. QED BY <1>1, <1>4, <1>5, <1>6, <1>7

\* A reply brings a thread up to date, also one that was.
LEMMA ReplyCatchesUp ==
    ASSUME NEW told \in Outage, NEW new \in Outage, NEW old, told = new \/ told = old
    PROVE  UpdateMessage(told, old, new) = new
  BY DEF UpdateMessage, Outage

LEMMA FollowsStep ==
    ASSUME OneAtATime, TypeInv, PostsToStrangers, ThreadsFollow, [Next]_vars
    PROVE  ThreadsFollow'
<1>t. TypeOK
  BY DEF TypeInv
<1> SUFFICES ASSUME trouble' \subseteq {"reload"} PROVE ThreadsFollow'
  BY DEF ThreadsFollow
<1>n. "slack" # "reload" /\ "database" # "reload"
  OBVIOUS
<1>f. ~Trouble("slack") /\ ~Trouble("database")
  BY <1>n DEF Trouble
<1>w. ASSUME NEW r \in Requests, req[r].pc # "idle"
      PROVE  /\ req[r] \in Working /\ Consistent(req[r], Threaded)
             /\ ToStrangers(req[r], Threaded) /\ row # NoOutage
  BY <1>w, ActiveIsWorking DEF PostsToStrangers
<1>1. ASSUME NEW r \in Requests, CreateOutage(r) PROVE ThreadsFollow'
  <2>1. Threaded' = {}
    BY <1>1 DEF CreateOutage, PostsToStrangers, Threaded
  <2>2. PICK severity \in Levels :
          /\ row' = [severity |-> severity, ended |-> FALSE]
          /\ Start(r, "report", [severity |-> severity, ended |-> FALSE])
    BY <1>1 DEF CreateOutage
  <2>3. req'[r].pc = "report" /\ req'[r].outage = row'
    BY <1>t, <2>2 DEF Start, TypeOK
  <2>4. QED BY <2>1, <2>3 DEF ThreadsFollow, KnowsRow, OneAtATime
<1>2. ASSUME NEW r \in Requests, UpdateOutage(r) PROVE ThreadsFollow'
  <2>1. PICK outage \in Outage : Start(r, "old", outage)
    BY <1>2 DEF UpdateOutage
  <2> DEFINE w == [pc |-> "old", mode |-> "post", outage |-> outage, old |-> NoOutage,
                   channels |-> {}, todo |-> {}, round |-> NoThread]
  <2>2. w \in Working /\ w.pc = "old"
    BY Fresh
  <2>3. req' = [req EXCEPT ![r] = w] /\ req[r].pc = "idle"
    BY <2>1 DEF Start, Idle
  <2> HIDE DEF w
  <2>4. KnowsRow(w) /\ \A c \in Threaded : ~Behind(req[r], c)
    BY <2>2, <2>3 DEF KnowsRow, Behind
  <2>5. UNCHANGED <<row, threads, trouble>>
    BY <1>2 DEF UpdateOutage
  <2>6. QED BY <2>2, <2>3, <2>4, <2>5, FollowsStay
<1>3. ASSUME NEW r \in Requests, ReadOld(r) PROVE ThreadsFollow'
  <2> DEFINE w == [req[r] EXCEPT !.old = row, !.pc = "save"]
  <2>1. req[r] \in Working /\ req[r].pc = "old"
    BY <1>3, <1>w DEF ReadOld
  <2>2. w \in Working /\ w.pc = "save" /\ w.old = row
    BY <1>t, <2>1 DEF Working, TypeOK
  <2>3. req' = [req EXCEPT ![r] = w] /\ UNCHANGED <<row, threads, trouble>>
    BY <1>3 DEF ReadOld
  <2> HIDE DEF w
  <2>4. KnowsRow(w) /\ \A c \in Threaded : ~Behind(req[r], c)
    BY <2>1, <2>2 DEF KnowsRow, Behind
  <2>5. QED BY <2>1, <2>2, <2>3, <2>4, FollowsStay
<1>4. ASSUME NEW r \in Requests, SaveOutage(r) PROVE ThreadsFollow'
  <2>1. req[r] \in Working /\ req[r].pc = "save" /\ trouble \subseteq {"reload"}
    BY <1>4, <1>w DEF SaveOutage
  <2>2. req[r].old = row
    BY <2>1 DEF ThreadsFollow, KnowsRow
  <2>3. /\ req'[r].pc = "threads" /\ req'[r].old = row /\ req'[r].outage = row'
        /\ UNCHANGED threads
    BY <1>4, <1>t, <2>1, <2>2 DEF SaveOutage, Goto, TypeOK, Working
  <2>4. \A q \in Requests : q = r
    BY DEF OneAtATime
  <2>5. ASSUME NEW c \in Threaded PROVE Follows(c)'
    <3>1. Follows(c)
      BY <2>1 DEF ThreadsFollow
    <3>2. Tells(threads[c], row)
      BY <2>1, <2>4, <3>1 DEF Follows, Behind, Tells
    <3>3. Behind(req'[r], c) /\ Tells(threads'[c], req'[r].old)
      BY <2>3, <3>2 DEF Behind
    <3>4. QED BY <3>3 DEF Follows, Behind
  <2>6. \A q \in Requests : KnowsRow(req[q])'
    BY <2>3, <2>4 DEF KnowsRow
  <2>7. Threaded' = Threaded
    BY <2>3 DEF Threaded
  <2>8. QED BY <2>5, <2>6, <2>7 DEF ThreadsFollow
<1>5. ASSUME NEW r \in Requests, ReportOutageUpdate(r) PROVE ThreadsFollow'
  <2> DEFINE w == IF Threaded = {} THEN [req[r] EXCEPT !.pc = "report"]
                  ELSE [req[r] EXCEPT !.pc = "reply", !.mode = "reply", !.channels = ThreadRounds,
                                      !.todo = ThreadRounds]
  <2>1. req[r] \in Working /\ req[r].pc = "threads"
    BY <1>5, <1>w DEF ReportOutageUpdate
  <2>2. req' = [req EXCEPT ![r] = w] /\ UNCHANGED <<row, threads, trouble>>
    BY <1>5, <1>t DEF ReportOutageUpdate, TypeOK
  <2>3. trouble \subseteq {"reload"} => req[r].outage = row
    BY <2>1 DEF ThreadsFollow, KnowsRow
  <2>4. ThreadRounds \in SUBSET Round /\ ChannelsOf(ThreadRounds) = Threaded
    BY <1>t, ListTypes
  <2>5. w \in Working /\ w.outage = req[r].outage /\ w.old = req[r].old
    BY <2>1, <2>4 DEF Working
  <2>6. w.pc \in {"report", "reply"} /\ (Threaded # {} => w.pc = "reply" /\ w.todo = ThreadRounds)
    BY <2>1 DEF Working
  <2> HIDE DEF w
  <2>7. (trouble \subseteq {"reload"} => KnowsRow(w)) /\ \A c \in Threaded : Behind(w, c)
    BY <2>3, <2>4, <2>5, <2>6 DEF KnowsRow, Behind
  <2>8. QED BY <2>1, <2>2, <2>5, <2>7, FollowsStay
<1>6. ASSUME NEW r \in Requests, ReportOutage(r) \/ LookUpComponent(r) PROVE ThreadsFollow'
  <2>1. req[r] \in Working /\ req[r].pc \in {"report", "check"}
    BY <1>6, <1>w DEF ReportOutage, LookUpComponent
  <2> DEFINE channels == FilterChannelsBySeverity(reporting, req[r].outage.severity)
             check == [req[r] EXCEPT !.pc = "check", !.channels = channels, !.todo = channels]
             post  == [req[r] EXCEPT !.pc = "post"]
  <2>2. channels \in SUBSET Round
    BY <1>t, ListTypes
  <2> HIDE DEF channels
  <2>3. check \in Working /\ check.pc = "check" /\ check.outage = req[r].outage
    BY <2>1, <2>2 DEF Working
  <2>4. post \in Working /\ post.pc = "post" /\ post.outage = req[r].outage
    BY <2>1 DEF Working
  <2>5. req' = [req EXCEPT ![r] = Idle] \/ req' = [req EXCEPT ![r] = check]
          \/ req' = [req EXCEPT ![r] = post]
    BY <1>t, <1>6 DEF ReportOutage, LookUpComponent, Goto, TypeOK, channels
  <2> HIDE DEF check, post
  <2>6. PICK w \in {Idle, check, post} : req' = [req EXCEPT ![r] = w]
    BY <2>5
  <2>7. w.pc = "idle" \/ (w.pc \in {"check", "post"} /\ w.outage = req[r].outage)
    BY <2>3, <2>4, <2>6 DEF Idle
  <2>8. trouble \subseteq {"reload"} => KnowsRow(w)
    BY <2>1, <2>7 DEF ThreadsFollow, KnowsRow
  <2>9. \A c \in Threaded : ~Behind(req[r], c)
    BY <2>1 DEF Behind
  <2>10. UNCHANGED <<row, threads, trouble>>
    BY <1>6 DEF ReportOutage, LookUpComponent
  <2>11. w \in Working \cup {Idle}
    BY <2>3, <2>4, <2>6
  <2>12. QED BY <2>1, <2>6, <2>8, <2>9, <2>10, <2>11, FollowsStay
<1>7. ASSUME NEW r \in Requests, PostMessage(r) PROVE ThreadsFollow'
  <2>1. req[r] \in Working /\ req[r].pc = "post"
    BY <1>7, <1>w DEF PostMessage
  <2>2. PICK e \in req[r].todo :
          req' = [req EXCEPT ![r].round = e, ![r].pc = "store"] /\ UNCHANGED trouble
    BY <1>7, <1>f DEF PostMessage, First
  <2> DEFINE w == [req[r] EXCEPT !.round = e, !.pc = "store"]
  <2>3. req' = [req EXCEPT ![r] = w] /\ UNCHANGED <<row, threads>>
    BY <1>t, <1>7, <2>2 DEF TypeOK, PostMessage
  <2>4. e \in Round
    BY <2>1, <2>2 DEF Working
  <2>5. w \in Working /\ w.pc = "store" /\ w.outage = req[r].outage
    BY <2>1, <2>4 DEF Working
  <2> HIDE DEF w
  <2>6. (trouble \subseteq {"reload"} => KnowsRow(w)) /\ \A d \in Threaded : ~Behind(req[r], d)
    BY <2>1, <2>5 DEF ThreadsFollow, KnowsRow, Behind
  <2>7. QED BY <2>1, <2>2, <2>3, <2>5, <2>6, FollowsStay
<1>8. ASSUME NEW r \in Requests, CreateThread(r) PROVE ThreadsFollow'
  <2> DEFINE e      == req[r].round
             c      == e.channel
             thread == [told |-> req[r].outage, marked |-> FALSE]
             mark   == [req[r] EXCEPT !.pc = "mark"]
  <2>1. /\ req[r] \in Working /\ req[r].pc = "store" /\ UNCHANGED row
        /\ e \in req[r].todo /\ e \in Round /\ c \in Channels
    BY <1>8, <1>w DEF CreateThread, Consistent, Working, Round
  <2>2. trouble \subseteq {"reload"} /\ UNCHANGED trouble
    BY <1>8, <1>f DEF CreateThread
  <2>3. KnowsRow(req[r]) /\ req[r].outage = row
    BY <2>1, <2>2 DEF ThreadsFollow, KnowsRow
  <2>4. req[r].todo \ {e} \in SUBSET Round
    BY <2>1 DEF Working
  <2>5. \A d \in Threaded : ~Behind(req[r], d)
    BY <2>1 DEF Behind
  <2>6. ASSUME threads[c] = NoThread, threads' = [threads EXCEPT ![c] = thread],
               IF req[r].outage.ended THEN Goto(r, "mark") ELSE NextOf(r, req[r].todo \ {e})
        PROVE  ThreadsFollow'
    <3>1. PICK w \in Working \cup {Idle} :
            /\ req' = [req EXCEPT ![r] = w]
            /\ KnowsRow(w)
            /\ row.ended => w.pc = "mark" /\ w.round.channel = c
      <4>1. CASE row.ended
        <5>1. mark \in Working /\ mark.pc = "mark" /\ mark.round = e /\ mark.outage = row
          BY <2>1, <2>3 DEF Working
        <5>2. req' = [req EXCEPT ![r] = mark]
          BY <1>t, <2>3, <2>6, <4>1 DEF Goto, TypeOK
        <5> HIDE DEF mark
        <5>3. KnowsRow(mark)
          BY <4>1, <5>1 DEF KnowsRow
        <5>4. QED BY <5>1, <5>2, <5>3
      <4>2. CASE ~row.ended
        <5>1. NextOf(r, req[r].todo \ {e})
          BY <2>3, <2>6, <4>2
        <5>2. QED BY <2>1, <2>3, <2>4, <4>2, <5>1, LoopIsBehind
      <4>3. QED BY <4>1, <4>2
    <3>2. threads'[c].told = row /\ \A d \in Threaded \ {c} : threads'[d] = threads[d]
      BY <1>t, <2>1, <2>3, <2>6 DEF TypeOK, Threaded
    <3>3. Threaded' \subseteq Threaded \cup {c}
      BY <1>t, <2>6 DEF TypeOK, Threaded
    <3> HIDE DEF e, c, thread
    <3>4. QED BY <2>1, <2>2, <2>5, <3>1, <3>2, <3>3, FollowsOn
  <2>7. ASSUME UNCHANGED threads, NextOf(r, req[r].todo \ {e})
        PROVE  ThreadsFollow'
    <3>1. PICK w \in Working \cup {Idle} : req' = [req EXCEPT ![r] = w] /\ KnowsRow(w)
      BY <2>1, <2>3, <2>4, <2>7, LoopIsBehind
    <3> HIDE DEF e, c
    <3>2. QED BY <2>1, <2>2, <2>5, <2>7, <3>1, FollowsStay
  <2>8. QED BY <1>8, <1>f, <2>6, <2>7 DEF CreateThread
<1>9. ASSUME NEW r \in Requests, ReplyMessage(r) PROVE ThreadsFollow'
  <2>1. /\ req[r] \in Working /\ req[r].pc = "reply" /\ req[r].mode = "reply"
        /\ ChannelsOf(req[r].todo) \subseteq Threaded
    BY <1>9, <1>w DEF ReplyMessage, Consistent
  <2>2. PICK e \in req[r].todo :
          /\ threads' = [threads EXCEPT ![e.channel].told = UpdateMessage(@, req[r].old, req[r].outage)]
          /\ IF req[r].outage.ended
             THEN req' = [req EXCEPT ![r].round = e, ![r].pc = "mark"]
             ELSE NextOf(r, req[r].todo \ {e})
          /\ UNCHANGED trouble
    BY <1>9, <1>f DEF ReplyMessage, First
  <2> DEFINE c    == e.channel
             told == UpdateMessage(threads[c].told, req[r].old, req[r].outage)
             mark == [req[r] EXCEPT !.round = e, !.pc = "mark"]
  <2>3. KnowsRow(req[r]) /\ req[r].outage = row /\ UNCHANGED row
    BY <1>9, <2>1, <2>2 DEF ThreadsFollow, KnowsRow, ReplyMessage
  <2>4. /\ e \in Round /\ req[r].todo \ {e} \in SUBSET Round /\ c \in ChannelsOf(req[r].todo)
        /\ c \in Threaded /\ c \in Channels /\ threads[c] \in Thread
    BY <1>t, <2>1, <2>2 DEF ChannelsOf, Threaded, TypeOK, Working
  <2>5. told = row
    <3>1. Follows(c)
      BY <2>2, <2>4 DEF ThreadsFollow
    <3>2. threads[c].told = row \/ threads[c].told = req[r].old
      BY <2>1, <3>1 DEF Follows, Tells, OneAtATime
    <3>3. threads[c].told \in Outage /\ row \in Outage
      BY <2>1, <2>3, <2>4 DEF Thread, Working
    <3>4. QED BY <2>3, <3>2, <3>3, ReplyCatchesUp
  <2>6. /\ threads' = [threads EXCEPT ![c] = [threads[c] EXCEPT !.told = told]]
        /\ Threaded' = Threaded
    BY <1>t, <1>9, <2>2, <2>4, ThreadsStay DEF TypeOK
  <2> HIDE DEF told
  <2>7. threads'[c].told = row /\ \A d \in Threaded \ {c} : threads'[d] = threads[d]
    BY <1>t, <2>4, <2>5, <2>6 DEF TypeOK, Threaded, Thread
  <2> HIDE DEF c
  <2>8. PICK w \in Working \cup {Idle} :
          /\ req' = [req EXCEPT ![r] = w]
          /\ KnowsRow(w)
          /\ row.ended => w.pc = "mark" /\ w.round.channel = c
          /\ \A d \in ChannelsOf(req[r].todo \ {e}) \ {c} : Behind(w, d) /\ w.old = req[r].old
    <3>1. CASE row.ended
      <4>1. /\ mark \in Working /\ mark.pc = "mark" /\ mark.round = e /\ mark.outage = row
            /\ mark.mode = "reply" /\ mark.todo = req[r].todo /\ mark.old = req[r].old
        BY <2>1, <2>3, <2>4 DEF Working
      <4>2. req' = [req EXCEPT ![r] = mark]
        BY <1>t, <2>2, <2>3, <3>1 DEF TypeOK
      <4> HIDE DEF mark
      <4>3. KnowsRow(mark) /\ \A d \in ChannelsOf(req[r].todo \ {e}) \ {c} : Behind(mark, d)
        BY <3>1, <4>1 DEF KnowsRow, Behind, c
      <4>4. QED BY <4>1, <4>2, <4>3 DEF c
    <3>2. CASE ~row.ended
      <4>1. NextOf(r, req[r].todo \ {e})
        BY <2>2, <2>3, <3>2
      <4>2. QED BY <2>1, <2>3, <2>4, <3>2, <4>1, LoopIsBehind
    <3>3. QED BY <3>1, <3>2
  <2>9. \A d \in Threaded \ {c} : Behind(req[r], d) => d \in ChannelsOf(req[r].todo \ {e}) \ {c}
    BY <2>1 DEF Behind, ChannelsOf, c
  <2>10. trouble \subseteq {"reload"}
    BY <2>2
  <2>11. QED BY <2>1, <2>3, <2>4, <2>6, <2>7, <2>8, <2>9, <2>10, FollowsOn
<1>10. ASSUME NEW r \in Requests, AddResolvedEmoji(r) PROVE ThreadsFollow'
  <2> DEFINE e == req[r].round
             c == e.channel
  <2>1. /\ req[r] \in Working /\ req[r].pc = "mark" /\ c \in Threaded /\ c \in Channels
        /\ threads[c] \in Thread
    BY <1>t, <1>10, <1>w DEF AddResolvedEmoji, Consistent, Threaded, TypeOK
  <2>2. /\ threads' = [threads EXCEPT ![c].marked = TRUE]
        /\ NextOf(r, req[r].todo \ {e})
        /\ UNCHANGED <<row, trouble>>
    BY <1>10, <1>f DEF AddResolvedEmoji
  <2>3. KnowsRow(req[r])
    BY <2>1, <2>2 DEF ThreadsFollow
  <2>4. threads[c].told = row
    <3>1. Follows(c) /\ ~Behind(req[r], c)
      BY <2>1, <2>2 DEF ThreadsFollow, Behind
    <3>2. QED BY <3>1 DEF Follows, OneAtATime
  <2>5. threads' = [threads EXCEPT ![c] = [threads[c] EXCEPT !.marked = TRUE]]
    BY <1>t, <2>1, <2>2 DEF TypeOK
  <2>6. Threaded' = Threaded
    BY <1>10, ThreadsStay
  <2>7. req[r].todo \ {e} \in SUBSET Round
    BY <2>1 DEF Working
  <2>8. PICK w \in Working \cup {Idle} :
          /\ req' = [req EXCEPT ![r] = w]
          /\ KnowsRow(w)
          /\ req[r].mode = "reply" =>
               \A d \in ChannelsOf(req[r].todo \ {e}) : Behind(w, d) /\ w.old = req[r].old
    BY <2>1, <2>2, <2>3, <2>7, LoopIsBehind
  <2>9. \A d \in Threaded \ {c} : Behind(req[r], d) => Behind(w, d) /\ w.old = req[r].old
    BY <2>1, <2>8 DEF Behind
  <2> HIDE DEF e, c
  <2>10. /\ threads'[c].told = row /\ threads'[c].marked
         /\ \A d \in Threaded \ {c} : threads'[d] = threads[d]
    BY <1>t, <2>1, <2>4, <2>5 DEF TypeOK, Threaded, Thread
  <2>11. QED BY <2>2, <2>1, <2>6, <2>8, <2>9, <2>10, FollowsOn DEF e, c
<1>11. CASE \E r \in Requests : Fail(r)
  BY <1>11, <1>f DEF Fail
<1>12. CASE ReloadConfig \/ UNCHANGED vars
  <2>1. UNCHANGED <<row, threads, req>> /\ trouble \subseteq {"reload"}
    BY <1>12 DEF ReloadConfig, Trouble, vars
  <2>2. QED BY <2>1 DEF ThreadsFollow, Follows, Behind, Threaded, Tells, KnowsRow
<1>13. QED
  BY <1>1, <1>2, <1>3, <1>4, <1>5, <1>6, <1>7, <1>8, <1>9, <1>10, <1>11, <1>12, Zenon DEF Next

\* As long as requests follow each other and calls and statements succeed, threads that are
\* told only what changed say what the row holds (buildOutageUpdateMessage) and carry the
\* emoji of a resolved outage, for any channels and however the configuration changes.
THEOREM ThreadsAreTrue == ASSUME OneAtATime PROVE Spec => []ThreadsTellTheRow
<1>1. Init => TypeInv /\ PostsToStrangers /\ ThreadsFollow
  BY TypeInit DEF Init, PostsToStrangers, Threaded, ThreadsFollow, KnowsRow, Idle
<1>2. /\ TypeInv /\ PostsToStrangers /\ ThreadsFollow /\ [Next]_vars
      => TypeInv' /\ PostsToStrangers' /\ ThreadsFollow'
  BY TypeStep, StrangersStep, FollowsStep
<1>3. ThreadsFollow => ThreadsTellTheRow
  <2> SUFFICES ASSUME ThreadsFollow, Quiet, trouble \subseteq {"reload"}, NEW c \in Threaded
               PROVE  threads[c].told = row /\ (row.ended => threads[c].marked)
    BY DEF ThreadsTellTheRow
  <2>1. Idle.pc = "idle"
    BY DEF Idle
  <2>2. Follows(c)
    BY DEF ThreadsFollow
  <2>3. QED BY <2>1, <2>2 DEF Quiet, Follows, Behind
<1>4. QED BY <1>1, <1>2, <1>3, PTL DEF Spec
--------------------------------------------------------------------------------
(***************************************************************************)
(* As long as nothing has gone wrong, an outage without threads is below    *)
(* every threshold, or its request is on the way to post it.                *)
(***************************************************************************)
Unknown ==
    /\ row # NoOutage /\ Threaded = {}
    /\ \E i \in DOMAIN reporting : Reaches(row.severity, reporting[i])

OnItsWay == \E r \in Requests : req[r].pc \in {"threads", "report", "check", "post", "store"}

SomeoneIsTold == trouble = {} => reporting # NoComponent /\ (Unknown => OnItsWay)

LEMMA ToldStep ==
    ASSUME OneAtATime, TypeInv, PostsToStrangers, ThreadsFollow, SomeoneIsTold, [Next]_vars
    PROVE  SomeoneIsTold'
<1>t. TypeOK
  BY DEF TypeInv
<1> SUFFICES ASSUME trouble' = {} PROVE SomeoneIsTold'
  BY DEF SomeoneIsTold
<1>f. ~Trouble("slack") /\ ~Trouble("database") /\ ~Trouble("reload")
  BY DEF Trouble
<1>w. ASSUME NEW r \in Requests, req[r].pc # "idle"
      PROVE  /\ req[r] \in Working /\ Consistent(req[r], Threaded)
             /\ ToStrangers(req[r], Threaded)
  BY <1>w, ActiveIsWorking DEF PostsToStrangers
<1>0. trouble = {} /\ UNCHANGED reporting
  <2>1. CASE UNCHANGED <<trouble, reporting>>
    BY <2>1
  <2>2. QED
    BY <1>f, <2>1
       DEF Next, CreateOutage, UpdateOutage, ReadOld, SaveOutage, ReportOutageUpdate, ReportOutage,
           LookUpComponent, PostMessage, CreateThread, ReplyMessage, AddResolvedEmoji, Fail,
           ReloadConfig, vars
<1>r. reporting # NoComponent /\ (Unknown => OnItsWay)
  BY <1>0 DEF SomeoneIsTold
\* A step after which the request is on its way, or after which there is a thread.
<1>a. ASSUME NEW r \in Requests, req'[r].pc \in {"threads", "report", "check", "post", "store"}
      PROVE  SomeoneIsTold'
  BY <1>a, <1>0, <1>r DEF SomeoneIsTold, OnItsWay
<1>b. ASSUME Threaded' # {} PROVE SomeoneIsTold'
  BY <1>b, <1>0, <1>r DEF SomeoneIsTold, Unknown
<1>1. ASSUME NEW r \in Requests, CreateOutage(r) \/ SaveOutage(r) PROVE SomeoneIsTold'
  <2>1. CASE CreateOutage(r)
    <3>1. req'[r].pc = "report"
      BY <1>t, <2>1 DEF CreateOutage, Start, TypeOK
    <3>2. QED BY <1>a, <3>1
  <2>2. CASE SaveOutage(r)
    <3>1. req[r] \in Working
      BY <1>w, <2>2 DEF SaveOutage
    <3>2. req'[r].pc = "threads"
      BY <1>t, <2>2, <3>1 DEF SaveOutage, Goto, TypeOK, Working
    <3>3. QED BY <1>a, <3>2
  <2>3. QED BY <1>1, <2>1, <2>2
<1>2. ASSUME NEW r \in Requests, UpdateOutage(r) \/ ReadOld(r) PROVE SomeoneIsTold'
  <2>1. ~OnItsWay
    BY <1>2 DEF UpdateOutage, ReadOld, Start, Idle, OnItsWay, OneAtATime
  <2>2. UNCHANGED <<row, threads>>
    BY <1>2 DEF UpdateOutage, ReadOld
  <2>3. QED BY <1>0, <1>r, <2>1, <2>2 DEF SomeoneIsTold, Unknown, Threaded
<1>3. ASSUME NEW r \in Requests, ReportOutageUpdate(r) PROVE SomeoneIsTold'
  <2>1. Threaded' = Threaded
    BY <1>3 DEF ReportOutageUpdate, Threaded
  <2>2. CASE Threaded # {}
    BY <1>b, <2>1, <2>2
  <2>3. CASE Threaded = {}
    <3>1. req[r] \in Working /\ req' = [req EXCEPT ![r] = [req[r] EXCEPT !.pc = "report"]]
      BY <1>3, <1>w, <2>3, <1>t DEF ReportOutageUpdate, TypeOK
    <3>2. req'[r].pc = "report"
      BY <1>t, <3>1 DEF TypeOK, Working
    <3>3. QED BY <1>a, <3>2
  <2>4. QED BY <2>2, <2>3
<1>4. ASSUME NEW r \in Requests, ReportOutage(r) PROVE SomeoneIsTold'
  <2> DEFINE channels == FilterChannelsBySeverity(reporting, req[r].outage.severity)
  <2>1. req[r] \in Working /\ req[r].pc = "report"
    BY <1>4, <1>w DEF ReportOutage
  <2>2. CASE channels = {}
    <3>1. req[r].outage = row
      BY <1>0, <2>1 DEF ThreadsFollow, KnowsRow
    <3>2. ~Unknown
      BY <1>r, <2>2, <3>1 DEF FilterChannelsBySeverity, Unknown
    <3>3. UNCHANGED <<row, threads>>
      BY <1>4 DEF ReportOutage
    <3>4. QED BY <1>0, <1>r, <3>2, <3>3 DEF SomeoneIsTold, Unknown, Threaded
  <2>3. CASE channels # {}
    <3>1. req' = [req EXCEPT ![r] = [req[r] EXCEPT !.pc = "check", !.channels = channels,
                                                              !.todo = channels]]
      BY <1>t, <1>4, <2>3 DEF ReportOutage, TypeOK
    <3> HIDE DEF channels
    <3>2. req'[r].pc = "check"
      BY <1>t, <2>1, <3>1 DEF TypeOK, Working
    <3>3. QED BY <1>a, <3>2
  <2>4. QED BY <2>2, <2>3
<1>5. ASSUME NEW r \in Requests, LookUpComponent(r) \/ PostMessage(r) PROVE SomeoneIsTold'
  <2>1. req[r] \in Working
    BY <1>5, <1>w DEF LookUpComponent, PostMessage
  <2>2. CASE LookUpComponent(r)
    <3>1. req'[r].pc = "post"
      BY <1>r, <1>t, <2>1, <2>2 DEF LookUpComponent, Goto, TypeOK, Working
    <3>2. QED BY <1>a, <3>1
  <2>3. CASE PostMessage(r)
    <3>1. PICK e \in req[r].todo :
            req' = [req EXCEPT ![r] = [req[r] EXCEPT !.round = e, !.pc = "store"]]
      BY <1>f, <1>t, <2>3 DEF PostMessage, First, TypeOK
    <3>2. req'[r].pc = "store"
      BY <1>t, <2>1, <3>1 DEF TypeOK, Working
    <3>3. QED BY <1>a, <3>2
  <2>4. QED BY <1>5, <2>2, <2>3
<1>6. ASSUME NEW r \in Requests, CreateThread(r) PROVE SomeoneIsTold'
  <2> DEFINE c      == req[r].round.channel
             thread == [told |-> req[r].outage, marked |-> FALSE]
  <2>1. req[r] \in Working /\ c \in Channels
    BY <1>6, <1>w DEF CreateThread, Consistent, Working, Round
  <2>2. CASE threads' = [threads EXCEPT ![c] = thread]
    <3>1. thread \in Thread
      BY <2>1 DEF Working, Thread
    <3> HIDE DEF thread
    <3>2. Threaded' # {}
      BY <1>t, <2>1, <2>2, <3>1, SlackValuesAssumption DEF TypeOK, Threaded
    <3>3. QED BY <1>b, <3>2
  <2>3. CASE threads[c] # NoThread /\ UNCHANGED threads
    <3>1. Threaded' # {}
      BY <2>1, <2>3 DEF Threaded
    <3>2. QED BY <1>b, <3>1
  <2>4. QED BY <1>6, <1>f, <2>2, <2>3 DEF CreateThread
<1>7. ASSUME NEW r \in Requests, ReplyMessage(r) \/ AddResolvedEmoji(r) PROVE SomeoneIsTold'
  <2>1. Threaded # {}
    <3>1. CASE ReplyMessage(r)
      <4>1. ChannelsOf(req[r].todo) \subseteq Threaded
        BY <1>w, <3>1 DEF ReplyMessage, Consistent
      <4>2. PICK e \in req[r].todo : TRUE
        BY <3>1 DEF ReplyMessage, First
      <4>3. QED BY <4>1, <4>2 DEF ChannelsOf
    <3>2. CASE AddResolvedEmoji(r)
      BY <1>w, <3>2 DEF AddResolvedEmoji, Consistent
    <3>3. QED BY <1>7, <3>1, <3>2
  <2>2. QED BY <1>b, <1>7, <2>1, ThreadsStay
<1>8. CASE (\E r \in Requests : Fail(r)) \/ ReloadConfig
  BY <1>8, <1>f DEF Fail, ReloadConfig
<1>9. CASE UNCHANGED vars
  BY <1>0, <1>r, <1>9 DEF vars, SomeoneIsTold, Unknown, OnItsWay, Threaded
<1>10. QED
  BY <1>1, <1>2, <1>3, <1>4, <1>5, <1>6, <1>7, <1>8, <1>9, Zenon DEF Next

\* As long as requests follow each other and nothing has gone wrong, an outage that reaches
\* the threshold of some entry has a thread somewhere, also when it was created below all
\* of them and upgraded later (ReportOutageUpdate reports it as new), for any channels.
THEOREM SomeoneIsAlwaysTold == ASSUME OneAtATime PROVE Spec => []SomeoneKnows
<1>1. Init => TypeInv /\ PostsToStrangers /\ ThreadsFollow /\ SomeoneIsTold
  BY TypeInit DEF Init, PostsToStrangers, Threaded, ThreadsFollow, KnowsRow, Idle, SomeoneIsTold,
                  Unknown
<1>2. /\ TypeInv /\ PostsToStrangers /\ ThreadsFollow /\ SomeoneIsTold /\ [Next]_vars
      => TypeInv' /\ PostsToStrangers' /\ ThreadsFollow' /\ SomeoneIsTold'
  BY TypeStep, StrangersStep, FollowsStep, ToldStep
<1>3. SomeoneIsTold => SomeoneKnows
  <2>1. Idle.pc = "idle"
    BY DEF Idle
  <2>2. QED BY <2>1 DEF SomeoneIsTold, SomeoneKnows, AllWell, Quiet, Unknown, OnItsWay
<1>4. QED BY <1>1, <1>2, <1>3, PTL DEF Spec
================================================================================
