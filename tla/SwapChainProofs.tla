-------------------------- MODULE SwapChainProofs --------------------------
(***************************************************************************)
(* Theorems about SwapChain, for any number of chains and pictures: types, *)
(* the nesting of lifetimes, and the order of pictures.  Context says what *)
(* exists while the monitor comes, works and goes; Callbacks what each     *)
(* place of a callback knows; Processors which chain has a thread; Pending *)
(* where the numbers of the pictures not sent yet stand to the last sent.  *)
(***************************************************************************)
EXTENDS SwapChain, TLAPS

\* The context and its cursor thread exist from CreateMonitor to the end of Cleanup.
Context ==
    /\ adapter \in {"off", "init", "create", "failed"} => context = "none"
    /\ adapter = "arrive" => context = "created"
    /\ context = "none" => cursor = "none"
    /\ context \in {"created", "arrived"} => cursor # "none"
    /\ context = "gone" => cursor = "ended"
    /\ context # "arrived" => current = 0
    /\ cursor = "told" => at = "joinCursor"
    /\ cursor = "ended" => (op = "cleanup" /\ at # "device") \/ context = "gone"

\* What is known where a callback is.
Callbacks ==
    /\ at # "idle" => adapter = "up" /\ op # "none"
    /\ (at # "idle" /\ op \in {"assign", "unassign"}) => context = "arrived" /\ cursor = "runs"
    /\ (at # "idle" /\ op = "cleanup") => context \in {"created", "arrived"}
    /\ (op = "cleanup" /\ at \in {"stop", "join", "free"}) => cursor = "ended"
    /\ (op = "cleanup" /\ at = "idle") => context = "gone"
    /\ at = "joinCursor" => op = "cleanup"
    /\ at = "join" => current # 0
    /\ at = "device" => op = "assign" /\ current = 0
    /\ at = "free" => op = "cleanup" /\ current = 0

\* A chain that has been assigned and waits for its processor.
Waiting(c) == op = "assign" /\ at \in {"stop", "join", "device"} /\ c = assigned

\* Only the chain of the processor has a running thread; a chain the OS has not
\* handed over, or that still waits, has none and is not deleted.
Processors ==
    /\ (op = "assign" /\ at \in {"stop", "join", "device"}) => assigned # 0
    /\ \A c \in Chains :
         /\ chain[c].thread \in Running => current = c /\ chain[c].deleted = 0
         /\ chain[c].thread = "ended" => chain[c].deleted = 1
         /\ (c > assigned \/ Waiting(c)) => chain[c].thread = "none" /\ chain[c].deleted = 0

Nesting == TypeOK /\ Context /\ Callbacks /\ Processors

\* The pictures of a chain that nobody has worked off.
Left(c) == chain[c].ready \cup chain[c].held

\* The pictures of a later chain are newer, in one chain the one that waits is newer
\* than the one the thread works on, and what can still be sent is not older than
\* what was sent last.
Pending ==
    /\ sent <= screen
    /\ \A c \in Chains :
         /\ \A r \in Left(c) : r.picture <= screen
         /\ c > assigned => Left(c) = {}
         /\ \A r \in chain[c].held, q \in chain[c].ready : r.picture < q.picture
         /\ (chain[c].thread \in Running \/ Waiting(c)) =>
                \A r \in Left(c) : sent <= r.picture
    /\ \A c, d \in Chains :
         c < d => \A r \in Left(c), q \in Left(d) : r.picture < q.picture
-----------------------------------------------------------------------------
(***************************************************************************)
(* Types and lifetimes.                                                    *)
(***************************************************************************)
LEMMA NestingInit == Init => Nesting
  BY BoundsAssumption
  DEF Init, Nesting, TypeOK, Context, Callbacks, Processors, Waiting, Chains, Fresh, Numbers, ChainStates,
      Running, Looping

\* What a processing thread leaves alone, and what it does to its chain.
LEMMA ThreadStep ==
    ASSUME TypeOK, Processors, NEW c \in Chains, Thread(c) \/ WaitFails(c)
    PROVE  /\ UNCHANGED <<adapterVars, callVars>>
           /\ screen' \in Numbers /\ sent' \in Numbers /\ missed' \in Numbers
           /\ chain' \in [Chains -> ChainStates]
           /\ \A d \in Chains : d # c => chain'[d] = chain[d]
           /\ chain[c].thread \in Running
           /\ \/ chain'[c].thread \in Running /\ chain'[c].deleted = chain[c].deleted
              \/ chain'[c].thread = "ended" /\ chain'[c].deleted = chain[c].deleted + 1
  <1> USE DEF TypeOK, ChainStates, Running, Looping
  <1>0. chain[c].thread \in Running => chain[c].deleted = 0
    BY DEF Processors
  <1>1. CASE SetDevice(c)
    BY <1>0, <1>1 DEF SetDevice, Goes, WithoutDevice, callVars, adapterVars, pictures
  <1>2. CASE Acquire(c)
    BY <1>0, <1>2 DEF Acquire, Goes, callVars, adapterVars, pictures
  <1>3. CASE LosesChain(c)
    BY <1>0, <1>3 DEF LosesChain, Goes, callVars, adapterVars, pictures
  <1>4. CASE WaitFrame(c)
    BY <1>0, <1>4 DEF WaitFrame, callVars, adapterVars, pictures
  <1>5. CASE WaitTerminate(c) \/ WaitTimeout(c) \/ WaitFails(c)
    BY <1>0, <1>5 DEF WaitTerminate, WaitTimeout, WaitFails, Goes, callVars, adapterVars, pictures
  <1>6. CASE CopyFrame(c)
    BY <1>0, <1>6 DEF CopyFrame, Pictures, callVars, adapterVars, pictures
  <1>7. CASE Finish(c)
    BY <1>0, <1>7 DEF Finish, Goes, callVars, adapterVars, pictures
  <1>8. CASE DeleteChain(c)
    BY <1>0, <1>8 DEF DeleteChain, callVars, adapterVars, pictures
  <1> QED
    BY <1>1, <1>2, <1>3, <1>4, <1>5, <1>6, <1>7, <1>8 DEF Thread

\* A picture the OS draws changes what waits to be acquired and no thread.
LEMMA DrawnIsTyped ==
    ASSUME TypeOK, NEW rects \in SUBSET Rectangles, Draw(rects)
    PROVE  /\ screen' \in Numbers
           /\ chain' \in [Chains -> ChainStates]
           /\ \A c \in Chains : chain'[c].thread = chain[c].thread
                                 /\ chain'[c].deleted = chain[c].deleted
  <1> DEFINE old == UNION {r.rects : r \in chain[assigned].ready}
             picture == [picture |-> screen', rects |-> old \cup rects]
  <1>1. assigned # 0 /\ screen < MaxPictures /\ screen' = screen + 1
    BY DEF Draw
  <1>2. chain' = [chain EXCEPT
                    ![assigned].ready = {picture},
                    ![assigned].drawn = IF rects = {} THEN @ ELSE screen',
                    ![assigned].frameEvent = TRUE]
    BY DEF Draw
  <1>3. assigned \in Chains /\ screen' \in Numbers
    BY <1>1, BoundsAssumption DEF TypeOK, Chains, Numbers
  <1>4. picture \in Pictures
    <2>1. old \in SUBSET Rectangles
      BY <1>3 DEF TypeOK, ChainStates, Pictures
    <2> QED
      BY <1>3, <2>1 DEF Pictures
  <1> HIDE DEF picture
  <1>5. \A c \in Chains : c # assigned => chain'[c] = chain[c]
    BY <1>2, <1>3 DEF TypeOK
  <1>6. chain'[assigned] = [chain[assigned] EXCEPT !.ready = {picture},
                              !.drawn = IF rects = {} THEN @ ELSE screen', !.frameEvent = TRUE]
    BY <1>2, <1>3 DEF TypeOK
  <1>8. chain[assigned] \in ChainStates
    BY <1>3 DEF TypeOK
  <1>9. {picture} \in SUBSET Pictures
    BY <1>4
  <1>7. /\ chain'[assigned] \in ChainStates
        /\ chain'[assigned].thread = chain[assigned].thread
        /\ chain'[assigned].deleted = chain[assigned].deleted
    BY <1>3, <1>6, <1>8, <1>9 DEF ChainStates
  <1> QED
    BY <1>2, <1>3, <1>5, <1>7 DEF TypeOK

\* What other actions do to the fields of a chain.
LEMMA ThreadField ==
    ASSUME NEW r \in ChainStates, NEW thread \in Running \cup {"none", "ended"},
           NEW s, s = [r EXCEPT !.thread = thread]
    PROVE  s \in ChainStates
  BY DEF ChainStates

\* A chain's record with another number of deletions.
LEMMA DeletedField ==
    ASSUME NEW r \in ChainStates, NEW deleted \in 0..1, NEW s, s = [r EXCEPT !.deleted = deleted]
    PROVE  s \in ChainStates
  BY DEF ChainStates

\* Abandoning a chain touches neither its thread nor its deletion.
LEMMA AbandonedIsSet ==
    ASSUME TypeOK, NEW c \in Chains, chain' = [chain EXCEPT ![c].abandoned = TRUE]
    PROVE  /\ chain' \in [Chains -> ChainStates]
           /\ \A d \in Chains : chain'[d].thread = chain[d].thread
                                 /\ chain'[d].deleted = chain[d].deleted
  <1>1. chain' \in [Chains -> ChainStates]
    BY DEF TypeOK, ChainStates
  <1> QED
    BY <1>1 DEF TypeOK, ChainStates

\* Nor does setting its terminate event.
LEMMA TerminateIsSet ==
    ASSUME TypeOK, NEW c \in Chains, chain' = [chain EXCEPT ![c].terminate = TRUE]
    PROVE  /\ chain' \in [Chains -> ChainStates]
           /\ \A d \in Chains : chain'[d].thread = chain[d].thread
                                 /\ chain'[d].deleted = chain[d].deleted
  <1>1. chain' \in [Chains -> ChainStates]
    BY DEF TypeOK, ChainStates
  <1> QED
    BY <1>1 DEF TypeOK, ChainStates

\* A device that could be made starts a thread or fails to; else the callback deletes
\* the chain.
LEMMA DeviceIsMade ==
    ASSUME TypeOK, NEW c \in Chains, chain[c].deleted = 0, NEW ok \in BOOLEAN,
           NEW thread \in {"setDevice", "none"},
           chain' = [chain EXCEPT ![c].deleted = IF ok THEN @ ELSE @ + 1,
                                  ![c].thread = IF ok THEN thread ELSE @]
    PROVE  /\ chain' \in [Chains -> ChainStates]
           /\ \A d \in Chains : d # c => chain'[d] = chain[d]
           /\ chain'[c].deleted = IF ok THEN 0 ELSE 1
           /\ chain'[c].thread = IF ok THEN thread ELSE chain[c].thread
  <1> DEFINE t == IF ok THEN thread ELSE chain[c].thread
             n == IF ok THEN 0 ELSE 1
             r == [chain[c] EXCEPT !.deleted = n]
             s == [r EXCEPT !.thread = t]
  <1>1. chain \in [Chains -> ChainStates] /\ chain[c] \in ChainStates
    BY DEF TypeOK
  <1>2. t \in Running \cup {"none", "ended"} /\ n \in 0..1
    BY <1>1 DEF ChainStates, Running
  <1>3. s \in ChainStates
    <2>1. r \in ChainStates
      BY <1>1, <1>2, DeletedField
    <2> HIDE DEF r, t
    <2> QED
      BY <2>1, <1>2, ThreadField
  <1>4. chain'[c] = s /\ \A d \in Chains : d # c => chain'[d] = chain[d]
    BY <1>1
  <1>5. chain' \in [Chains -> ChainStates]
    <2> HIDE DEF s
    <2>1. DOMAIN chain' = Chains /\ chain' = [d \in Chains |-> chain'[d]]
      BY <1>1
    <2> QED
      BY <1>1, <1>3, <1>4, <2>1
  <1>6. s.deleted = n /\ s.thread = t
    BY <1>1 DEF ChainStates
  <1> QED
    BY <1>4, <1>5, <1>6

\* All steps keep the lifetimes nested.
LEMMA NestingStep ==
    ASSUME Nesting, [Next]_vars
    PROVE  Nesting'
  <1> USE DEF Nesting, TypeOK, Context, Callbacks, Processors, Waiting, Running, Looping,
              adapterVars, callVars, pictures
  <1>0. assigned \in 0..MaxChains /\ MaxChains \in Nat /\ Chains = 1..MaxChains
    BY BoundsAssumption DEF Chains
  <1>1. CASE D0Entry \/ AdapterInitFinished \/ PlugIn
    BY <1>1 DEF D0Entry, AdapterInitFinished, PlugIn
  <1>2. CASE CreateMonitor
    BY <1>2 DEF CreateMonitor
  <1>3. CASE MonitorArrival
    BY <1>3 DEF MonitorArrival
  <1>4. ASSUME NEW rects \in SUBSET Rectangles, Draw(rects)
        PROVE  Nesting'
    <2>1. UNCHANGED <<adapterVars, callVars, sent, missed>>
      BY <1>4 DEF Draw
    <2>2. /\ screen' \in Numbers /\ chain' \in [Chains -> ChainStates]
          /\ \A c \in Chains : chain'[c].thread = chain[c].thread
                                /\ chain'[c].deleted = chain[c].deleted
      BY <1>4, DrawnIsTyped
    <2> QED
      BY <2>1, <2>2, <1>0
  <1>5. ASSUME NEW c \in Chains, Abandon(c)
        PROVE  Nesting'
    <2>1. /\ chain' \in [Chains -> ChainStates]
          /\ \A d \in Chains : chain'[d].thread = chain[d].thread
                                /\ chain'[d].deleted = chain[d].deleted
      <3>1. chain' = [chain EXCEPT ![c].abandoned = TRUE]
        BY <1>5 DEF Abandon
      <3> QED
        BY <3>1, AbandonedIsSet
    <2> QED
      BY <1>5, <2>1, <1>0 DEF Abandon
  <1>6. CASE AssignSwapChain
    BY <1>6, <1>0 DEF AssignSwapChain, Chains
  <1>7. CASE UnassignSwapChain
    BY <1>7, <1>0 DEF UnassignSwapChain, Chains
  <1>8. CASE Cleanup
    BY <1>8, <1>0 DEF Cleanup, Chains
  <1>9. CASE CursorThreadEnds \/ JoinCursor
    BY <1>9 DEF CursorThreadEnds, JoinCursor, CursorJoined
  <1>10. CASE StopProcessor
    <2>1. CASE current = 0
      BY <1>10, <2>1, <1>0 DEF StopProcessor, AfterStop
    <2>2. CASE current # 0
      <3>1. current \in Chains
        BY <2>2, <1>0
      <3>2. chain' = [chain EXCEPT ![current].terminate = TRUE]
        BY <1>10, <2>2 DEF StopProcessor, Told
      <3>3. /\ chain' \in [Chains -> ChainStates]
            /\ \A c \in Chains : chain'[c].thread = chain[c].thread
                                  /\ chain'[c].deleted = chain[c].deleted
        BY <3>1, <3>2, TerminateIsSet
      <3> QED
        BY <1>10, <2>2, <3>3, <1>0 DEF StopProcessor
    <2> QED
      BY <2>1, <2>2
  <1>11. CASE JoinProcessor
    BY <1>11, <1>0 DEF JoinProcessor, Joined, AfterStop, Chains
  <1>12. CASE InitDevice
    <2>1. /\ assigned \in Chains /\ context = "arrived" /\ cursor = "runs" /\ current = 0
          /\ chain[assigned].deleted = 0 /\ chain[assigned].thread = "none"
      BY <1>12, <1>0 DEF InitDevice
    <2>2. PICK ok \in BOOLEAN, thread \in {"setDevice", "none"} :
             /\ current' = IF ok THEN assigned ELSE 0
             /\ chain' = [chain EXCEPT ![assigned].deleted = IF ok THEN @ ELSE @ + 1,
                                       ![assigned].thread = IF ok THEN thread ELSE @]
      BY <1>12 DEF InitDevice, Started
    <2>3. /\ chain' \in [Chains -> ChainStates]
          /\ \A c \in Chains : c # assigned => chain'[c] = chain[c]
          /\ chain'[assigned].deleted = IF ok THEN 0 ELSE 1
          /\ chain'[assigned].thread = IF ok THEN thread ELSE "none"
      BY <2>1, <2>2, DeviceIsMade
    <2>4. Context' /\ Callbacks'
      BY <1>12, <2>1, <2>2, <1>0 DEF InitDevice
    <2>5. Processors' /\ TypeOK'
      BY <1>12, <2>1, <2>2, <2>3, <1>0 DEF InitDevice
    <2> QED
      BY <2>4, <2>5
  <1>13. CASE Free
    BY <1>13 DEF Free
  <1>14. ASSUME NEW c \in Chains, Thread(c) \/ WaitFails(c)
         PROVE  Nesting'
    <2>1. current = c /\ chain[c].deleted = 0
      BY <1>14, ThreadStep
    <2>2. UNCHANGED <<adapterVars, callVars>>
      BY <1>14, ThreadStep
    <2>3. chain'[c].deleted \in 0..1
      BY <1>14, <2>1, ThreadStep
    <2>4. TypeOK'
      BY <1>14, <2>2, <2>3, ThreadStep
    <2>5. Processors'
      BY <1>14, <2>1, <2>2, ThreadStep, <1>0
    <2> QED
      BY <2>2, <2>4, <2>5
  <1>15. CASE UNCHANGED vars
    BY <1>15 DEF vars
  <1> QED
    BY <1>1, <1>2, <1>3, <1>4, <1>5, <1>6, <1>7, <1>8, <1>9, <1>10, <1>11, <1>12, <1>13,
       <1>14, <1>15 DEF Next, Callback

\* What Context, Callbacks and Processors say holds throughout.
THEOREM NestingInvariant == Spec => []Nesting
  BY NestingInit, NestingStep, PTL DEF Spec

\* Every variable of the monitor and its threads keeps its type.
THEOREM TypeCorrect == Spec => []TypeOK
  <1>1. Nesting => TypeOK
    BY DEF Nesting
  <1> QED
    BY <1>1, NestingInvariant, PTL

\* A thread ends before its owner and a chain after its thread, once, for any number of
\* swap-chains and whatever the order of the callbacks.
THEOREM LifetimesAreNested == Spec => []LifetimesNest
  <1>1. Nesting => OwnersOutliveThreads
    BY BoundsAssumption DEF Chains, Nesting, OwnersOutliveThreads, TypeOK, Context, Processors
  <1>2. Nesting => ChainsAreReturned
    BY BoundsAssumption
    DEF Nesting, ChainsAreReturned, TypeOK, ChainStates, Processors
  <1> QED
    BY <1>1, <1>2, NestingInvariant, PTL DEF LifetimesNest

-----------------------------------------------------------------------------
(***************************************************************************)
(* The order of pictures.                                                  *)
(***************************************************************************)
LEMMA PendingInit == Init => Pending
  BY BoundsAssumption DEF Init, Pending, Left, Waiting, Chains, Fresh, Running, Looping

\* Pending holds on when nothing is drawn, if what is sent fits what is left.
LEMMA NothingNew ==
    ASSUME Pending,
           assigned' >= assigned, assigned \in Nat, assigned' \in Nat, Chains \subseteq Nat,
           screen' = screen, sent' <= screen,
           \A c \in Chains : Left(c)' \subseteq Left(c),
           \A c \in Chains : chain'[c].ready = {} \/ (/\ chain'[c].ready = chain[c].ready
                                                      /\ chain'[c].held \subseteq chain[c].held),
           \A c \in Chains : (chain'[c].thread \in Running \/ Waiting(c)')
                                => \A r \in Left(c)' : sent' <= r.picture
    PROVE  Pending'
  <1>1. \A c \in Chains : /\ \A r \in Left(c)' : r.picture <= screen'
                          /\ c > assigned' => Left(c)' = {}
    BY DEF Pending
  <1>2. \A c \in Chains : \A r \in chain'[c].held, q \in chain'[c].ready : r.picture < q.picture
    BY DEF Pending
  <1>3. \A c, d \in Chains :
          c < d => \A r \in Left(c)', q \in Left(d)' : r.picture < q.picture
    BY DEF Pending
  <1> QED
    BY <1>1, <1>2, <1>3 DEF Pending

\* The pictures of a chain are numbered.
LEMMA LeftIsTyped ==
    ASSUME TypeOK, NEW c \in Chains, NEW r \in Left(c)
    PROVE  r \in Pictures /\ r.picture \in Nat
  BY BoundsAssumption DEF TypeOK, ChainStates, Left, Pictures, Numbers

\* A new picture is newer than all, and goes to the newest chain.
LEMMA DrawKeepsOrder ==
    ASSUME Nesting, Pending, NEW rects \in SUBSET Rectangles, Draw(rects)
    PROVE  Pending'
  <1> DEFINE old == UNION {r.rects : r \in chain[assigned].ready}
             picture == [picture |-> screen', rects |-> old \cup rects]
  <1>1. /\ assigned # 0 /\ screen' = screen + 1
        /\ UNCHANGED <<op, at, assigned, sent>>
    BY DEF Draw, callVars
  <1>2. chain' = [chain EXCEPT
                    ![assigned].ready = {picture},
                    ![assigned].drawn = IF rects = {} THEN @ ELSE screen',
                    ![assigned].frameEvent = TRUE]
    BY DEF Draw
  <1>3. assigned \in Chains /\ Chains \subseteq Nat /\ screen \in Nat /\ sent \in Nat
    BY <1>1, BoundsAssumption DEF Nesting, TypeOK, Chains, Numbers
  <1>4. picture.picture = screen + 1
    BY <1>1
  <1> HIDE DEF picture
  <1>5. chain \in [Chains -> ChainStates]
    BY DEF Nesting, TypeOK
  <1>6. \A c \in Chains : c # assigned => chain'[c] = chain[c]
    BY <1>2, <1>3, <1>5
  <1>7. /\ chain'[assigned].ready = {picture}
        /\ chain'[assigned].held = chain[assigned].held
        /\ chain'[assigned].thread = chain[assigned].thread
    <2>1. chain'[assigned] = [chain[assigned] EXCEPT !.ready = {picture},
                                !.drawn = IF rects = {} THEN @ ELSE screen', !.frameEvent = TRUE]
      BY <1>2, <1>3, <1>5
    <2>2. chain[assigned] \in ChainStates
      BY <1>3, <1>5
    <2> QED
      BY <2>1, <2>2 DEF ChainStates
  <1>8. \A c \in Chains : \A r \in Left(c) : r.picture \in Nat /\ r.picture <= screen
    BY LeftIsTyped DEF Pending, Nesting
  <1>9. \A c \in Chains : c # assigned => Left(c)' = Left(c)
    BY <1>6 DEF Left
  <1>10. \A r \in Left(assigned)' : r = picture \/ r \in Left(assigned)
    BY <1>1, <1>7 DEF Left
  <1>11. sent' <= screen'
    BY <1>1, <1>3 DEF Pending
  <1>12. \A c \in Chains : /\ \A r \in Left(c)' : r.picture <= screen'
                           /\ c > assigned' => Left(c)' = {}
    <2>1. \A r \in Left(assigned)' : r.picture <= screen'
      BY <1>1, <1>3, <1>4, <1>8, <1>10
    <2>2. \A c \in Chains : c # assigned => \A r \in Left(c)' : r.picture <= screen'
      BY <1>1, <1>3, <1>8, <1>9
    <2>3. \A c \in Chains : c > assigned => Left(c)' = {}
      BY <1>3, <1>9 DEF Pending
    <2> QED
      BY <2>1, <2>2, <2>3, <1>1
  <1>13. \A c \in Chains : \A r \in chain'[c].held, q \in chain'[c].ready : r.picture < q.picture
    <2>1. \A r \in chain[assigned].held : r \in Left(assigned)
      BY DEF Left
    <2> QED
      BY <2>1, <1>3, <1>4, <1>6, <1>7, <1>8 DEF Pending
  <1>14. \A c \in Chains : (chain'[c].thread \in Running \/ Waiting(c)')
                             => \A r \in Left(c)' : sent' <= r.picture
    <2>1. \A c \in Chains : Waiting(c)' = Waiting(c) /\ chain'[c].thread = chain[c].thread
      BY <1>1, <1>6, <1>7 DEF Waiting
    <2>2. sent <= screen
      BY DEF Pending
    <2>3. Running' = Running
      BY DEF Running, Looping
    <2>4. \A c \in Chains : (chain[c].thread \in Running \/ Waiting(c))
                               => \A r \in Left(c) : sent <= r.picture
      BY DEF Pending
    <2>5. \A r \in Left(assigned)' : r = picture => sent' <= r.picture
      BY <2>2, <1>1, <1>3, <1>4
    <2>6. ASSUME NEW c \in Chains, chain'[c].thread \in Running \/ Waiting(c)',
                 NEW r \in Left(c)'
          PROVE  sent' <= r.picture
      <3>1. \A q \in Left(c) : sent <= q.picture
        BY <2>1, <2>4, <2>6
      <3>2. CASE c = assigned
        BY <3>1, <3>2, <2>5, <2>6, <1>1, <1>10
      <3>3. CASE c # assigned
        BY <3>1, <3>3, <2>6, <1>1, <1>9
      <3> QED
        BY <3>2, <3>3
    <2> QED
      BY <2>6
  <1>15. \A c, d \in Chains :
           c < d => \A r \in Left(c)', q \in Left(d)' : r.picture < q.picture
    <2>1. \A d \in Chains : assigned < d => Left(d) = {}
      BY <1>3 DEF Pending
    <2>2. ASSUME NEW c \in Chains, NEW d \in Chains, c < d,
                 NEW r \in Left(c)', NEW q \in Left(d)'
          PROVE  r.picture < q.picture
      <3>1. c # assigned \/ q \notin Left(d)'
        BY <2>1, <2>2, <1>3, <1>9
      <3>2. r \in Left(c) /\ r.picture \in Nat /\ r.picture <= screen
        BY <2>2, <3>1, <1>8, <1>9
      <3>3. CASE d = assigned /\ q = picture
        BY <3>2, <3>3, <1>3, <1>4
      <3>4. CASE q \in Left(d)
        BY <2>2, <3>2, <3>4 DEF Pending
      <3> QED
        BY <2>2, <3>3, <3>4, <1>1, <1>9, <1>10
    <2> QED
      BY <2>2
  <1> QED
    BY <1>11, <1>12, <1>13, <1>14, <1>15 DEF Pending

\* A thread sends what it holds, which is not older than what was sent.
LEMMA ThreadKeepsOrder ==
    ASSUME Nesting, Pending, NEW c \in Chains, Thread(c) \/ WaitFails(c)
    PROVE  Pending' /\ sent' >= sent
  <1>1. /\ UNCHANGED callVars
        /\ chain \in [Chains -> ChainStates]
        /\ \A d \in Chains : d # c => chain'[d] = chain[d]
        /\ chain[c].thread \in Running
    BY ThreadStep DEF Nesting, TypeOK
  <1>2. /\ screen' = screen
        /\ \/ chain'[c].ready = {}
           \/ chain'[c].ready = chain[c].ready /\ chain'[c].held \subseteq chain[c].held
        /\ Left(c)' \subseteq Left(c)
        /\ \/ sent' = sent
           \/ chain'[c].held = {} /\ chain'[c].ready = chain[c].ready
              /\ \E r \in chain[c].held : sent' = r.picture
    <2> USE <1>1 DEF Goes, pictures, Left, ChainStates
    <2>1. CASE SetDevice(c) \/ LosesChain(c) \/ Finish(c)
      BY <2>1 DEF SetDevice, LosesChain, Finish
    <2>2. CASE Acquire(c)
      BY <2>2 DEF Acquire
    <2>3. CASE WaitFrame(c) \/ DeleteChain(c)
      BY <2>3 DEF WaitFrame, DeleteChain
    <2>4. CASE WaitTerminate(c) \/ WaitTimeout(c) \/ WaitFails(c)
      BY <2>4 DEF WaitTerminate, WaitTimeout, WaitFails
    <2>5. CASE CopyFrame(c)
      BY <2>5 DEF CopyFrame
    <2> QED
      BY <2>1, <2>2, <2>3, <2>4, <2>5 DEF Thread
  <1>3. \A d \in Chains : \A r \in Left(d) : r.picture \in Nat
    BY LeftIsTyped DEF Nesting
  <1>4. sent \in Nat /\ screen \in Nat /\ assigned \in Nat /\ Chains \subseteq Nat
    BY BoundsAssumption DEF Nesting, TypeOK, Numbers, Chains
  <1>5. sent' >= sent /\ sent' <= screen
    BY <1>1, <1>2, <1>3, <1>4 DEF Pending, Left
  <1>6. \A d \in Chains : Left(d)' \subseteq Left(d)
    BY <1>1, <1>2 DEF Left
  <1>7. \A d \in Chains : d # c /\ (chain[d].thread \in Running \/ Waiting(d)) => c < d
    BY <1>1, <1>4 DEF Nesting, TypeOK, Processors, Waiting
  <1>8. ASSUME NEW d \in Chains, chain'[d].thread \in Running \/ Waiting(d)',
               NEW r \in Left(d)'
        PROVE  sent' <= r.picture
    <2>1. r \in Left(d)
      BY <1>6, <1>8
    <2>2. chain[d].thread \in Running \/ Waiting(d)
      BY <1>1, <1>8 DEF Waiting, callVars, Running, Looping
    <2>3. sent <= r.picture
      BY <2>1, <2>2 DEF Pending
    <2>4. ASSUME NEW q \in chain[c].held, sent' = q.picture, chain'[c].held = {},
                 chain'[c].ready = chain[c].ready
          PROVE  sent' <= r.picture
      <3>1. q \in Left(c) /\ q.picture \in Nat /\ r.picture \in Nat
        BY <2>1, <1>3 DEF Left
      <3>2. CASE d = c
        <4>1. r \in chain[c].ready
          BY <2>4, <3>2 DEF Left
        <4> QED
          BY <4>1, <2>4, <3>1 DEF Pending
      <3>3. CASE d # c
        BY <3>3, <3>1, <2>1, <2>2, <2>4, <1>7 DEF Pending
      <3> QED
        BY <3>2, <3>3
    <2> QED
      BY <2>3, <2>4, <1>2
  <1>9. \A d \in Chains : chain'[d].ready = {} \/ (/\ chain'[d].ready = chain[d].ready
                                                    /\ chain'[d].held \subseteq chain[d].held)
    BY <1>1, <1>2
  <1> QED
    BY <1>1, <1>2, <1>4, <1>5, <1>6, <1>8, <1>9, NothingNew DEF callVars

\* The fields the order speaks of, when a field of a chain changes that it does not.
LEMMA OtherField ==
    ASSUME chain \in [Chains -> ChainStates], NEW c \in Chains,
           \/ chain' = [chain EXCEPT ![c].abandoned = TRUE]
           \/ chain' = [chain EXCEPT ![c].terminate = TRUE]
    PROVE  \A d \in Chains : /\ chain'[d].ready = chain[d].ready
                             /\ chain'[d].held = chain[d].held
                             /\ chain'[d].thread = chain[d].thread
  <1>1. CASE chain' = [chain EXCEPT ![c].abandoned = TRUE]
    BY <1>1 DEF ChainStates
  <1>2. CASE chain' = [chain EXCEPT ![c].terminate = TRUE]
    BY <1>2 DEF ChainStates
  <1> QED
    BY <1>1, <1>2

\* What the callbacks and the OS do to the pictures, but for drawing: nothing.
LEMMA CallbackKeepsOrder ==
    ASSUME Nesting, Pending,
           \/ D0Entry \/ AdapterInitFinished \/ PlugIn \/ CreateMonitor \/ MonitorArrival
           \/ \E c \in Chains : Abandon(c)
           \/ AssignSwapChain \/ UnassignSwapChain \/ Cleanup \/ Callback \/ CursorThreadEnds
           \/ UNCHANGED vars
    PROVE  Pending' /\ sent' = sent
  <1>1. /\ chain \in [Chains -> ChainStates]
        /\ assigned \in 0..MaxChains /\ MaxChains \in Nat /\ Chains = 1..MaxChains
    BY BoundsAssumption DEF Nesting, TypeOK, Chains
  <1>2. screen' = screen /\ sent' = sent
    BY DEF D0Entry, AdapterInitFinished, PlugIn, CreateMonitor, MonitorArrival, Abandon,
           AssignSwapChain, UnassignSwapChain, Cleanup, Callback, CursorThreadEnds, JoinCursor,
           StopProcessor, JoinProcessor, InitDevice, Free, vars, pictures
  <1>3. /\ assigned' \in Nat /\ assigned' >= assigned
        /\ \A c \in Chains : /\ chain'[c].ready = chain[c].ready
                             /\ chain'[c].held = chain[c].held
                             /\ chain'[c].thread \in Running \/ Waiting(c)'
                                  => chain[c].thread \in Running \/ Waiting(c) \/ c > assigned
    <2> USE DEF callVars, Waiting
    <2>1. CASE D0Entry \/ AdapterInitFinished \/ PlugIn \/ CreateMonitor \/ MonitorArrival
               \/ CursorThreadEnds \/ UNCHANGED vars
      BY <2>1, <1>1
      DEF D0Entry, AdapterInitFinished, PlugIn, CreateMonitor, MonitorArrival, CursorThreadEnds,
          vars, Running, Looping
    <2>2. CASE \E c \in Chains : Abandon(c)
      BY <2>2, <1>1, OtherField DEF Abandon, Running, Looping
    <2>3. CASE AssignSwapChain
      BY <2>3, <1>1 DEF AssignSwapChain, Running, Looping
    <2>4. CASE UnassignSwapChain \/ Cleanup \/ JoinCursor \/ Free
      BY <2>4, <1>1 DEF Nesting, Callbacks, UnassignSwapChain, Cleanup, JoinCursor, Free, Running, Looping
    <2>5. CASE StopProcessor
      <3>1. CASE current = 0
        BY <2>5, <3>1, <1>1 DEF StopProcessor, AfterStop, Running, Looping
      <3>2. CASE current # 0
        <4>1. current \in Chains
          BY <3>2, <1>1 DEF Nesting, TypeOK, Processors
        <4>2. chain' = [chain EXCEPT ![current].terminate = TRUE]
          BY <2>5, <3>2 DEF StopProcessor, Told
        <4>3. \A d \in Chains : /\ chain'[d].ready = chain[d].ready
                                /\ chain'[d].held = chain[d].held
                                /\ chain'[d].thread = chain[d].thread
          BY <4>1, <4>2, <1>1, OtherField
        <4> QED
          BY <2>5, <3>2, <4>3, <1>1 DEF StopProcessor, Running, Looping
      <3> QED
        BY <3>1, <3>2
    <2>6. CASE JoinProcessor
      BY <2>6, <1>1 DEF JoinProcessor, AfterStop, Running, Looping
    <2>7. CASE InitDevice
      <3>1. assigned \in Chains /\ Waiting(assigned)
        BY <2>7, <1>1 DEF InitDevice, Nesting, Callbacks, Processors
      <3>2. PICK ok \in BOOLEAN, thread \in {"setDevice", "none"} :
               chain' = [chain EXCEPT ![assigned].deleted = IF ok THEN @ ELSE @ + 1,
                                      ![assigned].thread = IF ok THEN thread ELSE @]
        BY <2>7 DEF InitDevice, Started
      <3>3. \A c \in Chains : c # assigned => chain'[c] = chain[c]
        BY <3>1, <3>2, <1>1
      <3>4. /\ chain'[assigned].ready = chain[assigned].ready
            /\ chain'[assigned].held = chain[assigned].held
        BY <3>1, <3>2, <1>1 DEF ChainStates
      <3> QED
        BY <2>7, <3>1, <3>3, <3>4, <1>1 DEF InitDevice, Running, Looping
    <2> QED
      BY <2>1, <2>2, <2>3, <2>4, <2>5, <2>6, <2>7 DEF Callback
  <1>4. \A c \in Chains : Left(c)' = Left(c)
    BY <1>3 DEF Left
  <1>5. \A c \in Chains : (chain'[c].thread \in Running \/ Waiting(c)')
                             => \A r \in Left(c)' : sent' <= r.picture
    BY <1>2, <1>3, <1>4 DEF Pending
  <1>6. /\ sent' <= screen /\ Chains \subseteq Nat /\ assigned \in Nat
        /\ \A c \in Chains : Left(c)' \subseteq Left(c)
        /\ \A c \in Chains : chain'[c].ready = {} \/ (/\ chain'[c].ready = chain[c].ready
                                                      /\ chain'[c].held \subseteq chain[c].held)
    BY <1>1, <1>2, <1>3, <1>4 DEF Pending
  <1> QED
    BY <1>2, <1>3, <1>5, <1>6, NothingNew

\* All steps keep the order, and the picture sent last never becomes older.
LEMMA PendingStep ==
    ASSUME Nesting, Pending, [Next]_vars
    PROVE  Pending' /\ sent' >= sent
  <1>0. sent \in Nat
    BY BoundsAssumption DEF Nesting, TypeOK, Numbers
  <1>1. ASSUME NEW rects \in SUBSET Rectangles, Draw(rects)
        PROVE  Pending' /\ sent' >= sent
    <2>1. sent' = sent
      BY <1>1 DEF Draw
    <2> QED
      BY <2>1, <1>0, <1>1, DrawKeepsOrder
  <1>2. ASSUME NEW c \in Chains, Thread(c) \/ WaitFails(c)
        PROVE  Pending' /\ sent' >= sent
    BY <1>2, ThreadKeepsOrder
  <1>3. CASE \/ D0Entry \/ AdapterInitFinished \/ PlugIn \/ CreateMonitor \/ MonitorArrival
             \/ \E c \in Chains : Abandon(c)
             \/ AssignSwapChain \/ UnassignSwapChain \/ Cleanup \/ Callback \/ CursorThreadEnds
             \/ UNCHANGED vars
    BY <1>0, <1>3, CallbackKeepsOrder
  <1> QED
    BY <1>1, <1>2, <1>3 DEF Next

\* Whatever happens, the numbers of the pictures that are still to be sent are not
\* below that of the last one sent, and an older chain has no newer picture.
THEOREM NothingOldIsLeft == Spec => []Pending
  BY PendingInit, PendingStep, NestingInvariant, PTL DEF Spec

\* The service never sees an older picture after a newer one, however many chains
\* and threads have followed each other in between.
THEOREM SentInOrder == Spec => PicturesInOrder
  <1>1. ASSUME Nesting, Pending, [Next]_vars
        PROVE  [sent' >= sent]_sent
    BY <1>1, PendingStep
  <1> QED
    BY <1>1, NestingInvariant, NothingOldIsLeft, PTL DEF Spec, PicturesInOrder
=============================================================================
