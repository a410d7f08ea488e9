------------------------------ MODULE SwapChain ------------------------------
(***************************************************************************)
(* The monitor object of the driver and the threads it owns: the adapter   *)
(* brings the monitor up, the OS assigns it swap-chains one after another, *)
(* each is drained by a SwapChainProcessor thread, and the destructors     *)
(* tell the threads to end and wait for them.                              *)
(*                                                                         *)
(* Callbacks of one monitor come one at a time; `at` is the place where    *)
(* the running one is.  Swap-chains are numbered in the order in which the *)
(* OS assigns them, pictures in the order in which it draws them, whatever *)
(* the chain.  What MonitorClient::SendFrame does with a picture is the    *)
(* business of EncoderPipeline.                                            *)
(*                                                                         *)
(* A definition marked "Mistake" is not used: put in the place of the one  *)
(* that follows it, it shows which property notices that mistake.          *)
(***************************************************************************)
EXTENDS Integers

CONSTANTS
    MaxChains,  \* bound on the swap-chains the OS assigns
    MaxPictures,    \* bound on the pictures it draws
    Rectangles  \* what may be reported of a picture: dirty rectangles, moves

ASSUME BoundsAssumption == MaxChains \in Nat \ {0} /\ MaxPictures \in Nat

Chains == 1..MaxChains

VARIABLES
    adapter,    \* how far the adapter is
    context,    \* the monitor's context: what pContext points to
    cursor,     \* the thread of its cursor
    op, at,     \* the callback that runs, and where it is
    assigned,   \* chains the OS has assigned so far
    current,    \* the chain of m_SwapChainProcessor, 0 if there is none
    chain,      \* each chain with the thread that drains it
    screen,     \* the number of the picture on the screen
    sent, missed    \* the last picture sent, the last that could not be copied

adapterVars == <<adapter, context, cursor>>
callVars == <<op, at, assigned, current>>
pictures == <<screen, sent, missed>>
vars == <<adapterVars, callVars, chain, pictures>>

\* A chain nobody has touched.  `ready` is the picture that waits to be acquired,
\* with what has changed since the last one; `held` the one the thread works on.
Fresh == [thread |-> "none", terminate |-> FALSE, frameEvent |-> FALSE,
          ready |-> {}, held |-> {}, drawn |-> 0, abandoned |-> FALSE, deleted |-> 0]

Init ==
    /\ adapter = "off" /\ context = "none" /\ cursor = "none"
    /\ op = "none" /\ at = "idle" /\ assigned = 0 /\ current = 0
    /\ chain = [c \in Chains |-> Fresh]
    /\ screen = 0 /\ sent = 0 /\ missed = 0

-----------------------------------------------------------------------------
(***************************************************************************)
(* The adapter and its monitor.                                            *)
(***************************************************************************)
D0Entry ==
    /\ adapter = "off"
    /\ adapter' \in {"init", "failed"}
    /\ UNCHANGED <<context, cursor, callVars, chain, pictures>>

AdapterInitFinished ==
    /\ adapter = "init"
    /\ adapter' \in {"create", "failed"}
    /\ UNCHANGED <<context, cursor, callVars, chain, pictures>>

\* The control code that asks for a monitor, after the first attempt failed.
PlugIn ==
    /\ adapter = "up" /\ context = "none"
    /\ adapter' = "create"
    /\ UNCHANGED <<context, cursor, callVars, chain, pictures>>

\* The context exists, and its cursor thread runs, before the OS hears of the
\* monitor's arrival.
CreateMonitor ==
    /\ adapter = "create"
    /\ \/ adapter' = "arrive" /\ context' = "created" /\ cursor' = "runs"
       \/ adapter' = "up" /\ UNCHANGED <<context, cursor>>
    /\ UNCHANGED <<callVars, chain, pictures>>

MonitorArrival ==
    /\ adapter = "arrive"
    /\ adapter' = "up"
    /\ context' \in {"created", "arrived"}
    /\ UNCHANGED <<cursor, callVars, chain, pictures>>

-----------------------------------------------------------------------------
(***************************************************************************)
(* The OS: what it draws, and the chains it gives up.                      *)
(***************************************************************************)

\* A picture that was not acquired is replaced, and what changed adds up.  Without
\* any rectangle it shows what was there before.
Draw(rects) ==
    /\ assigned # 0 /\ chain[assigned].deleted = 0 /\ ~chain[assigned].abandoned
    /\ screen < MaxPictures
    /\ screen' = screen + 1
    /\ LET old == UNION {r.rects : r \in chain[assigned].ready} IN
         chain' = [chain EXCEPT
                     ![assigned].ready = {[picture |-> screen', rects |-> old \cup rects]},
                     ![assigned].drawn = IF rects = {} THEN @ ELSE screen',
                     ![assigned].frameEvent = TRUE]
    /\ UNCHANGED <<adapterVars, callVars, sent, missed>>

\* The chain is lost, and nothing is signalled.
Abandon(c) ==
    /\ c <= assigned
    /\ chain[c].deleted = 0 /\ ~chain[c].abandoned
    /\ chain' = [chain EXCEPT ![c].abandoned = TRUE]
    /\ UNCHANGED <<adapterVars, callVars, pictures>>

-----------------------------------------------------------------------------
(***************************************************************************)
(* The callbacks.  All three stop the processing thread; then an assignment *)
(* starts the next one, and the cleanup frees the context.                 *)
(***************************************************************************)
AssignSwapChain ==
    /\ at = "idle" /\ context = "arrived"
    /\ assigned < MaxChains
    /\ assigned' = assigned + 1
    /\ op' = "assign" /\ at' = "stop"
    /\ UNCHANGED <<adapterVars, current, chain, pictures>>

UnassignSwapChain ==
    /\ at = "idle" /\ context = "arrived"
    /\ current # 0
    /\ op' = "unassign" /\ at' = "stop"
    /\ UNCHANGED <<adapterVars, assigned, current, chain, pictures>>

Cleanup ==
    /\ at = "idle" /\ adapter = "up" /\ context \in {"created", "arrived"}
    /\ op' = "cleanup" /\ at' = "joinCursor"
    /\ cursor' = "told"
    /\ UNCHANGED <<adapter, context, assigned, current, chain, pictures>>

CursorThreadEnds ==
    /\ cursor = "told"
    /\ cursor' = "ended"
    /\ UNCHANGED <<adapter, context, callVars, chain, pictures>>

CursorJoined == cursor = "ended"

JoinCursor ==
    /\ at = "joinCursor"
    /\ CursorJoined
    /\ at' = "stop"
    /\ UNCHANGED <<adapterVars, op, assigned, current, chain, pictures>>

\* Where the callback goes on once no processor is left.
AfterStop == CASE op = "assign" -> "device" [] op = "unassign" -> "idle" [] op = "cleanup" -> "free"

\* Mistake: the destructor waits, but never sets the event.
NotTold == FALSE
Told == TRUE

\* m_SwapChainProcessor.reset()
StopProcessor ==
    /\ at = "stop"
    /\ IF current = 0 THEN at' = AfterStop /\ UNCHANGED chain
       ELSE at' = "join" /\ chain' = [chain EXCEPT ![current].terminate = Told]
    /\ UNCHANGED <<adapterVars, op, assigned, current, pictures>>

\* Mistake: the wait for the thread has a timeout.
JoinGivesUp == TRUE
Joined == chain[current].thread \in {"none", "ended"}

JoinProcessor ==
    /\ at = "join"
    /\ Joined
    /\ current' = 0 /\ at' = AfterStop
    /\ UNCHANGED <<adapterVars, op, assigned, chain, pictures>>

\* Mistake: a processor is made although there is no device.
StartedAnyway(ok) == TRUE
Started(ok) == ok

\* Without a device the chain is deleted at once; otherwise a processor owns it,
\* and its thread starts, unless CreateThread fails.
InitDevice ==
    /\ at = "device"
    /\ \E ok \in BOOLEAN, thread \in {"setDevice", "none"} :
         /\ current' = IF Started(ok) THEN assigned ELSE 0
         /\ chain' = [chain EXCEPT ![assigned].deleted = IF ok THEN @ ELSE @ + 1,
                                   ![assigned].thread = IF Started(ok) THEN thread ELSE @]
    /\ at' = "idle"
    /\ UNCHANGED <<adapterVars, op, assigned, pictures>>

Free ==
    /\ at = "free"
    /\ context' = "gone"
    /\ at' = "idle"
    /\ UNCHANGED <<adapter, cursor, op, assigned, current, chain, pictures>>

-----------------------------------------------------------------------------
(***************************************************************************)
(* The processing thread of chain c.                                       *)
(***************************************************************************)
Goes(c, from, to) ==
    /\ chain[c].thread = from
    /\ chain' = [chain EXCEPT ![c].thread = to]
    /\ UNCHANGED <<adapterVars, callVars, pictures>>

\* Mistake: the thread leaves the chain to nobody when it has no device.
LeavesAtOnce == "ended"
WithoutDevice == "delete"

SetDevice(c) == Goes(c, "setDevice", "acquire") \/ Goes(c, "setDevice", WithoutDevice)

\* ReleaseAndAcquireBuffer: pending, or a picture.
Acquire(c) ==
    /\ ~chain[c].abandoned
    /\ IF chain[c].ready = {} THEN Goes(c, "acquire", "wait")
       ELSE /\ chain[c].thread = "acquire"
            /\ chain' = [chain EXCEPT ![c].thread = "copy", ![c].held = chain[c].ready,
                                      ![c].ready = {}]
            /\ UNCHANGED <<adapterVars, callVars, pictures>>

\* Any other result, of the acquisition or of the end of processing.
LosesChain(c) ==
    /\ chain[c].abandoned
    /\ Goes(c, "acquire", "delete") \/ Goes(c, "finish", "delete")

\* The wait looks at the event of the frames first.
WaitFrame(c) ==
    /\ chain[c].thread = "wait" /\ chain[c].frameEvent
    /\ chain' = [chain EXCEPT ![c].thread = "acquire", ![c].frameEvent = FALSE]
    /\ UNCHANGED <<adapterVars, callVars, pictures>>

WaitTerminate(c) ==
    /\ ~chain[c].frameEvent /\ chain[c].terminate
    /\ Goes(c, "wait", "delete")

\* Mistake: the thread waits without the 16 ms.
WaitsForEver == FALSE
MayTimeOut == TRUE

WaitTimeout(c) ==
    /\ MayTimeOut
    /\ ~chain[c].frameEvent /\ ~chain[c].terminate
    /\ Goes(c, "wait", "acquire")

\* "The wait was cancelled or something unexpected happened."
WaitFails(c) == Goes(c, "wait", "delete")

\* Mistake: a picture in which things only moved is passed over.
OnlyDirty(rects) == "dirty" \in rects
Changed(rects) == rects # {}

\* The picture goes to the service, unless nothing changed, or it cannot be copied
\* to the CPU.
CopyFrame(c) ==
    /\ chain[c].thread = "copy"
    /\ chain' = [chain EXCEPT ![c].thread = "finish", ![c].held = {}]
    /\ \E r \in chain[c].held, copied \in BOOLEAN :
         /\ sent' = IF Changed(r.rects) /\ copied THEN r.picture ELSE sent
         /\ missed' = IF Changed(r.rects) /\ ~copied THEN r.picture ELSE missed
    /\ UNCHANGED <<adapterVars, callVars, screen>>

Finish(c) == ~chain[c].abandoned /\ Goes(c, "finish", "acquire")

\* WdfObjectDelete, always the last thing the thread does.
DeleteChain(c) ==
    /\ chain[c].thread = "delete"
    /\ chain' = [chain EXCEPT ![c].thread = "ended", ![c].deleted = @ + 1]
    /\ UNCHANGED <<adapterVars, callVars, pictures>>

Thread(c) ==
    \/ SetDevice(c) \/ Acquire(c) \/ LosesChain(c) \/ WaitFrame(c) \/ WaitTerminate(c)
    \/ WaitTimeout(c) \/ CopyFrame(c) \/ Finish(c) \/ DeleteChain(c)

Callback ==
    \/ JoinCursor \/ StopProcessor \/ JoinProcessor \/ InitDevice \/ Free

Next ==
    \/ D0Entry \/ AdapterInitFinished \/ PlugIn \/ CreateMonitor \/ MonitorArrival
    \/ \E rects \in SUBSET Rectangles : Draw(rects)
    \/ \E c \in Chains : Abandon(c)
    \/ AssignSwapChain \/ UnassignSwapChain \/ Cleanup
    \/ Callback \/ CursorThreadEnds
    \/ \E c \in Chains : Thread(c) \/ WaitFails(c)

\* Every thread of the driver runs when it can.  The OS owes nothing, not even that a
\* wait fails.
Fairness ==
    /\ WF_vars(Callback) /\ WF_vars(CursorThreadEnds)
    /\ \A c \in Chains : WF_vars(Thread(c))

Spec == Init /\ [][Next]_vars
FairSpec == Spec /\ Fairness

-----------------------------------------------------------------------------
(***************************************************************************)
(* Properties.                                                             *)
(***************************************************************************)
Looping == {"acquire", "wait", "copy", "finish"}
Running == Looping \cup {"setDevice", "delete"}
Numbers == 0..MaxPictures
Pictures == [picture : Numbers, rects : SUBSET Rectangles]
ChainStates ==
    [thread : Running \cup {"none", "ended"}, deleted : 0..1, drawn : Numbers,
     ready : SUBSET Pictures, held : SUBSET Pictures,
     terminate : BOOLEAN, frameEvent : BOOLEAN, abandoned : BOOLEAN]

\* Every variable has its type.  A chain is deleted at most once, by the callback
\* or by its thread, and the monitor has no processor but that of the newest chain,
\* or of the one before it while an assignment stops it.
TypeOK ==
    /\ adapter \in {"off", "init", "create", "arrive", "up", "failed"}
    /\ context \in {"none", "created", "arrived", "gone"}
    /\ cursor \in {"none", "runs", "told", "ended"}
    /\ op \in {"none", "assign", "unassign", "cleanup"}
    /\ at \in {"idle", "joinCursor", "stop", "join", "device", "free"}
    /\ assigned \in 0..MaxChains
    /\ current \in {0, IF op = "assign" /\ at \in {"stop", "join"} THEN assigned - 1 ELSE assigned}
    /\ chain \in [Chains -> ChainStates]
    /\ screen \in Numbers /\ sent \in Numbers /\ missed \in Numbers

\* No thread outlives the object it works for: the cursor thread has its
\* monitor context, and a processing thread the processor of its chain, until it
\* ends, whichever callbacks follow each other.
OwnersOutliveThreads ==
    /\ cursor \in {"runs", "told"} => context \in {"created", "arrived"}
    /\ \A c \in Chains :
         chain[c].thread \in Running => current = c /\ context = "arrived"

\* A chain is not deleted while its thread works on it, and when no callback runs
\* every chain but the processor's has gone back to the OS.  The exception is a
\* chain whose thread could not be created.
ChainsAreReturned ==
    \A c \in Chains :
        /\ chain[c].thread \in Running => chain[c].deleted = 0
        /\ chain[c].thread = "ended" => chain[c].deleted = 1
        /\ (at = "idle" /\ c <= assigned /\ c # current /\ chain[c].thread # "none")
               => chain[c].deleted = 1

\* Threads and chains end in the right order: a thread before its owner, a chain after
\* its thread, and once.
LifetimesNest == OwnersOutliveThreads /\ ChainsAreReturned

\* The service never sees an older picture after a newer one, although the chains
\* are drained by different threads.
PicturesInOrder == [][sent' >= sent]_sent

\* Every callback returns: no destructor waits for ever for a thread.
CallbacksReturn == []<>(at = "idle")

\* The comment on WdfObjectDelete: an abandoned chain goes back to the OS, even when
\* nothing wakes the thread, unless it has no thread.
AbandonedChainsReturn ==
    \A c \in Chains : chain[c].abandoned ~> (chain[c].deleted = 1 \/ chain[c].thread = "none")

\* What the OS drew last is sent, unless it cannot be copied, or the chain is lost or
\* taken away.
NewestPictureSent ==
    []<>(\A c \in Chains :
            (chain[c].thread \in Looping /\ ~chain[c].abandoned /\ ~chain[c].terminate)
                => chain[c].drawn <= sent \/ chain[c].drawn <= missed)
=============================================================================
