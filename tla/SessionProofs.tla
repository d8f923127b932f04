----------------------------- MODULE SessionProofs -----------------------------
(***************************************************************************)
(* The coding session and the two that live with it: the conversation it   *)
(* writes to, and the protected project.  What the state of a session tells*)
(* of its turn (SessionInv) is kept by every step of the session, so it    *)
(* holds in both; each adds an invariant about its own data.               *)
(***************************************************************************)
EXTENDS Conversations, WorkspaceProtection, TLAPS

(* How the session goes on from a prompt, from a message that was read and *)
(* from a restart; all of them may write its directory.                    *)
Sends ==
    /\ op = "send" /\ op' = "ask" /\ Call
    /\ turn' = (IF pi = "up" /\ turn = "idle" THEN "asked" ELSE turn)
    /\ UNCHANGED <<sess, clean, deleted, dir, pi, scan, aborted, check, late>>

GivesUp ==
    /\ op = "send" /\ op' = "" /\ SetState("READY") /\ late' = (late /\ turn # "idle")
    /\ UNCHANGED <<clean, deleted, rpc, pi, turn, scan, aborted, check>>

ReadsOn ==
    /\ scan = "record" /\ scan' = "read" /\ (Persist \/ UNCHANGED dir)
    /\ UNCHANGED <<sess, clean, deleted, op, rpc, pi, turn, aborted, check, late>>

Goes == SessionNext \/ Sends \/ GivesUp \/ ReadsOn

LEMMA PlacesKept ==
    ASSUME SessionPlaces, UNCHANGED <<sess, pi, turn, scan, check>>, op' \in Callers,
           rpc' \in {rpc, "sent", "failed"}, dir' \in {dir, "session"}
    PROVE  SessionPlaces'
BY DEF SessionPlaces

LEMMA SessionTypesStep == SessionTypes /\ Goes => SessionTypes'
<1> SUFFICES ASSUME SessionTypes, Goes PROVE SessionTypes'
    OBVIOUS
<1> USE DEF SessionTypes, SessionPlaces, SessionFlags, States, Callers, Persist, SetState, Call,
        Release, Kill, process
<1>1. CASE Answer \/ Unanswered \/ Start \/ Prompt
    BY <1>1 DEF Answer, Unanswered, Start, Prompt
<1>2. CASE Started \/ Prompted
    BY <1>2 DEF Started, Prompted
<1>3. ASSUME NEW then \in {"clear", "drain"}, Clear(then) PROVE SessionTypes'
  <2>1. /\ UNCHANGED <<sess, clean, deleted, pi, turn, scan, check, late>> /\ op' = then
        /\ rpc' \in {"sent", "failed"} /\ dir' \in {dir, "session"}
    BY <1>3 DEF Clear
  <2>2. aborted' \in BOOLEAN
    BY <1>3 DEF Clear
  <2>3. SessionPlaces'
    BY <2>1, PlacesKept
  <2>4. SessionFlags'
    BY <2>1, <2>2
  <2>5. QED
    BY <2>3, <2>4
<1>11. ASSUME op' \in {"closing", "scope"}, UNCHANGED <<sess, clean, deleted, dir, rpc, process>>
       PROVE  SessionTypes'
  <2>1. SessionPlaces'
    BY <1>11, PlacesKept
  <2>2. SessionFlags'
    BY <1>11
  <2>3. QED
    BY <2>1, <2>2
<1>4. CASE Cleared \/ Aborted
    BY <1>4 DEF Cleared, Aborted
<1>5. CASE Stopped \/ Closed
    BY <1>5 DEF Stopped, Closed
<1>6. CASE PiDies \/ Waited \/ Eof \/ AgentStart \/ MessageEnd \/ AgentEnd
    BY <1>6 DEF PiDies, Waited, Eof, AgentStart, MessageEnd, AgentEnd
<1>7. CASE EndTurn \/ Incomplete \/ BeginVerification \/ Verify
    BY <1>7 DEF EndTurn, Incomplete, BeginVerification, Verify, Queue
<1>8. CASE Checks \/ Checked
    BY <1>8 DEF Checks, Checked
<1>9. CASE Sends \/ GivesUp \/ ReadsOn
    BY <1>9 DEF Sends, GivesUp, ReadsOn
<1>10. QED
    BY <1>1, <1>2, <1>3, <1>4, <1>5, <1>6, <1>7, <1>8, <1>9, <1>11 DEF Goes, SessionNext, Abort,
       Close, Drain

(* A turn begins in Sends only; what was lost track of stays so until the  *)
(* turn ends.                                                              *)
LEMMA TurnMoves ==
    ASSUME SessionTypes, SessionNext \/ GivesUp \/ ReadsOn, turn' # "idle"
    PROVE  turn # "idle" /\ (late => late')
<1> USE DEF SessionTypes, SessionPlaces, SessionFlags
<1>1. CASE Answer \/ Unanswered \/ Start \/ Started \/ Prompt \/ Prompted
    BY <1>1 DEF Answer, Unanswered, Start, Started, Prompt, Prompted, process
<1>2. CASE Abort \/ Cleared \/ Aborted \/ Close \/ Drain \/ Stopped \/ Closed
    BY <1>2 DEF Abort, Cleared, Aborted, Close, Drain, Stopped, Closed, Clear, process
<1>3. CASE PiDies \/ Waited \/ Eof \/ AgentStart \/ MessageEnd \/ AgentEnd
    BY <1>3 DEF PiDies, Waited, Eof, AgentStart, MessageEnd, AgentEnd
<1>4. CASE EndTurn \/ Incomplete \/ BeginVerification \/ Verify \/ Checks \/ Checked
    BY <1>4 DEF EndTurn, Incomplete, BeginVerification, Verify, Checks, Checked
<1>5. CASE GivesUp \/ ReadsOn
    BY <1>5 DEF GivesUp, ReadsOn
<1>6. QED
    BY <1>1, <1>2, <1>3, <1>4, <1>5 DEF SessionNext

LEMMA LostStays ==
    SessionTypes /\ Lost /\ (SessionNext \/ GivesUp \/ ReadsOn) => Lost'
BY TurnMoves DEF Lost

LEMMA TurnStep == SessionInv /\ Goes => TurnIsTold'
<1> SUFFICES ASSUME SessionInv, Goes, ~Lost' PROVE TurnIsTold'
    BY DEF TurnIsTold
<1> USE DEF SessionInv, TurnIsTold
<1>1. CASE Sends
    BY <1>1 DEF Sends, Call, PromptIsTold, Lost
<1>2. CASE GivesUp
    BY <1>2, LostStays DEF GivesUp, PromptIsTold, SetState
<1>3. CASE ReadsOn
    BY <1>3, LostStays DEF ReadsOn
<1>4. ASSUME SessionNext
      PROVE  TurnIsTold'
  <2>0. ~Lost
    BY <1>4, LostStays
  <2>1. CASE Answer \/ Unanswered
    BY <2>0, <2>1 DEF Answer, Unanswered, process, HolderFindsNone
  <2>2. CASE Start \/ Started \/ Prompt
    BY <2>0, <2>2 DEF Start, Started, Prompt, HolderFindsNone
  <2>3. CASE Prompted
    BY <2>0, <2>3 DEF Prompted, Lost
  <2>4. CASE Abort \/ Close \/ Drain
    BY <2>0, <2>4 DEF Abort, Close, Drain, Clear, process, Call
  <2>5. CASE Cleared
    BY <2>0, <2>5 DEF Cleared, SetState, process
  <2>6. CASE Aborted
    BY <2>0, <2>6 DEF Aborted, SetState, process, HolderFindsNone, Lost
  <2>7. CASE Stopped \/ Closed
    BY <2>0, <2>7 DEF Stopped, Closed, process, HolderFindsNone
  <2>8. CASE PiDies \/ Waited \/ Eof
    BY <2>0, <2>8 DEF PiDies, Waited, Eof, Lost
  <2>9. CASE AgentStart \/ MessageEnd \/ AgentEnd
    BY <2>0, <2>9 DEF AgentStart, MessageEnd, AgentEnd, SetState, Lost
  <2>10. CASE EndTurn \/ Incomplete
    BY <2>0, <2>10 DEF EndTurn, Incomplete, Lost
  <2>11. CASE BeginVerification \/ Verify
    BY <2>0, <2>11 DEF BeginVerification, Verify, Queue, SetState
  <2>12. CASE Checks \/ Checked
    BY <2>0, <2>12 DEF Checks, Checked, HolderFindsNone
  <2>13. QED
    BY <1>4, <2>1, <2>2, <2>3, <2>4, <2>5, <2>6, <2>7, <2>8, <2>9, <2>10, <2>11, <2>12 DEF
       SessionNext
<1>5. QED
    BY <1>1, <1>2, <1>3, <1>4 DEF Goes

LEMMA PromptStep == SessionInv /\ Goes => PromptIsTold'
<1> SUFFICES ASSUME SessionInv, Goes, op' = "send" PROVE PromptIsTold'
    BY DEF PromptIsTold
<1> USE DEF SessionInv, PromptIsTold, SessionTypes, SessionPlaces, SessionFlags
<1>1. CASE Prompt
    BY <1>1 DEF Prompt, SetState, TurnIsTold, Lost, Known
<1>2. ASSUME ~Prompt
      PROVE  op = "send" /\ (SessionNext \/ ReadsOn)
  <2>1. CASE Answer \/ Unanswered \/ Start \/ Started \/ Prompted
    BY <2>1 DEF SessionNext, Answer, Unanswered, Start, Started, Prompted, Release, process
  <2>2. CASE Abort \/ Cleared \/ Aborted \/ Close \/ Drain \/ Stopped \/ Closed
    BY <2>2 DEF SessionNext, Abort, Cleared, Aborted, Close, Drain, Stopped, Closed, Clear,
       Release, process
  <2>3. CASE PiDies \/ Waited \/ Eof \/ AgentStart \/ MessageEnd \/ AgentEnd
    BY <2>3 DEF SessionNext, PiDies, Waited, Eof, AgentStart, MessageEnd, AgentEnd
  <2>4. CASE EndTurn \/ Incomplete \/ BeginVerification \/ Verify \/ Checks \/ Checked
    BY <2>4 DEF SessionNext, EndTurn, Incomplete, BeginVerification, Verify, Checks, Checked
  <2>5. CASE Sends \/ GivesUp \/ ReadsOn
    BY <2>5 DEF Sends, GivesUp, ReadsOn
  <2>6. QED
    BY <1>2, <2>1, <2>2, <2>3, <2>4, <2>5 DEF Goes, SessionNext
<1>3. ASSUME ~Prompt
      PROVE  PromptIsTold'
  <2>0. op = "send" /\ Lost /\ Lost'
    BY <1>2, <1>3, LostStays
  <2>1. CASE Answer \/ Unanswered
    BY <2>0, <2>1 DEF Answer, Unanswered, process
  <2>2. CASE PiDies \/ Waited
    BY <2>0, <2>2 DEF PiDies, Waited, Persist
  <2>3. CASE Eof \/ AgentStart \/ MessageEnd
    BY <2>0, <2>3 DEF Eof, AgentStart, MessageEnd, SetState
  <2>4. CASE AgentEnd
    BY <2>0, <2>4 DEF AgentEnd, SetState
  <2>5. CASE EndTurn \/ Incomplete
    BY <2>0, <2>5 DEF EndTurn, Incomplete, Persist
  <2>6. CASE Checked
    BY <2>0, <2>6 DEF Checked, HolderFindsNone
  <2>7. CASE ReadsOn
    BY <2>0, <2>7 DEF ReadsOn
  <2>8. QED
    BY <1>2, <1>3, <2>0, <2>1, <2>2, <2>3, <2>4, <2>5, <2>6, <2>7 DEF SessionNext, Start, Started,
       Prompted, Abort, Close, Drain, Cleared, Aborted, Stopped, Closed, BeginVerification,
       Verify, Checks
<1>4. QED
    BY <1>1, <1>3

LEMMA HolderStep == SessionInv /\ Goes => HolderFindsNone'
<1> SUFFICES ASSUME SessionInv, Goes PROVE HolderFindsNone'
    OBVIOUS
<1> DEFINE Finds == {"start", "scope", "shell", "unshell", "apply", "undo"}
<1> USE DEF SessionInv, SessionTypes, SessionPlaces, SessionFlags
<1>1. ASSUME op' \in Finds
      PROVE  Lost'
  <2>1. CASE op \in Finds
    <3>1. SessionNext \/ ReadsOn \/ GivesUp
      BY <2>1 DEF Goes, Sends
    <3>2. QED
      BY <2>1, <3>1, LostStays DEF HolderFindsNone
  <2>2. CASE op \notin Finds
    <3>1. Start \/ Aborted \/ Close
      BY <1>1, <2>2 DEF Goes, SessionNext, Answer, Unanswered, Started, Prompt, Prompted, Abort,
         Clear, Drain, Cleared, Stopped, Closed, PiDies, Waited, Eof, AgentStart, MessageEnd,
         AgentEnd, EndTurn, Incomplete, BeginVerification, Verify, Checks, Checked, Sends,
         GivesUp, ReadsOn, Release, process
    <3>2. ASSUME Start PROVE Lost
      BY <3>2 DEF Start, TurnIsTold
    <3>3. ASSUME Aborted PROVE Lost
      BY <1>1, <3>3 DEF Aborted, HolderFindsNone, Lost, Release
    <3>4. ASSUME Close PROVE Lost
      BY <1>1, <3>4 DEF Close, TurnIsTold
    <3>5. QED
      BY <3>1, <3>2, <3>3, <3>4, LostStays DEF SessionNext
  <2>3. QED
    BY <2>1, <2>2
<1>2. ASSUME op' \in {"abort", "settle"}, rpc' = "answered"
      PROVE  turn' = "idle"
  <2>1. CASE Answer
    BY <1>2, <2>1 DEF Answer, process
  <2>2. CASE ~Answer
    <3>1. /\ op \in {"abort", "settle"} /\ rpc = "answered"
          /\ SessionNext \/ GivesUp \/ ReadsOn
      BY <1>2, <2>2 DEF Goes, SessionNext, Unanswered, Start, Started, Prompt, Prompted, Abort,
         Close, Drain, Clear, Cleared, Aborted, Stopped, Closed, PiDies, Waited, Eof, AgentStart,
         MessageEnd, AgentEnd, EndTurn, Incomplete, BeginVerification, Verify, Checks, Checked,
         Sends, GivesUp, ReadsOn, Release, Call, process
    <3>2. QED
      BY <3>1, TurnMoves DEF HolderFindsNone
  <2>3. QED
    BY <2>1, <2>2
<1>3. (check' = "running") <=> (op' = "check")
  <2>0. (check = "running") <=> (op = "check")
    BY DEF HolderFindsNone
  <2>1. CASE Answer \/ Unanswered \/ Start \/ Started \/ Prompt \/ Prompted
    BY <2>0, <2>1 DEF Answer, Unanswered, Start, Started, Prompt, Prompted, Release, process
  <2>2. CASE Abort \/ Cleared \/ Aborted \/ Close \/ Drain \/ Stopped \/ Closed
    BY <2>0, <2>2 DEF Abort, Cleared, Aborted, Close, Drain, Stopped, Closed, Clear, Release,
       process
  <2>3. CASE PiDies \/ Waited \/ Eof \/ AgentStart \/ MessageEnd \/ AgentEnd
    BY <2>0, <2>3 DEF PiDies, Waited, Eof, AgentStart, MessageEnd, AgentEnd
  <2>4. CASE EndTurn \/ Incomplete \/ BeginVerification \/ Verify \/ Checks \/ Checked
    BY <2>0, <2>4 DEF EndTurn, Incomplete, BeginVerification, Verify, Checks, Checked, Queue
  <2>5. CASE Sends \/ GivesUp \/ ReadsOn
    BY <2>0, <2>5 DEF Sends, GivesUp, ReadsOn
  <2>6. QED
    BY <2>1, <2>2, <2>3, <2>4, <2>5 DEF Goes, SessionNext
<1>4. QED
    BY <1>1, <1>2, <1>3 DEF HolderFindsNone

(* However the session goes on, it tells of its turn.                      *)
LEMMA SessionStep == SessionInv /\ Goes => SessionInv'
BY SessionTypesStep, TurnStep, PromptStep, HolderStep DEF SessionInv

LEMMA RestartStep == SessionTypes /\ SessionRestarts => SessionInv'
BY DEF SessionTypes, SessionPlaces, SessionFlags, States, Callers, SessionRestarts, SessionInv,
   TurnIsTold, PromptIsTold, HolderFindsNone, Lost

-----------------------------------------------------------------------------
(* Conversations *)

(* What does not concern the session.                                      *)
Apart == \/ Chats \/ Load \/ Discard \/ OtherRefers \/ OtherDeleted \/ Initialize
         \/ \E M \in SUBSET seen : Put(M)

LEMMA ApartFromSession == Apart => UNCHANGED session
<1> SUFFICES ASSUME Apart PROVE UNCHANGED session
    OBVIOUS
<1>1. CASE Chats
    BY <1>1 DEF Chats, Begin, Submit, Reserve, Progress, Finish, Leave
<1>2. CASE Load \/ Discard \/ OtherRefers \/ OtherDeleted \/ Initialize
    BY <1>2 DEF Load, Discard, OtherRefers, OtherDeleted, Initialize
<1>3. CASE \E M \in SUBSET seen : Put(M)
    BY <1>3 DEF Put
<1>4. QED
    BY <1>1, <1>2, <1>3 DEF Apart

(* A prompt under way in the conversation, and what is written of a message*)
(* that was read.                                                          *)
LEMMA RecordGoes == Record => (Sends /\ Active = {}) \/ GivesUp
BY DEF Record, Sends, GivesUp

LEMMA AppendGoes == Append => ReadsOn
BY DEF Append, ReadsOn, Persist

LEMMA StillTold == SessionInv /\ UNCHANGED session => SessionInv'
<1> SUFFICES ASSUME SessionInv, UNCHANGED session PROVE SessionInv'
    OBVIOUS
<1>0. /\ UNCHANGED <<sess, dir, op, rpc>> /\ UNCHANGED <<pi, turn, scan, check>>
      /\ UNCHANGED <<clean, deleted, aborted, late>>
    BY DEF session, process
<1>1. SessionTypes'
  <2>0. SessionPlaces
    BY DEF SessionInv, SessionTypes
  <2>1. SessionPlaces'
    <3>1. sess' = sess /\ op' = op
      BY <1>0
    <3>2. QED
      BY <1>0, <2>0, <3>1 DEF SessionPlaces
  <2>2. SessionFlags'
    BY <1>0 DEF SessionInv, SessionTypes, SessionFlags
  <2>3. QED
    BY <2>1, <2>2 DEF SessionTypes
<1>2. TurnIsTold' /\ (Lost <=> Lost')
    BY DEF SessionInv, TurnIsTold, Lost, session, process
<1>3. PromptIsTold'
    BY <1>2 DEF SessionInv, PromptIsTold, session, process
<1>4. HolderFindsNone'
    BY <1>2 DEF SessionInv, HolderFindsNone, session, process
<1>5. QED
    BY <1>1, <1>2, <1>3, <1>4 DEF SessionInv

LEMMA SessionInvStep == Inv /\ [Next]_vars => SessionInv'
<1> SUFFICES ASSUME Inv, [Next]_vars PROVE SessionInv'
    OBVIOUS
<1>0. SessionInv /\ SessionTypes
    BY DEF Inv, SessionInv
<1>1. CASE UNCHANGED session
    BY <1>0, <1>1, StillTold
<1>2. CASE Delete
  <2>1. /\ UNCHANGED <<sess, clean, op, rpc, process>> /\ deleted' \in BOOLEAN
        /\ dir' \in {"no", dir} /\ (deleted' = deleted \/ sess = "CLOSED")
    BY <1>0, <1>2 DEF Delete, DropSession, session, SessionTypes, SessionFlags, Known
  <2>2. QED
    <3>0. UNCHANGED <<sess, clean, op, rpc, pi, turn, scan, aborted, check, late>>
      BY <2>1 DEF process
    <3>1. SessionTypes'
      <4>1. SessionPlaces'
        BY <1>0, <2>1, <3>0 DEF SessionTypes, SessionPlaces
      <4>2. SessionFlags'
        BY <1>0, <2>1, <3>0 DEF SessionTypes, SessionFlags
      <4>3. QED
        BY <4>1, <4>2 DEF SessionTypes
    <3>2. TurnIsTold' /\ (Lost <=> Lost')
      BY <1>0, <2>1 DEF process, TurnIsTold, Lost, SessionInv
    <3>3. PromptIsTold'
      BY <1>0, <2>1, <3>2 DEF process, PromptIsTold, SessionInv
    <3>4. HolderFindsNone'
      BY <1>0, <2>1, <3>2 DEF process, HolderFindsNone, SessionInv
    <3>5. QED
      BY <3>1, <3>2, <3>3, <3>4 DEF SessionInv
<1>3. CASE Create
  <2>1. /\ UNCHANGED <<clean, deleted, op, rpc, process>> /\ sess = "none"
        /\ dir' \in {"session", "unlinked"} /\ sess' \in {"none", "CONNECTED", "FAILED"}
    BY <1>3 DEF Create
  <2>0. UNCHANGED <<clean, deleted, op, rpc, pi, turn, scan, aborted, check, late>>
    BY <2>1 DEF process
  <2>2. SessionTypes'
    <3>1. SessionPlaces'
      BY <1>0, <2>0, <2>1 DEF SessionTypes, SessionPlaces, States
    <3>2. SessionFlags'
      BY <1>0, <2>0, <2>1 DEF SessionTypes, SessionFlags
    <3>3. QED
      BY <3>1, <3>2 DEF SessionTypes
  <2>3. TurnIsTold' /\ (Lost <=> Lost')
    BY <1>0, <2>1 DEF process, TurnIsTold, Lost, SessionInv
  <2>4. PromptIsTold'
    BY <1>0, <2>1, <2>3 DEF process, PromptIsTold, SessionInv
  <2>5. HolderFindsNone'
    BY <1>0, <2>1, <2>3 DEF process, HolderFindsNone, SessionInv
  <2>6. QED
    BY <2>2, <2>3, <2>4, <2>5 DEF SessionInv
<1>4. CASE Record \/ Append \/ SessionNext
    BY <1>0, <1>4, RecordGoes, AppendGoes, SessionStep DEF Goes
<1>5. CASE Crash
    BY <1>0, <1>5, RestartStep DEF Crash
<1>6. QED
    BY <1>1, <1>2, <1>3, <1>4, <1>5, ApartFromSession DEF Next, Apart, vars

(* A chat joins those that use the conversation by Begin only.             *)
LEMMA ActiveMoves ==
    ASSUME ChatTypes, [Next]_vars
    PROVE  Active' \subseteq Active \/ \E h \in Chat : Begin(h)
<1> USE DEF ChatTypes, Goto, Active, Using
<1>1. ASSUME NEW h \in Chat, Submit(h) \/ Reserve(h) \/ Progress(h) \/ Finish(h) \/ Leave(h)
      PROVE  Active' \subseteq Active
  <2>1. chat[h] \in Using /\ \A g \in Chat \ {h} : chat'[g] = chat[g]
    BY <1>1 DEF Submit, Reserve, Progress, Finish, Leave, Save
  <2>2. QED
    BY <2>1
<1>2. CASE Crash
    BY <1>2 DEF Crash
<1>3. CASE Load \/ Discard \/ OtherRefers \/ OtherDeleted \/ Initialize \/ Delete \/ Create
    BY <1>3 DEF Load, Discard, OtherRefers, OtherDeleted, Initialize, Delete, Create
<1>4. CASE Record \/ Append \/ \E M \in SUBSET seen : Put(M)
    BY <1>4 DEF Record, Append, Put
<1>5. QED
    BY <1>1, <1>2, <1>3, <1>4 DEF Next, Chats, vars

LEMMA OneStep == Inv /\ [Next]_vars => OneAtATime'
<1> SUFFICES ASSUME Inv, [Next]_vars, turn' # "idle", Active' # {} PROVE late'
    BY DEF OneAtATime
<1>0. SessionTypes /\ TurnIsTold /\ ChatTypes /\ (Active # {} => Lost)
    BY DEF Inv, SessionInv, TypeOK, OneAtATime, Lost
<1>1. CASE Apart
  <2>1. ASSUME NEW h \in Chat, Begin(h)
        PROVE  Lost
    BY <1>0, <2>1 DEF Begin, Busy, Known, TurnIsTold
  <2>2. Lost /\ UNCHANGED session
    BY <1>0, <1>1, <2>1, ActiveMoves, ApartFromSession
  <2>3. QED
    BY <2>2 DEF session, process, Lost
<1>2. CASE Delete \/ Create
  <2>1. UNCHANGED <<turn, late, chat>>
    BY <1>2 DEF Delete, DropSession, Create, session, process
  <2>2. QED
    BY <1>0, <2>1 DEF Active, Lost
<1>3. CASE Record \/ Append \/ (SessionNext /\ UNCHANGED chat)
  <2>1. SessionNext \/ GivesUp \/ ReadsOn \/ Active = {}
    BY <1>3, RecordGoes, AppendGoes
  <2>2. UNCHANGED chat
    BY <1>3 DEF Record, Append
  <2>3. QED
    BY <1>0, <2>1, <2>2, TurnMoves DEF Active, Lost
<1>4. CASE Crash
    BY <1>4 DEF Crash, SessionRestarts
<1>5. CASE UNCHANGED vars
    BY <1>0, <1>5 DEF vars, session, process, Active, Lost
<1>6. QED
    BY <1>1, <1>2, <1>3, <1>4, <1>5 DEF Next, Apart

-----------------------------------------------------------------------------
(* The record *)

LEMMA Names == \A h, g : Ask(h) # Reply(g) /\ Ask(h) # Pi /\ Reply(h) # Pi
BY DEF Ask, Reply, Pi

(* A write leaves the record as it is, or it is the one that was meant and *)
(* no copy of it is current.                                               *)
LEMMA Written ==
    ASSUME NEW out, NEW M, NEW P, Write(out, M, P)
    PROVE  /\ exists' = exists
           /\ \/ UNCHANGED <<msgs, pending, tab>>
              \/ msgs' = M /\ pending' = P /\ tab' \in {"none", "stale"} /\ out # "refused"
BY DEF Write, record

(* What becomes of an answer when its chat saves it.                       *)
LEMMA Saved ==
    ASSUME NEW h, NEW P, NEW then, Save(h, P, then)
    PROVE  /\ exists' = exists /\ msgs' = msgs /\ (tab' = tab \/ tab' \in {"none", "stale"})
           /\ \/ pending' = P /\ lost' = lost /\ Goto(h, then)
              \/ /\ pending' = pending \ {h} \/ (pending' = pending /\ lost' = lost \cup {h})
                 /\ lost' = lost \/ lost' = lost \cup {h}
                 /\ Goto(h, IF then = "started" THEN "failed" ELSE then)
BY DEF Save, Write, record, Outcomes

(* What happens to the messages: one is added, or a browser saves, or the  *)
(* record is deleted.                                                      *)
Adds(m) == /\ exists' = exists /\ seen' = seen /\ pending \subseteq pending'
           /\ \/ UNCHANGED <<msgs, tab>>
              \/ msgs' = msgs \cup {m} /\ tab' \in {"none", "stale"}

LEMMA RecordMoves ==
    ASSUME RecordTypes, BrowserTypes, [Next]_vars
    PROVE  \/ \E h \in Chat : Submit(h) \/ Reserve(h)
           \/ /\ UNCHANGED <<exists, msgs, seen>> /\ (tab' = tab \/ tab' \in {"none", "stale"})
              /\ pending' \subseteq pending
           \/ \E M \in SUBSET seen : Put(M)
           \/ Load \/ Delete \/ Record \/ Append
<1>1. ASSUME NEW h \in Chat, Begin(h) \/ Progress(h) \/ Finish(h) \/ Leave(h)
      PROVE  /\ UNCHANGED <<exists, msgs, seen>> /\ (tab' = tab \/ tab' \in {"none", "stale"})
             /\ pending' \subseteq pending
    BY <1>1, Saved DEF Begin, Progress, Finish, Leave, record, browser
<1>2. CASE Discard \/ OtherRefers \/ OtherDeleted \/ Crash \/ UNCHANGED vars
    BY <1>2 DEF Discard, OtherRefers, OtherDeleted, Crash, vars, record, browser
<1>3. CASE Create
    BY <1>3, Written DEF Create
<1>6. CASE Initialize
  <2>1. CASE pending = {}
    BY <1>6, <2>1 DEF Initialize, record
  <2>2. CASE pending # {}
    BY <1>6, <2>2, Written DEF Initialize
  <2>3. QED
    BY <2>1, <2>2
<1>4. CASE SessionNext /\ UNCHANGED <<record, browser>>
    BY <1>4 DEF record, browser
<1>5. QED
    BY <1>1, <1>2, <1>3, <1>4, <1>6 DEF Next, Chats

LEMMA RecordTypesStep == TypeOK /\ [Next]_vars => RecordTypes'
<1> SUFFICES ASSUME TypeOK, [Next]_vars PROVE RecordTypes'
    OBVIOUS
<1> USE DEF RecordTypes
<1>0. RecordTypes /\ BrowserTypes /\ \A h \in Chat : Ask(h) \in Message /\ Reply(h) \in Message
      /\ Pi \in Message
    BY DEF TypeOK, Message
<1>1. exists' \in BOOLEAN /\ msgs' \subseteq Message /\ pending' \subseteq Chat
  <2>1. ASSUME NEW h \in Chat, Submit(h) \/ Reserve(h) PROVE <1>1!:
    BY <1>0, <2>1, Written DEF Submit, Reserve, record
  <2>2. ASSUME NEW M \in SUBSET seen, Put(M) PROVE <1>1!:
    BY <1>0, <2>2 DEF Put, record, BrowserTypes
  <2>3. CASE Load \/ Delete
    BY <1>0, <2>3 DEF Load, Delete, record
  <2>4. CASE Record \/ Append
    <3>1. PICK out : Write(out, msgs \cup {Pi}, pending)
      BY <2>4 DEF Record, Append
    <3>2. exists' = exists /\ (msgs' = msgs \/ msgs' = msgs \cup {Pi}) /\ pending' = pending
      BY <3>1, Written
    <3>3. exists' \in BOOLEAN
      BY <1>0, <3>2
    <3>4. msgs' \subseteq Message
      <4>1. msgs \subseteq Message /\ Pi \in Message
        BY DEF TypeOK, Message
      <4>2. msgs' \subseteq msgs \cup {Pi}
        BY <3>2
      <4>3. QED
        BY <4>1, <4>2
    <3>5. pending' \subseteq Chat
      BY <1>0, <3>2
    <3>6. QED
      BY <3>3, <3>4, <3>5
  <2>5. QED
    BY <1>0, <2>1, <2>2, <2>3, <2>4, RecordMoves
<1>2. upload' \in BOOLEAN /\ other' \in BOOLEAN
  <2>1. CASE UNCHANGED files
    BY <1>0, <2>1 DEF files
  <2>2. CASE Delete \/ Discard \/ OtherRefers \/ OtherDeleted
    BY <1>0, <2>2 DEF Delete, DropUpload, Discard, OtherRefers, OtherDeleted
  <2>3. ASSUME NEW h \in Chat,
               Begin(h) \/ Submit(h) \/ Reserve(h) \/ Progress(h) \/ Finish(h) \/ Leave(h)
        PROVE  UNCHANGED files
    BY <2>3 DEF Begin, Submit, Reserve, Progress, Finish, Leave
  <2>4. QED
    BY <2>1, <2>2, <2>3 DEF Next, Chats, Load, Put, Create, Record, Append, Crash, Initialize,
       vars
<1>3. QED
    BY <1>1, <1>2

-----------------------------------------------------------------------------
(* The chats and what they leave behind *)

(* A chat goes from place to place.                                        *)
LEMMA ChatGoes ==
    ASSUME NEW h \in Chat,
           Begin(h) \/ Submit(h) \/ Reserve(h) \/ Progress(h) \/ Finish(h) \/ Leave(h)
    PROVE  /\ \E l \in {"ended"} \cup Using : Goto(h, l)
           /\ UNCHANGED <<initialized, torn, seen>>
           /\ lost' \subseteq lost \cup {h} /\ stranded' \subseteq stranded \cup {h}
<1> USE DEF Using, history, browser
<1>1. CASE Begin(h) \/ Leave(h)
    BY <1>1 DEF Begin, Leave
<1>2. CASE Submit(h) \/ Reserve(h)
    BY <1>2 DEF Submit, Reserve
<1>3. CASE Progress(h)
    BY <1>3, Saved DEF Progress
<1>4. CASE Finish(h)
    BY <1>4, Saved DEF Finish
<1>5. QED
    BY <1>1, <1>2, <1>3, <1>4

(* Nobody else has a hand in that.                                         *)
LEMMA ChatsKept ==
    [Next]_vars => \/ Chats \/ Crash \/ Initialize
                   \/ /\ UNCHANGED <<initialized, chat, lost, stranded>>
                      /\ pending' \subseteq pending
<1> SUFFICES ASSUME [Next]_vars, ~Chats, ~Crash, ~Initialize
             PROVE  UNCHANGED <<initialized, chat, lost, stranded>> /\ pending' \subseteq pending
    OBVIOUS
<1>1. CASE Load \/ Discard \/ OtherRefers \/ OtherDeleted \/ UNCHANGED vars
    BY <1>1 DEF Load, Discard, OtherRefers, OtherDeleted, vars, record, history
<1>2. CASE Delete
    BY <1>2 DEF Delete, record
<1>3. CASE \E M \in SUBSET seen : Put(M)
    BY <1>3 DEF Put, record, history
<1>4. CASE Create \/ Record \/ Append
    BY <1>4, Written DEF Create, Record, Append, history
<1>5. CASE UNCHANGED <<record, files, initialized, chat, browser, history>>
    BY <1>5 DEF record, history
<1>6. QED
    BY <1>1, <1>2, <1>3, <1>4, <1>5 DEF Next

LEMMA ChatTypesStep == ChatTypes /\ [Next]_vars => ChatTypes'
<1> SUFFICES ASSUME ChatTypes, [Next]_vars PROVE ChatTypes'
    OBVIOUS
<1> USE DEF ChatTypes, Using
<1>1. CASE Chats
    BY <1>1, ChatGoes DEF Chats, Goto
<1>2. CASE Crash
    BY <1>2 DEF Crash
<1>3. CASE Initialize
    BY <1>3 DEF Initialize
<1>4. QED
    BY <1>1, <1>2, <1>3, ChatsKept

LEMMA SettlingStep == TypeOK /\ Settling /\ [Next]_vars => Settling'
<1> SUFFICES ASSUME TypeOK, Settling, [Next]_vars PROVE Settling'
    OBVIOUS
<1> USE DEF Settling
<1>0. ChatTypes /\ pending \subseteq Chat
    BY DEF TypeOK, RecordTypes
<1> USE <1>0 DEF ChatTypes
<1>1. ASSUME NEW h \in Chat,
             Begin(h) \/ Submit(h) \/ Reserve(h) \/ Progress(h) \/ Finish(h) \/ Leave(h)
      PROVE  Settling'
  <2>1. initialized /\ initialized' = initialized
    BY <1>1, ChatGoes DEF Begin, Open, Submit, Reserve, Progress, Finish, Leave
  <2>2. \A g \in Chat \ {h} : chat'[g] = chat[g]
    BY <1>1, ChatGoes DEF Goto
  <2>3. /\ pending' \subseteq pending \cup {h}
        /\ lost \subseteq lost' /\ stranded \subseteq stranded'
        /\ h \in pending' \ (lost' \cup stranded') => chat'[h] = "started"
    <3>1. CASE Begin(h) \/ Leave(h)
      BY <2>1, <3>1 DEF Begin, Leave, record, history
    <3>2. CASE Submit(h)
      BY <2>1, <3>2, Written DEF Submit, record, history
    <3>3. CASE Reserve(h)
      BY <2>1, <3>3, Written DEF Reserve, Outcomes, Write, record, Goto
    <3>4. CASE Progress(h)
      BY <2>1, <3>4, Saved DEF Progress, Goto
    <3>5. CASE Finish(h)
      BY <2>1, <3>5, Saved DEF Finish, Goto, record
    <3>6. QED
      BY <1>1, <3>1, <3>2, <3>3, <3>4, <3>5
  <2>4. ASSUME NEW g \in pending' \ (lost' \cup stranded')
        PROVE  chat'[g] = "started"
    <3>1. CASE g = h
      BY <2>3, <2>4, <3>1
    <3>2. CASE g # h
      <4>1. g \in pending \ (lost \cup stranded) /\ g \in Chat
        BY <2>3, <2>4, <3>2
      <4>2. chat[g] = "started"
        BY <2>1, <4>1
      <4>3. QED
        BY <2>2, <3>2, <4>1, <4>2
    <3>3. QED
      BY <3>1, <3>2
  <2>5. QED
    BY <2>1, <2>4
<1>2. CASE Crash
  <2>1. /\ UNCHANGED <<pending, lost, stranded>> /\ initialized' = FALSE
        /\ chat' = [h \in Chat |-> IF chat[h] = "none" THEN "none" ELSE "ended"]
    BY <1>2 DEF Crash, record, history
  <2>2. \A h \in Chat : chat'[h] \in {"none", "ended"} /\ (chat[h] # "none" => chat'[h] = "ended")
    BY <2>1
  <2>3. \A h \in pending' \ (lost' \cup stranded') : chat'[h] = "ended"
    BY <2>1, <2>2
  <2>4. QED
    BY <2>1, <2>2, <2>3
<1>3. CASE Initialize
    BY <1>3 DEF Initialize, Write, Outcomes, record
<1>4. QED
    BY <1>1, <1>2, <1>3, ChatsKept DEF Chats

LEMMA BrowserTypesStep == TypeOK /\ [Next]_vars => BrowserTypes'
<1> SUFFICES ASSUME TypeOK, [Next]_vars PROVE BrowserTypes'
    OBVIOUS
<1> USE DEF BrowserTypes
<1>0. BrowserTypes /\ RecordTypes
    BY DEF TypeOK
<1>1. lost' \subseteq Chat /\ stranded' \subseteq Chat
  <2>1. CASE Chats
    BY <1>0, <2>1, ChatGoes DEF Chats
  <2>2. CASE Crash \/ Initialize
    BY <1>0, <2>2 DEF Crash, Initialize, history, RecordTypes
  <2>3. QED
    BY <1>0, <2>1, <2>2, ChatsKept
<1>2. torn' \in BOOLEAN
  <2>1. CASE Chats
    BY <1>0, <2>1, ChatGoes DEF Chats
  <2>2. CASE UNCHANGED history \/ UNCHANGED vars
    BY <1>0, <2>2 DEF history, vars
  <2>3. CASE Delete \/ Initialize
    BY <1>0, <2>3 DEF Delete, Initialize
  <2>4. QED
    BY <2>1, <2>2, <2>3 DEF Next, Load, Discard, OtherRefers, OtherDeleted, Put, Create, Record,
       Append, Crash, history
<1>3. tab' \in {"none", "current", "stale"} /\ seen' \subseteq Message
  <2>1. ASSUME NEW h \in Chat, Submit(h) \/ Reserve(h)
        PROVE  <1>3!:
    BY <1>0, <2>1, Written DEF Submit, Reserve, record
  <2>2. ASSUME NEW M \in SUBSET seen, Put(M)
        PROVE  <1>3!:
    BY <1>0, <2>2 DEF Put, browser
  <2>3. CASE Load \/ Delete
    BY <1>0, <2>3 DEF Load, Delete, browser, RecordTypes
  <2>4. CASE Record \/ Append
    BY <1>0, <2>4, Written DEF Record, Append
  <2>5. QED
    BY <1>0, <2>1, <2>2, <2>3, <2>4, RecordMoves DEF TypeOK
<1>4. QED
    BY <1>1, <1>2, <1>3

-----------------------------------------------------------------------------
(* The invariant *)

LEMMA CopyStep == TypeOK /\ CopyIsTrue /\ [Next]_vars => CopyIsTrue'
<1> SUFFICES ASSUME TypeOK, CopyIsTrue, [Next]_vars PROVE CopyIsTrue'
    OBVIOUS
<1> USE DEF CopyIsTrue
<1>1. ASSUME NEW h \in Chat, Submit(h) \/ Reserve(h)
      PROVE  CopyIsTrue'
    BY <1>1, Written, ChatGoes DEF Submit, Reserve, record
<1>2. ASSUME NEW M \in SUBSET seen, Put(M)
      PROVE  CopyIsTrue'
    BY <1>2 DEF Put, record, browser
<1>3. CASE Load \/ Delete
    BY <1>3 DEF Load, Delete, record, browser
<1>4. CASE Record \/ Append
    BY <1>4, Written DEF Record, Append
<1>5. QED
    BY <1>1, <1>2, <1>3, <1>4, RecordMoves DEF TypeOK

(* Which messages refer to the upload.                                     *)
LEMMA Refers ==
    ASSUME NEW S, NEW h \in Chat
    PROVE  /\ Referring(S \cup {Reply(h)}) <=> Referring(S)
           /\ Referring(S \cup {Ask(h)}) => Referring(S) \/ h \in Carriers
<1>1. \A g : Ask(g) = Ask(h) => g = h
    BY DEF Ask
<1>2. QED
    BY <1>1, Names DEF Referring

LEMMA PiRefersNot == \A S : Referring(S \cup {Pi}) <=> Referring(S)
BY Names DEF Referring

LEMMA KeptStep == TypeOK /\ AttachmentsAreKept /\ [Next]_vars => AttachmentsAreKept'
<1> SUFFICES ASSUME TypeOK, AttachmentsAreKept, [Next]_vars PROVE AttachmentsAreKept'
    OBVIOUS
<1> USE DEF AttachmentsAreKept
<1>1. ASSUME NEW h \in Chat, Submit(h)
      PROVE  AttachmentsAreKept'
  <2>1. UNCHANGED <<upload, other, torn>>
    BY <1>1 DEF Submit, files, history
  <2>2. msgs' = msgs \/ (msgs' = msgs \cup {Ask(h)} /\ (h \in Carriers => upload))
    BY <1>1, Written DEF Submit, record
  <2>3. Referring(msgs') => Referring(msgs) \/ upload
    BY <2>2, Refers
  <2>4. QED
    BY <2>1, <2>3
<1>2. ASSUME NEW h \in Chat, Begin(h) \/ Reserve(h) \/ Progress(h) \/ Finish(h) \/ Leave(h)
      PROVE  AttachmentsAreKept'
  <2>1. UNCHANGED <<upload, other, torn>>
    BY <1>2 DEF Begin, Reserve, Progress, Finish, Leave, files, history
  <2>2. msgs' = msgs \/ msgs' = msgs \cup {Reply(h)}
    BY <1>2, Written, Saved DEF Begin, Reserve, Progress, Finish, Leave, record
  <2>3. QED
    BY <2>1, <2>2, Refers
<1>3. ASSUME NEW M \in SUBSET seen, Put(M)
      PROVE  AttachmentsAreKept'
    BY <1>3 DEF Put, files, history, record
<1>4. CASE Delete
  <2>1. other' = other /\ DropUpload
    BY <1>4 DEF Delete
  <2>2. torn' = TRUE \/ (torn' = torn /\ msgs' = {})
    BY <1>4 DEF Delete
  <2>3. ~Referring({})
    BY DEF Referring
  <2>4. QED
    BY <2>1, <2>2, <2>3 DEF DropUpload
<1>5. CASE Discard \/ OtherRefers \/ OtherDeleted
    BY <1>5 DEF Discard, OtherRefers, OtherDeleted, record, history
<1>6. CASE Record \/ Append
  <2>1. UNCHANGED <<upload, other, torn>>
    BY <1>6 DEF Record, Append, files, history
  <2>2. msgs' = msgs \/ msgs' = msgs \cup {Pi}
    BY <1>6, Written DEF Record, Append
  <2>3. QED
    BY <2>1, <2>2, PiRefersNot
<1>7. CASE Create \/ Initialize
  <2>1. UNCHANGED <<upload, other, torn>>
    BY <1>7 DEF Create, Initialize, files, history
  <2>2. msgs' = msgs
    BY <1>7, Written DEF Create, Initialize, record
  <2>3. QED
    BY <2>1, <2>2
<1>8. CASE UNCHANGED <<record, files, history>>
    BY <1>8 DEF record, files, history
<1>9. QED
    BY <1>1, <1>2, <1>3, <1>4, <1>5, <1>6, <1>7, <1>8 DEF Next, Chats, Load, Crash, vars

(* A session that was deleted was created once.                            *)
LEMMA SessionWas ==
    ASSUME Goes
    PROVE  /\ deleted' = deleted /\ (sess # "none" => sess' # "none")
           /\ dir' = dir \/ Persist \/ Checked
<1> USE DEF SetState
<1>1. CASE Answer \/ Unanswered \/ Start \/ Started \/ Prompt \/ Prompted
    BY <1>1 DEF Answer, Unanswered, Start, Started, Prompt, Prompted
<1>2. CASE Abort \/ Cleared \/ Aborted \/ Close \/ Drain \/ Stopped \/ Closed
    BY <1>2 DEF Abort, Cleared, Aborted, Close, Drain, Stopped, Closed, Clear
<1>3. CASE PiDies \/ Waited \/ Eof \/ AgentStart \/ MessageEnd \/ AgentEnd
    BY <1>3 DEF PiDies, Waited, Eof, AgentStart, MessageEnd, AgentEnd
<1>4. CASE EndTurn \/ Incomplete \/ BeginVerification \/ Verify \/ Checks \/ Checked
    BY <1>4 DEF EndTurn, Incomplete, BeginVerification, Verify, Checks, Checked, Queue
<1>5. CASE Sends \/ GivesUp \/ ReadsOn
    BY <1>5 DEF Sends, GivesUp, ReadsOn
<1>6. QED
    BY <1>1, <1>2, <1>3, <1>4, <1>5 DEF Goes, SessionNext

(* What was deleted was closed before, and is not made again.              *)
LEMMA WasThereStep == Inv /\ [Next]_vars => DeletedWasThere'
<1> SUFFICES ASSUME Inv, [Next]_vars PROVE DeletedWasThere'
    OBVIOUS
<1> USE DEF DeletedWasThere, Inv
<1>1. CASE Delete
    BY <1>1 DEF Delete, DropSession, Known, session
<1>2. CASE Create
    BY <1>2 DEF Create
<1>3. CASE Crash
    BY <1>3 DEF Crash, SessionRestarts
<1>4. CASE Record \/ Append \/ SessionNext
    BY <1>4, RecordGoes, AppendGoes, SessionWas DEF Goes
<1>5. CASE Apart \/ UNCHANGED vars
    BY <1>5, ApartFromSession DEF vars, session
<1>6. QED
    BY <1>1, <1>2, <1>3, <1>4, <1>5 DEF Next, Apart

LEMMA Initially == Init => Inv
<1> SUFFICES ASSUME Init PROVE Inv
    OBVIOUS
<1> USE DEF Init, NoSession
<1>1. TypeOK
    BY DEF TypeOK, SessionTypes, SessionPlaces, SessionFlags, States, Callers, RecordTypes,
       ChatTypes, BrowserTypes
<1>2. SessionInv
    BY <1>1 DEF SessionInv, TypeOK, TurnIsTold, Lost, PromptIsTold, HolderFindsNone
<1>3. OneAtATime /\ Settling /\ CopyIsTrue /\ DeletedWasThere /\ AttachmentsAreKept
    BY DEF OneAtATime, Settling, CopyIsTrue, DeletedWasThere, AttachmentsAreKept, Referring
<1>4. QED
    BY <1>1, <1>2, <1>3 DEF Inv

LEMMA Step == Inv /\ [Next]_vars => Inv'
<1> SUFFICES ASSUME Inv, [Next]_vars PROVE Inv'
    OBVIOUS
<1>1. TypeOK /\ SessionInv /\ Settling /\ CopyIsTrue /\ AttachmentsAreKept /\ ChatTypes
    BY DEF Inv, TypeOK
<1>2. SessionInv' /\ SessionTypes'
    BY SessionInvStep DEF SessionInv
<1>3. TypeOK'
    BY <1>1, <1>2, RecordTypesStep, ChatTypesStep, BrowserTypesStep DEF TypeOK
<1>4. QED
    BY <1>1, <1>2, <1>3, OneStep, SettlingStep, CopyStep, WasThereStep, KeptStep DEF Inv

(* A conversation, its coding session and its copies fit each other in     *)
(* every state that is reached: Inv is inductive.                          *)
THEOREM Invariance == Spec => []Inv
BY Initially, Step, PTL DEF Spec

(* Every variable keeps its type.                                          *)
THEOREM TypeCorrect == Spec => []TypeOK
<1>1. Inv => TypeOK
    BY DEF Inv
<1>2. QED
    BY <1>1, Invariance, PTL

(* Chat and coding do not write to a conversation at the same time: of     *)
(* every turn that goes on the session's state tells beginConversationUse, *)
(* unless the session lost track of it (conversations.go:302).             *)
THEOREM WritersTakeTurns == Spec => []OneAtATime
<1>1. Inv => OneAtATime
    BY DEF Inv
<1>2. QED
    BY <1>1, Invariance, PTL

(* In a store in use an answer is pending only while its chat is under way,*)
(* but for the two exceptions of RepliesSettle: the write that would have  *)
(* settled it failed, or the one that stored it was reported as failed.    *)
THEOREM AnswersSettle == Spec => []RepliesSettle
<1>1. Inv => RepliesSettle
    BY DEF Inv, TypeOK, RecordTypes, Settling, RepliesSettle, Active, Using
<1>2. QED
    BY <1>1, Invariance, PTL

(* An upload outlives whoever refers to it, unless a deletion was cut      *)
(* short.                                                                  *)
THEOREM UploadsOutlive == Spec => []AttachmentsAreKept
<1>1. Inv => AttachmentsAreKept
    BY DEF Inv
<1>2. QED
    BY <1>1, Invariance, PTL

(* No step loses a message, but for those a browser has seen and removes:  *)
(* a copy of the current revision holds every message of the record.       *)
THEOREM NothingIsLost == Spec => HistoryIsKept
<1>1. Inv /\ [Next]_vars => [exists' => msgs \ msgs' \subseteq seen \ {Pi}]_vars
  <2> SUFFICES ASSUME Inv, [Next]_vars, exists'
               PROVE  msgs \ msgs' \subseteq seen \ {Pi}
      OBVIOUS
  <2>1. ASSUME NEW h \in Chat, Submit(h) \/ Reserve(h)
        PROVE  msgs \subseteq msgs'
    <3>1. msgs' \in {msgs, msgs \cup {Ask(h)}, msgs \cup {Reply(h)}}
      BY <2>1, Written DEF Submit, Reserve, record
    <3>2. QED
      BY <3>1
  <2>2. ASSUME NEW M \in SUBSET seen, Put(M)
        PROVE  msgs \ msgs' \subseteq seen \ {Pi}
    <3>1. seen = msgs /\ (Pi \in M <=> Pi \in msgs)
      BY <2>2 DEF Inv, CopyIsTrue, Put, Open, Current
    <3>2. msgs' = msgs \/ msgs' = M
      BY <2>2 DEF Put, record
    <3>3. QED
      BY <3>1, <3>2
  <2>3. CASE Load \/ Delete
    BY <2>3 DEF Load, Delete, record
  <2>4. CASE Record \/ Append
    <3>1. msgs' \in {msgs, msgs \cup {Pi}}
      BY <2>4, Written DEF Record, Append
    <3>2. QED
      BY <3>1
  <2>5. QED
    BY <2>1, <2>2, <2>3, <2>4, RecordMoves DEF Inv, TypeOK
<1>2. QED
    BY <1>1, Invariance, PTL DEF Spec, HistoryIsKept

(* What was deleted stays so: whatever the session still writes, nothing   *)
(* makes its directory a session's again, or the record.                   *)
THEOREM DeletionLasts == Spec => DeletedStaysDeleted
<1> DEFINE Stays == /\ ~exists => ~exists'
                    /\ deleted /\ deleted' /\ dir # "session" => dir' # "session"
<1>1. Inv /\ [Next]_vars => [Stays]_vars
  <2> SUFFICES ASSUME Inv, [Next]_vars PROVE Stays \/ UNCHANGED vars
      OBVIOUS
  <2>1. ~exists => ~exists'
    <3>1. ASSUME NEW h \in Chat, Submit(h) \/ Reserve(h)
          PROVE  exists' = exists
      BY <3>1, Written DEF Submit, Reserve, record
    <3>2. CASE Record \/ Append
      BY <3>2, Written DEF Record, Append
    <3>3. QED
      BY <3>1, <3>2, RecordMoves DEF Inv, TypeOK, Put, Load, Delete, Open
  <2>2. ASSUME deleted, deleted', dir # "session"
        PROVE  dir' # "session"
    <3>1. CASE Delete
      BY <2>2, <3>1 DEF Delete, DropSession, session
    <3>2. CASE Create \/ Crash
      BY <2>2, <3>2 DEF Create, Crash, SessionRestarts, Inv, DeletedWasThere
    <3>3. CASE Checked
      BY <2>2, <3>3 DEF Checked
    <3>4. CASE Record \/ Append \/ SessionNext
      BY <2>2, <3>3, <3>4, RecordGoes, AppendGoes, SessionWas DEF Goes, Persist
    <3>5. CASE Apart \/ UNCHANGED vars
      BY <2>2, <3>5, ApartFromSession DEF vars, session
    <3>6. QED
      BY <3>1, <3>2, <3>4, <3>5 DEF Next, Apart
  <2>3. QED
    BY <2>1, <2>2
<1>2. QED
    BY <1>1, Invariance, PTL DEF Spec, DeletedStaysDeleted

-----------------------------------------------------------------------------
(* The protected project: what the session tells holds there, too.         *)

(* A shell command and an apply take opMu as the other operations do.      *)
Commands == Shell \/ Shelled \/ Apply \/ Refused \/ EndApply

LEMMA ProtectedMoves ==
    ASSUME [ProtectedNext]_protectedVars
    PROVE  \/ Goes /\ preparing' = preparing
           \/ UNCHANGED session /\ preparing' = preparing
           \/ Commands \/ CreateProtected \/ Configure \/ Restart
<1>1. CASE BeginTurn \/ CutTurn \/ Ended \/ Disqualified \/ BeginChecks \/ ReadCandidate \/ Judge
    BY <1>1 DEF BeginTurn, CutTurn, Ended, Disqualified, BeginChecks, ReadCandidate, Judge, Goes,
       SessionNext
<1>2. CASE QuietCaller \/ Quiet
    BY <1>2 DEF QuietCaller, Quiet, Goes, SessionNext
<1>3. CASE Send
    BY <1>3 DEF Send, Goes, Sends, GivesUp, Call, SetState, Persist
<1>4. CASE Recorded
    BY <1>4 DEF Recorded, Goes, ReadsOn
<1>5. CASE Review \/ Work \/ UNCHANGED protectedVars
    BY <1>5 DEF Review, Work, protectedVars, session, process
<1>6. CASE \E f \in File : Replace(f) \/ Undo(f) \/ Edit(f)
    BY <1>6 DEF Replace, Undo, Edit, session, process
<1>7. QED
    BY <1>1, <1>2, <1>3, <1>4, <1>5, <1>6 DEF ProtectedNext, Caller, Commands

LEMMA CommandStep == SessionInv /\ Commands => SessionInv'
<1> SUFFICES ASSUME SessionInv, Commands PROVE SessionInv'
    OBVIOUS
<1> USE DEF Commands
<1>1. /\ UNCHANGED <<clean, deleted, pi, turn, scan, aborted, check, late>>
      /\ op' \in {"", "shell", "unshell", "apply", "undo"}
      /\ op \in {"", "shell", "unshell", "apply", "undo"}
      /\ rpc' \in {rpc, "sent", "failed", "no"} /\ dir' \in {dir, "session"}
      /\ sess' = sess \/ (sess' \in {"SHELL", "READY", "FAILED"} /\ Lost)
  <2>1. CASE Shell
    BY <2>1 DEF Shell, process, Call, SetState, Persist, SessionInv, TurnIsTold
  <2>2. CASE Shelled
    BY <2>2 DEF Shelled, process, Call, SetState, Persist, Release, SessionInv, HolderFindsNone
  <2>3. CASE Apply
    BY <2>3 DEF Apply, process
  <2>4. CASE Refused \/ EndApply
    BY <2>4 DEF Refused, EndApply, process, Persist
  <2>5. QED
    BY <2>1, <2>2, <2>3, <2>4
<1>2. ASSUME op = "", op' # "" PROVE Lost
    BY <1>2 DEF Shell, Shelled, Apply, Refused, EndApply, SessionInv, TurnIsTold
<1>3. SessionTypes'
  <2>1. SessionPlaces'
    <3>1. sess' \in States /\ op' \in Callers
      BY <1>1 DEF SessionInv, SessionTypes, SessionPlaces, States, Callers
    <3>2. QED
      BY <1>1, <3>1 DEF SessionInv, SessionTypes, SessionPlaces
  <2>2. SessionFlags'
    BY <1>1 DEF SessionInv, SessionTypes, SessionFlags
  <2>3. QED
    BY <2>1, <2>2 DEF SessionTypes
<1>4. TurnIsTold' /\ (Lost <=> Lost')
    BY <1>1 DEF SessionInv, TurnIsTold, Lost
<1>5. PromptIsTold'
    BY <1>1 DEF PromptIsTold
<1>6. HolderFindsNone'
    BY <1>1, <1>2, <1>4 DEF SessionInv, HolderFindsNone
<1>7. QED
    BY <1>3, <1>4, <1>5, <1>6 DEF SessionInv

LEMMA ProtectedSession ==
    ASSUME SessionInv, FreshIsIdle, [ProtectedNext]_protectedVars
    PROVE  SessionInv'
<1>1. CASE Goes
    BY <1>1, SessionStep
<1>2. CASE UNCHANGED session
    BY <1>2, StillTold
<1>3. CASE Commands
    BY <1>3, CommandStep
<1>4. CASE CreateProtected \/ Configure
  <2>1. /\ UNCHANGED <<clean, deleted, op, rpc, pi, turn, scan, aborted, check, late>>
        /\ sess' \in {"PREPARING", "CONNECTED", "FAILED"} /\ dir' \in {dir, "session"}
        /\ turn = "idle" /\ op # "send"
    BY <1>4 DEF CreateProtected, Configure, process, SetState, Persist, FreshIsIdle
  <2>2. SessionTypes'
    <3>1. SessionPlaces'
      BY <2>1 DEF SessionInv, SessionTypes, SessionPlaces, States
    <3>2. SessionFlags'
      BY <2>1 DEF SessionInv, SessionTypes, SessionFlags
    <3>3. QED
      BY <3>1, <3>2 DEF SessionTypes
  <2>3. TurnIsTold' /\ PromptIsTold' /\ Lost'
    BY <2>1 DEF TurnIsTold, PromptIsTold, Lost
  <2>4. HolderFindsNone'
    BY <2>1, <2>3 DEF SessionInv, HolderFindsNone
  <2>5. QED
    BY <2>2, <2>3, <2>4 DEF SessionInv
<1>5. CASE Restart
    BY <1>5, RestartStep DEF Restart, SessionInv
<1>6. QED
    BY <1>1, <1>2, <1>3, <1>4, <1>5, ProtectedMoves

(* Nothing but a close comes in before createConfigured is done.           *)
LEMMA FreshStep ==
    ASSUME SessionInv, FreshIsIdle, [ProtectedNext]_protectedVars
    PROVE  FreshIsIdle'
<1> DEFINE New == preparing \/ sess = "none"
           Idle == /\ sess \in {"none", "PREPARING", "CLOSED"}
                   /\ op \in {"", "clear", "scope", "reap"} /\ rpc \in {"no", "failed"}
                   /\ pi = "none" /\ turn = "idle" /\ scan = "read" /\ check = "no"
<1> SUFFICES ASSUME New' PROVE Idle'
    BY DEF FreshIsIdle
<1>0. New => Idle
    BY DEF FreshIsIdle
<1>1. ASSUME Goes, preparing' = preparing
      PROVE  Idle'
  <2>0. Idle
    BY <1>0, <1>1, SessionWas
  <2>1. CASE Answer \/ Unanswered \/ Start \/ Started \/ Prompt \/ Prompted
    BY <2>0, <2>1 DEF Answer, Unanswered, Start, Started, Prompt, Prompted
  <2>2. CASE Abort \/ Cleared \/ Aborted
    BY <2>0, <2>2 DEF Abort, Cleared, Aborted, Clear, Call, Release, process
  <2>3. CASE Close \/ Drain \/ Stopped \/ Closed
    BY <2>0, <2>3 DEF Close, Drain, Stopped, Closed, Kill, SetState, process
  <2>4. CASE PiDies \/ Waited \/ Eof \/ AgentStart \/ MessageEnd \/ AgentEnd
    BY <2>0, <2>4 DEF PiDies, Waited, Eof, AgentStart, MessageEnd, AgentEnd
  <2>5. CASE EndTurn \/ Incomplete \/ BeginVerification \/ Verify \/ Checks \/ Checked
    BY <2>0, <2>5 DEF EndTurn, Incomplete, BeginVerification, Verify, Checks, Checked
  <2>6. CASE Sends \/ GivesUp \/ ReadsOn
    BY <2>0, <2>6 DEF Sends, GivesUp, ReadsOn
  <2>7. QED
    BY <1>1, <2>1, <2>2, <2>3, <2>4, <2>5, <2>6 DEF Goes, SessionNext
<1>2. ASSUME UNCHANGED session, preparing' = preparing
      PROVE  Idle'
  <2>1. Idle /\ UNCHANGED <<sess, op, rpc, pi, turn, scan, check>>
    BY <1>0, <1>2 DEF session, process
  <2>2. QED
    BY <2>1
<1>3. CASE Commands
  <2>1. CASE Shell \/ Apply
    BY <1>0, <2>1 DEF Shell, Apply, SetState
  <2>2. CASE Shelled \/ Refused \/ EndApply
    BY <1>0, <2>2 DEF Shelled, Refused, EndApply, SetState, Release
  <2>3. QED
    BY <1>3, <2>1, <2>2 DEF Commands
<1>4. CASE CreateProtected
    BY <1>0, <1>4 DEF CreateProtected, SetState, process
<1>5. CASE Configure
    BY <1>5 DEF Configure, SetState
<1>6. CASE Restart
    BY <1>6 DEF Restart, SessionRestarts
<1>7. QED
    BY <1>1, <1>2, <1>3, <1>4, <1>5, <1>6, ProtectedMoves

(* What happens to the trees.                                              *)
LEMMA TreeMoves ==
    ASSUME [ProtectedNext]_protectedVars
    PROVE  /\ tree' \in {tree, cand, Snapshot} /\ cand' \in {cand, working, tree, Snapshot}
           /\ working' = working \/ working' \in Candidate
<1> USE DEF disk, verification, transaction, NoPass
<1>1. CASE CreateProtected \/ Configure \/ BeginTurn \/ Send \/ Recorded \/ Shell \/ Shelled
    BY <1>1 DEF CreateProtected, Configure, BeginTurn, Send, Recorded, Shell, Shelled
<1>2. CASE CutTurn \/ Ended \/ Disqualified \/ BeginChecks \/ Review
    BY <1>2 DEF CutTurn, Ended, Disqualified, BeginChecks, Review
<1>3. CASE ReadCandidate \/ Judge
    BY <1>3 DEF ReadCandidate, Judge, Pass
<1>4. CASE Apply \/ Refused \/ EndApply
    BY <1>4 DEF Apply, Refused, EndApply
<1>5. CASE \E f \in File : Replace(f) \/ Undo(f) \/ Edit(f)
    BY <1>5 DEF Replace, Undo, Edit
<1>6. CASE Work \/ Restart
    BY <1>6 DEF Work, Restart
<1>7. CASE QuietCaller \/ Quiet \/ UNCHANGED protectedVars
    BY <1>7 DEF QuietCaller, Quiet, protectedVars
<1>8. QED
    BY <1>1, <1>2, <1>3, <1>4, <1>5, <1>6, <1>7 DEF ProtectedNext, Caller

(* The original changes by an apply, by what is undone and by the user.    *)
LEMMA OriginalMoves ==
    ASSUME [ProtectedNext]_protectedVars
    PROVE  original' = original \/ \E f \in File : Replace(f) \/ Undo(f) \/ Edit(f)
<1> USE DEF disk
<1>1. CASE CreateProtected \/ Configure \/ BeginTurn \/ Send \/ Recorded \/ Shell \/ Shelled
    BY <1>1 DEF CreateProtected, Configure, BeginTurn, Send, Recorded, Shell, Shelled
<1>2. CASE CutTurn \/ Ended \/ Disqualified \/ BeginChecks \/ Review \/ ReadCandidate \/ Judge
    BY <1>2 DEF CutTurn, Ended, Disqualified, BeginChecks, Review, ReadCandidate, Judge
<1>3. CASE Apply \/ Refused \/ EndApply \/ Work \/ Restart
    BY <1>3 DEF Apply, Refused, EndApply, Work, Restart
<1>4. CASE QuietCaller \/ Quiet \/ UNCHANGED protectedVars
    BY <1>4 DEF QuietCaller, Quiet, protectedVars
<1>5. QED
    BY <1>1, <1>2, <1>3, <1>4 DEF ProtectedNext, Caller

LEMMA TreesStep ==
    ASSUME TreeTypes, [ProtectedNext]_protectedVars
    PROVE  TreeTypes'
<1> USE DEF TreeTypes
<1>0. Candidate \subseteq Trees
    BY CandidateAssumption DEF Trees
<1>1. Snapshot \in Trees
    BY DEF Snapshot, Trees
<1>2. working' \in Trees /\ tree' \in Trees /\ cand' \in Trees
    BY <1>0, <1>1, TreeMoves
<1>3. original' \in [File -> {"old", "new", "none", "user"}]
  <2>1. ASSUME NEW f \in File, Replace(f) \/ Undo(f) \/ Edit(f)
        PROVE  original' = original \/ \E v \in {"old", "new", "none", "user"} :
                                           original' = [original EXCEPT ![f] = v]
    BY <2>1 DEF Replace, Undo, Edit, Trees
  <2>2. QED
    BY <2>1, OriginalMoves
<1>4. QED
    BY <1>2, <1>3

(* An apply begins with Apply.                                             *)
LEMMA AppliesBegin ==
    ASSUME [ProtectedNext]_protectedVars, op' = "apply"
    PROVE  op = "apply" \/ Apply
<1>1. ASSUME Goes PROVE op = "apply"
  <2> USE DEF process, Release, Clear
  <2>1. CASE Answer \/ Unanswered \/ Start \/ Started \/ Prompt \/ Prompted
    BY <2>1 DEF Answer, Unanswered, Start, Started, Prompt, Prompted
  <2>2. CASE Abort \/ Cleared \/ Aborted \/ Close \/ Drain \/ Stopped \/ Closed
    BY <2>2 DEF Abort, Cleared, Aborted, Close, Drain, Stopped, Closed
  <2>3. CASE PiDies \/ Waited \/ Eof \/ AgentStart \/ MessageEnd \/ AgentEnd
    BY <2>3 DEF PiDies, Waited, Eof, AgentStart, MessageEnd, AgentEnd
  <2>4. CASE EndTurn \/ Incomplete \/ BeginVerification \/ Verify \/ Checks \/ Checked
    BY <2>4 DEF EndTurn, Incomplete, BeginVerification, Verify, Checks, Checked
  <2>5. CASE Sends \/ GivesUp \/ ReadsOn
    BY <2>5 DEF Sends, GivesUp, ReadsOn
  <2>6. QED
    BY <1>1, <2>1, <2>2, <2>3, <2>4, <2>5 DEF Goes, SessionNext
<1>2. ASSUME UNCHANGED session PROVE op = "apply"
    BY <1>2 DEF session
<1>3. ASSUME Commands PROVE Apply
    BY <1>3 DEF Commands, Shell, Shelled, Refused, EndApply, Release
<1>4. ASSUME CreateProtected \/ Configure \/ Restart PROVE op = "apply"
    BY <1>4 DEF CreateProtected, Configure, Restart, SessionRestarts
<1>5. QED
    BY <1>1, <1>2, <1>3, <1>4, ProtectedMoves

(* While it goes on, it replaces files, and the user edits them.           *)
LEMMA AppliesGoOn ==
    ASSUME [ProtectedNext]_protectedVars, op = "apply", op' = "apply"
    PROVE  \/ UNCHANGED <<original, cand, todo, edited>>
           \/ \E f \in File : Replace(f) \/ Edit(f)
<1> USE DEF disk, transaction
<1>1. CASE CreateProtected \/ Configure \/ BeginTurn \/ Send \/ Recorded \/ Shell \/ Shelled
    BY <1>1 DEF CreateProtected, Configure, BeginTurn, Send, Recorded, Shell, Shelled
<1>2. CASE CutTurn \/ Ended \/ Disqualified \/ BeginChecks \/ Review
    BY <1>2 DEF CutTurn, Ended, Disqualified, BeginChecks, Review
<1>3. CASE ReadCandidate \/ Judge
    BY <1>3 DEF ReadCandidate, Judge, Checks, Checked
<1>4. CASE Apply \/ Refused \/ EndApply \/ Restart \/ \E f \in File : Undo(f)
    BY <1>4 DEF Apply, Refused, EndApply, Restart, SessionRestarts, Undo
<1>5. CASE Work \/ QuietCaller \/ Quiet \/ UNCHANGED protectedVars
    BY <1>5 DEF Work, QuietCaller, Quiet, protectedVars
<1>6. QED
    BY <1>1, <1>2, <1>3, <1>4, <1>5 DEF ProtectedNext, Caller

(* A verdict of a pass is given by Judge only; it stands until another is. *)
LEMMA VerdictMoves ==
    ASSUME [ProtectedNext]_protectedVars
    PROVE  UNCHANGED <<verdict, tree>> \/ verdict' = "other" \/ EndApply \/ Judge
<1> USE DEF verification, NoPass
<1>1. CASE CreateProtected \/ Configure \/ BeginTurn \/ Send \/ Recorded \/ Shell \/ Shelled
    BY <1>1 DEF CreateProtected, Configure, BeginTurn, Send, Recorded, Shell, Shelled
<1>2. CASE CutTurn \/ Ended \/ Disqualified \/ BeginChecks \/ Review \/ ReadCandidate
    BY <1>2 DEF CutTurn, Ended, Disqualified, BeginChecks, Review, ReadCandidate
<1>3. CASE Apply \/ Refused \/ Work \/ Restart
    BY <1>3 DEF Apply, Refused, Work, Restart
<1>4. CASE \E f \in File : Replace(f) \/ Undo(f) \/ Edit(f)
    BY <1>4 DEF Replace, Undo, Edit
<1>5. CASE QuietCaller \/ Quiet \/ UNCHANGED protectedVars
    BY <1>5 DEF QuietCaller, Quiet, protectedVars
<1>6. QED
    BY <1>1, <1>2, <1>3, <1>4, <1>5 DEF ProtectedNext, Caller

LEMMA PassedStep ==
    ASSUME TreeTypes, PassedIsApplied, [ProtectedNext]_protectedVars
    PROVE  PassedIsApplied'
<1>0. PassIsTrue /\ (op = "apply" => Replacing)
    BY DEF PassedIsApplied
<1>1. PassIsTrue'
  <2> USE DEF PassIsTrue
  <2>1. CASE EndApply
    BY <1>0, <2>1 DEF EndApply, verification
  <2>2. CASE Judge
    BY <2>2 DEF Judge, Passes, Pass, NoPass
  <2>3. QED
    BY <1>0, <2>1, <2>2, VerdictMoves
<1>2. ASSUME op' = "apply"
      PROVE  Replacing'
  <2> USE DEF Replacing
  <2>1. verdict # "applied" => verdict' # "applied"
    BY <1>2, VerdictMoves DEF EndApply, Judge, Checked
  <2>2. CASE Apply
    <3>1. CASE working # tree
      <4>1. op = "apply"
        BY <1>2, <2>2, <3>1 DEF Apply
      <4>2. QED
        BY <2>2, <4>1 DEF Apply
    <3>2. CASE working = tree
      <4>1. /\ verdict = "TEST_PASS" /\ verdict' = verdict /\ cand' = tree
            /\ original' = original /\ original = Snapshot
            /\ todo' = {f \in File : tree[f] # "old"}
        BY <2>2, <3>2 DEF Apply, Mine, verification
      <4>2. \A f \in File : original[f] = "old"
        BY <4>1 DEF Snapshot
      <4>3. cand' \in Good
        BY <1>0, <4>1 DEF PassIsTrue
      <4>4. \A f \in File : original'[f] = IF f \in todo' THEN "old" ELSE cand'[f]
        BY <4>1, <4>2
      <4>5. QED
        BY <4>1, <4>3, <4>4
    <3>3. QED
      BY <3>1, <3>2
  <2>3. ASSUME op = "apply", NEW f \in File, Replace(f)
        PROVE  Replacing'
    <3>1. /\ original' = [original EXCEPT ![f] = cand[f]] /\ todo' = todo \ {f}
          /\ cand' = cand /\ edited' = edited
      BY <2>3 DEF Replace
    <3>2. \A g \in File : original'[g] = IF g = f THEN cand[f] ELSE original[g]
      BY <3>1 DEF TreeTypes
    <3>3. QED
      BY <1>0, <2>1, <2>3, <3>1, <3>2
  <2>4. ASSUME op = "apply", NEW f \in File, Edit(f)
        PROVE  Replacing'
    <3>1. edited' = TRUE
      BY <2>4 DEF Edit
    <3>2. QED
      BY <1>0, <2>1, <2>4, <3>1
  <2>5. ASSUME op = "apply", UNCHANGED <<original, cand, todo, edited>>
        PROVE  Replacing'
    BY <1>0, <2>1, <2>5
  <2>6. QED
    BY <1>2, <2>2, <2>3, <2>4, <2>5, AppliesBegin, AppliesGoOn
<1>3. QED
    BY <1>1, <1>2 DEF PassedIsApplied

LEMMA ProtectedInitially == ProtectedInit => ProtectedInv
<1> SUFFICES ASSUME ProtectedInit PROVE ProtectedInv
    OBVIOUS
<1>1. NoSession /\ op = "" /\ verdict = "other"
    BY DEF ProtectedInit, NoSession
<1>2. SessionInv
    BY <1>1 DEF NoSession, SessionInv, SessionTypes, SessionPlaces, SessionFlags, States, Callers,
       TurnIsTold, Lost, PromptIsTold, HolderFindsNone
<1>3. FreshIsIdle /\ PassedIsApplied
    BY <1>1 DEF NoSession, FreshIsIdle, PassedIsApplied, PassIsTrue
<1>4. TreeTypes
    BY DEF ProtectedInit, TreeTypes, Trees, Snapshot
<1>5. QED
    BY <1>2, <1>3, <1>4 DEF ProtectedInv

LEMMA ProtectedStep ==
    ASSUME ProtectedInv, [ProtectedNext]_protectedVars
    PROVE  ProtectedInv'
<1>1. SessionInv /\ FreshIsIdle /\ TreeTypes /\ PassedIsApplied
    BY DEF ProtectedInv
<1>2. SessionInv' /\ FreshIsIdle' /\ TreeTypes' /\ PassedIsApplied'
    BY <1>1, ProtectedSession, FreshStep, TreesStep, PassedStep
<1>3. QED
    BY <1>2 DEF ProtectedInv

(* The session of a protected project, its two trees and the records of    *)
(* their verification fit each other in every state that is reached.       *)
THEOREM ProtectedInvariance == ProtectedSpec => []ProtectedInv
<1>1. ProtectedInv /\ [ProtectedNext]_protectedVars => ProtectedInv'
    BY ProtectedStep
<1>2. QED
    BY <1>1, ProtectedInitially, PTL DEF ProtectedSpec

(* No turn goes on while the original is written, but for one of which the *)
(* session lost track: whoever holds opMu to apply found the session idle, *)
(* and no prompt can begin meanwhile.                                      *)
THEOREM ApplyIsAlone == ProtectedSpec => []ApplyFindsAgentIdle
<1>1. ProtectedInv => ApplyFindsAgentIdle
    BY DEF ProtectedInv, SessionInv, HolderFindsNone, Lost, ApplyFindsAgentIdle
<1>2. QED
    BY <1>1, ProtectedInvariance, PTL

(* What is said to be applied is the whole of a tree that passed, unless   *)
(* the user edited the original meanwhile.                                 *)
THEOREM WholeTreesAreApplied == ProtectedSpec => AppliedPassedAsAWhole
<1> DEFINE Whole == op = "apply" /\ op' = "" /\ verdict' = "applied"
                    => original \in Good \/ edited
<1>1. ProtectedInv /\ [ProtectedNext]_protectedVars => [Whole]_protectedVars
  <2> SUFFICES ASSUME ProtectedInv, [ProtectedNext]_protectedVars,
                      op = "apply", op' = "", verdict' = "applied", ~edited
               PROVE  original \in Good
      OBVIOUS
  <2>1. /\ verdict # "applied" /\ cand \in Good /\ TreeTypes
        /\ \A f \in File : original[f] = IF f \in todo THEN "old" ELSE cand[f]
    BY DEF ProtectedInv, PassedIsApplied, Replacing
  <2>2. todo = {}
    BY <2>1, VerdictMoves DEF EndApply, Judge, Pass, NoPass
  <2>3. original = cand
    <3>1. \A f \in File : original[f] = cand[f]
      BY <2>1, <2>2
    <3>2. /\ original = [f \in File |-> original[f]]
          /\ cand = [f \in File |-> cand[f]]
      BY <2>1 DEF TreeTypes, Trees
    <3>3. QED
      BY <3>1, <3>2
  <2>4. QED
    BY <2>1, <2>3
<1>2. QED
    BY <1>1, ProtectedInvariance, PTL DEF ProtectedSpec, AppliedPassedAsAWhole
=============================================================================
