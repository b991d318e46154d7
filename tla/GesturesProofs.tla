-------------------------- MODULE GesturesProofs --------------------------
(***************************************************************************)
(* Proofs about Gestures, for any number of callers, moves, messages and   *)
(* lost connections.                                                       *)
(***************************************************************************)
EXTENDS Gestures, SequenceTheorems, TLAPS

\* A gesture that is under way lifts the finger with its last frame only, and does so
\* if it has still to put it down.
Lifts == {"end", "lift"}
Last(s) == s[Len(s)]
WellFormed(s) ==
    /\ \A i \in 1..Len(s) : s[i] \in Lifts => i = Len(s)
    /\ (\E i \in 1..Len(s) : s[i] = "start") => Last(s) \in Lifts
Gestured == \A a \in Actors : WellFormed(left[a])

\* The writer runs gestures in its state for them.
WriterIdle ==
    /\ pump # "gesture" => ~InGesture(Writer)
    /\ serve = "none" => pump = "off"

\* A finger that is down will be lifted by a gesture under way, if no send fails.
Held ==
    finger = "down" /\ ~excuse =>
        \E a \in Actors : InGesture(a) /\ Last(left[a]) \in Lifts

\* The fates of the client's frames: none that is to come has one yet, nor has the one
\* in hand; those before it have.
Fate(n) == (n \in gone) \/ (n \in answered) \/ arrivals[n] # 0
InHandAt == {"gesture", "reply", "write", "ensure", "await", "retry"}
Fated ==
    /\ arrivals \in [1..Messages -> {0, 1}]
    /\ gone \cap answered = {} /\ \A n \in gone \cup answered : arrivals[n] = 0
    /\ \A n \in 1..Messages : n > sent => ~Fate(n)
    /\ \A n \in (base + 1)..sent : n # sent => Fate(n)
    /\ pump \in InHandAt => base < sent /\ ~Fate(sent)
    /\ pump = "recv" /\ base < sent => Fate(sent)

IInv == TypeOK /\ Gestured /\ WriterIdle /\ HeldWhileAlone /\ Held /\ Fated

-----------------------------------------------------------------------------
\* A frame that is sent leaves a gesture that is well-formed, and closes as it did.
LEMMA TailForm ==
    ASSUME NEW s \in Seq(Frames \cup Pauses), s # << >>, WellFormed(s)
    PROVE  /\ Tail(s) \in Seq(Frames \cup Pauses)
           /\ WellFormed(Tail(s))
           /\ Head(s) \in Lifts => Len(s) = 1
           /\ Head(s) = "start" => Last(s) \in Lifts
           /\ Last(s) \in Lifts /\ Head(s) \notin Lifts =>
                Tail(s) # << >> /\ Last(Tail(s)) = Last(s)
    <1> DEFINE t == Tail(s)
    <1>1. /\ Len(s) \in Nat \ {0} /\ t \in Seq(Frames \cup Pauses) /\ Len(t) = Len(s) - 1
          /\ \A i \in 1..Len(t) : t[i] = s[i + 1]
          /\ Head(s) = s[1]
        BY EmptySeq, HeadTailProperties
    <1>2. WellFormed(t)
        <2>1. \A i \in 1..Len(t) : t[i] \in Lifts => i = Len(t)
            <3>1. ASSUME NEW i \in 1..Len(t), t[i] \in Lifts PROVE i = Len(t)
                <4>1. \A n \in 1..Len(s) : s[n] \in Lifts => n = Len(s)
                    BY DEF WellFormed
                <4>2. t[i] = s[i + 1] /\ i + 1 \in 1..Len(s)
                    BY <1>1
                <4>3. s[i + 1] \in Lifts
                    BY <3>1, <4>2
                <4>4. i + 1 = Len(s)
                    BY <4>1, <4>2, <4>3, Zenon
                <4>5. i \in Nat /\ Len(t) = Len(s) - 1 /\ Len(s) \in Nat
                    BY <1>1
                <4> HIDE DEF t
                <4> QED BY <4>4, <4>5
            <3> QED BY <3>1
        <2>2. ASSUME NEW i \in 1..Len(t), t[i] = "start" PROVE Last(t) \in Lifts
            <3>1. i + 1 \in 1..Len(s) /\ s[i + 1] = "start"
                BY <1>1, <2>2
            <3>2. s[Len(s)] \in Lifts
                BY <3>1 DEF WellFormed, Last
            <3>3. t[Len(t)] = s[Len(s)]
                BY <1>1, <2>2
            <3> QED BY <3>2, <3>3 DEF Last
        <2> QED BY <2>1, <2>2 DEF WellFormed
    <1>0. 1 \in 1..Len(s)
        BY <1>1
    <1>3. Head(s) \in Lifts => Len(s) = 1
        BY <1>0, <1>1 DEF WellFormed
    <1>4. Head(s) = "start" => Last(s) \in Lifts
        BY <1>0, <1>1 DEF WellFormed
    <1>5. Last(s) \in Lifts /\ Head(s) \notin Lifts => t # << >> /\ Last(t) = Last(s)
        <2> SUFFICES ASSUME Last(s) \in Lifts, Head(s) \notin Lifts
                     PROVE  t # << >> /\ Last(t) = Last(s)
            OBVIOUS
        <2>1. Len(s) # 1
            BY <1>1 DEF Last
        <2>2. Len(t) \in Nat \ {0}
            BY <1>1, <2>1
        <2>3. t # << >>
            BY <2>2, EmptySeq
        <2>4. t[Len(t)] = s[Len(s)]
            BY <1>1, <2>2
        <2> QED BY <2>3, <2>4 DEF Last
    <1> QED BY <1>1, <1>2, <1>3, <1>4, <1>5

\* The moves of a gesture, between its start and its end.
LEMMA RepeatForm ==
    ASSUME NEW s \in Seq({"move", "wait", "check"}), Len(s) \in {1, 2}
    PROVE  Repeat(s) \in Seq({"move", "wait", "check"})
    <1>1. Moves * Len(s) \in Nat
        BY MovesAssumption
    <1>2. \A i \in 1..(Moves * Len(s)) : 1 + ((i - 1) % Len(s)) \in 1..Len(s)
        <2>1. \A i \in Nat \ {0} : (i - 1) % 1 = 0 /\ (i - 1) % 2 \in {0, 1}
            OBVIOUS
        <2>2. CASE Len(s) = 1
            BY <1>1, <2>1, <2>2
        <2>3. CASE Len(s) = 2
            BY <1>1, <2>1, <2>3
        <2> QED BY <2>2, <2>3
    <1>3. \A i \in 1..(Moves * Len(s)) :
             s[1 + ((i - 1) % Len(s))] \in {"move", "wait", "check"}
        BY <1>2, ElementOfSeq
    <1> QED
        BY <1>1, <1>3, IsASeq DEF Repeat

\* A gesture around them.
LEMMA AroundForm ==
    ASSUME NEW m \in Seq({"move", "wait", "check"})
    PROVE  LET s == <<"start">> \o m \o <<"end">>
               t == <<"start">> \o m \o <<"move", "end">> IN
           /\ s \in Seq(Frames \cup Pauses) /\ WellFormed(s)
           /\ t \in Seq(Frames \cup Pauses) /\ WellFormed(t)
    <1> DEFINE F == Frames \cup Pauses
               M == {"move", "wait", "check"}
               s == <<"start">> \o m \o <<"end">>
               t == <<"start">> \o m \o <<"move", "end">>
    <1>1. /\ m \in Seq(F) /\ Len(m) \in Nat /\ \A i \in 1..Len(m) : m[i] \in M
          /\ <<"start">> \in Seq(F) /\ <<"end">> \in Seq(F) /\ <<"move", "end">> \in Seq(F)
        BY LenProperties, ElementOfSeq, SeqMonotonic DEF Frames, Touches, Pauses
    <1>2. /\ <<"start">> \o m \in Seq(F) /\ Len(<<"start">> \o m) = Len(m) + 1
          /\ \A i \in 1..(Len(m) + 1) :
                (<<"start">> \o m)[i] = IF i = 1 THEN "start" ELSE m[i - 1]
        BY <1>1, ConcatProperties
    <1> HIDE DEF F
    <1>3. /\ s \in Seq(F) /\ Len(s) = Len(m) + 2
          /\ \A i \in 1..Len(s) :
                s[i] = IF i = 1 THEN "start" ELSE IF i = Len(s) THEN "end" ELSE m[i - 1]
        BY <1>1, <1>2, ConcatProperties
    <1>4. /\ t \in Seq(F) /\ Len(t) = Len(m) + 3
          /\ \A i \in 1..Len(t) :
                t[i] = IF i = 1 THEN "start" ELSE IF i = Len(t) THEN "end"
                       ELSE IF i = Len(t) - 1 THEN "move" ELSE m[i - 1]
        BY <1>1, <1>2, ConcatProperties
    <1> HIDE DEF s, t
    <1>5. ASSUME NEW j \in Nat, j \in 2..(Len(m) + 1) PROVE m[j - 1] \notin Lifts
        <2>1. PICK i \in 1..Len(m) : i = j - 1
            BY <1>1, <1>5
        <2> QED BY <1>1, <2>1 DEF Lifts
    <1>6. WellFormed(s)
        <2>1. \A i \in 1..Len(s) : s[i] \in Lifts => i = Len(s)
            BY <1>1, <1>3, <1>5 DEF Lifts
        <2>2. s[Len(s)] \in Lifts
            BY <1>1, <1>3 DEF Lifts
        <2> QED BY <2>1, <2>2 DEF WellFormed, Last
    <1>7. WellFormed(t)
        <2>1. \A i \in 1..Len(t) : t[i] \in Lifts => i = Len(t)
            BY <1>1, <1>4, <1>5 DEF Lifts
        <2>2. t[Len(t)] \in Lifts
            BY <1>1, <1>4 DEF Lifts
        <2> QED BY <2>1, <2>2 DEF WellFormed, Last
    <1> QED BY <1>3, <1>4, <1>6, <1>7 DEF F, s, t

\* A gesture of known frames, the touchEnd of one that was cancelled, and none.
LEMMA ShortForms ==
    /\ \A s \in {<<"start", "end">>, <<"start", "wait", "end">>, <<"enable", "conditions">>,
                  Interrupt, << >>} :
          s \in Seq(Frames \cup Pauses) /\ WellFormed(s)
    /\ Interrupt # << >> /\ Last(Interrupt) \in Lifts
    BY DEF Frames, Touches, Pauses, WellFormed, Last, Lifts, Interrupt

\* Every helper's frames.
LEMMA ScriptForm ==
    ASSUME NEW k \in Kinds
    PROVE  Script[k] \in Seq(Frames \cup Pauses) /\ WellFormed(Script[k])
    <1> DEFINE Good(s) == s \in Seq(Frames \cup Pauses) /\ WellFormed(s)
    <1>1. /\ Good(<<"start", "end">>) /\ Good(<<"start", "wait", "end">>)
          /\ Good(<<"enable", "conditions">>)
        BY ShortForms
    <1>2. /\ Repeat(<<"move", "wait">>) \in Seq({"move", "wait", "check"})
          /\ Repeat(<<"move">>) \in Seq({"move", "wait", "check"})
          /\ Repeat(<<"check", "move">>) \in Seq({"move", "wait", "check"})
        <2> DEFINE M == {"move", "wait", "check"}
        <2>1. /\ <<"move", "wait">> \in Seq(M) /\ Len(<<"move", "wait">>) = 2
              /\ <<"move">> \in Seq(M) /\ Len(<<"move">>) = 1
              /\ <<"check", "move">> \in Seq(M) /\ Len(<<"check", "move">>) = 2
            OBVIOUS
        <2> QED BY <2>1, RepeatForm
    <1>3. /\ Good(<<"start">> \o Repeat(<<"move", "wait">>) \o <<"move", "end">>)
          /\ Good(<<"start">> \o Repeat(<<"move">>) \o <<"move", "end">>)
          /\ Good(<<"start">> \o Repeat(<<"check", "move">>) \o <<"end">>)
        BY <1>2, AroundForm
    <1> HIDE DEF Good
    <1>4. k \in {"tap", "longPress", "swipe", "flick", "pinch", "network"}
        BY KindsAssumption DEF Script
    <1>5. Good(Script[k])
        <2>1. /\ Script["tap"] = <<"start", "end">>
              /\ Script["longPress"] = <<"start", "wait", "end">>
            BY DEF Script
        <2>2. Script["network"] = <<"enable", "conditions">> /\ Script["swipe"] = SwipeScript
            BY DEF Script
        <2>3. /\ Script["flick"] = <<"start">> \o Repeat(<<"move">>) \o <<"move", "end">>
              /\ Script["pinch"] = <<"start">> \o Repeat(<<"check", "move">>) \o <<"end">>
            BY DEF Script
        <2> QED
            BY <1>1, <1>3, <1>4, <2>1, <2>2, <2>3 DEF SwipeScript
    <1> QED BY <1>5 DEF Good

\* Every step keeps the types.
LEMMA TypesKept == IInv /\ Next => TypeOK'
    <1> USE TailForm, ScriptForm, ShortForms, CallersAssumption, BoundsAssumption
        DEF IInv, linkVars, touchVars, frameVars, TypeOK, Actors, Writer, Gestured,
            InGesture, Fated, InHandAt, PumpAt, Disconnected
    <1> SUFFICES ASSUME IInv, Next PROVE TypeOK'
        OBVIOUS
    <1>1. ASSUME NEW a \in Actors, Send(a) PROVE TypeOK'
        BY <1>1 DEF Send, Does, Arrives
    <1>2. ASSUME NEW a \in Actors, SendSwallowed(a) PROVE TypeOK'
        BY <1>2 DEF SendSwallowed, Does, Swallowed
    <1>3. ASSUME NEW a \in Actors, SendFails(a) PROVE TypeOK'
        BY <1>3 DEF SendFails, Does
    <1>4. ASSUME NEW a \in Actors, Wait(a) PROVE TypeOK'
        <2>0. left[a] # << >> /\ left[a] \in Seq(Frames \cup Pauses) /\ WellFormed(left[a])
            BY <1>4 DEF Wait, Does
        <2>1. left' \in [Actors -> Seq(Frames \cup Pauses)]
            <3>1. Tail(left[a]) \in Seq(Frames \cup Pauses)
                BY <2>0, TailForm
            <3>2. Interrupt \in Seq(Frames \cup Pauses)
                BY ShortForms
            <3> QED BY <1>4, <3>1, <3>2 DEF Wait, TimePasses
        <2> QED BY <1>4, <2>1 DEF Wait
    <1>5. ASSUME NEW a \in Actors, Check(a) PROVE TypeOK'
        BY <1>5 DEF Check, Does
    <1>6. ASSUME NEW a \in Callers, NEW k \in Kinds, Call(a, k) PROVE TypeOK'
        BY <1>6 DEF Call
    <1>7. ASSUME NEW a \in Callers, Cancel(a) PROVE TypeOK'
        BY <1>7 DEF Cancel
    <1>8. CASE ServeBegin
        BY <1>8 DEF ServeBegin, Go
    <1>9. CASE RecvPlain
        BY <1>9 DEF RecvPlain, Go
    <1>10. ASSUME NEW k \in Kinds, RecvGesture(k) PROVE TypeOK'
        BY <1>10 DEF RecvGesture, Go
    <1>11. CASE RecvRefused
        BY <1>11 DEF RecvRefused, Go
    <1>12. CASE RecvError
        BY <1>12 DEF RecvError, Go
    <1>13. CASE GestureEnd
        BY <1>13 DEF GestureEnd, Go
    <1>14. CASE Reply
        <2>1. sent \in 1..Messages
            BY <1>14 DEF Reply
        <2>2. answered' \in SUBSET (1..Messages) /\ pump' \in PumpAt
            BY <1>14, <2>1 DEF Reply, Go
        <2> QED BY <1>14, <2>2 DEF Reply
    <1>15. CASE Write
        <2>1. sent \in 1..Messages
            BY <1>15 DEF Write
        <2>2. pump' \in PumpAt
            BY <1>15 DEF Write, Go, Written, Unwritten
        <2>3. gone' \in SUBSET (1..Messages) /\ DOMAIN arrivals' = 1..Messages
            BY <1>15, <2>1 DEF Write
        <2> QED BY <1>15, <2>2, <2>3 DEF Write
    <1>16. CASE Ensure
        BY <1>16 DEF Ensure, Lose, Go
    <1>17. CASE Break
        BY <1>17 DEF Break
    <1>18. CASE ReaderLoses
        BY <1>18 DEF ReaderLoses, Lose
    <1>19. CASE Recover
        BY <1>19 DEF Recover, Go
    <1>20. CASE GiveUp
        BY <1>20 DEF GiveUp, Go
    <1>21. CASE Close
        BY <1>21 DEF Close
    <1>22. CASE ServeStop
        BY <1>22 DEF ServeStop, Deadline
    <1>23. CASE ServeReturn
        BY <1>23 DEF ServeReturn
    <1>24. CASE ReaderEnds \/ ReaderUnheard
        <2>1. reader' = "off"
              /\ UNCHANGED <<linkVars, touchVars, serve, pump, frameVars>>
            BY <1>24 DEF ReaderEnds, ReaderUnheard
        <2> QED BY <2>1
    <1> QED
        BY <1>1, <1>2, <1>3, <1>4, <1>5, <1>6, <1>7, <1>8, <1>9, <1>10, <1>11, <1>12,
           <1>13, <1>14, <1>15, <1>16, <1>17, <1>18, <1>19, <1>20, <1>21, <1>22, <1>23,
           <1>24
        DEF Next, GestureStep, PumpStep, LinkStep

\* Every step leaves gestures well-formed.
LEMMA GesturedKept == IInv /\ Next => Gestured'
    <1> USE TailForm, ScriptForm, ShortForms, CallersAssumption
        DEF IInv, linkVars, touchVars, frameVars, TypeOK, Actors, Gestured, InGesture,
            Disconnected
    <1> SUFFICES ASSUME IInv, Next PROVE Gestured'
        OBVIOUS
    <1>1. ASSUME NEW a \in Actors, Send(a) PROVE Gestured'
        BY <1>1 DEF Send, Does, Arrives
    <1>2. ASSUME NEW a \in Actors, SendSwallowed(a) PROVE Gestured'
        BY <1>2 DEF SendSwallowed, Does, Swallowed
    <1>3. ASSUME NEW a \in Actors, SendFails(a) PROVE Gestured'
        BY <1>3 DEF SendFails, Does
    <1>4. ASSUME NEW a \in Actors, Wait(a) PROVE Gestured'
        BY <1>4 DEF Wait, Does, TimePasses
    <1>5. ASSUME NEW a \in Actors, Check(a) PROVE Gestured'
        BY <1>5 DEF Check, Does
    <1>6. ASSUME NEW a \in Callers, NEW k \in Kinds, Call(a, k) PROVE Gestured'
        BY <1>6 DEF Call
    <1>7. ASSUME NEW a \in Callers, Cancel(a) PROVE Gestured'
        BY <1>7 DEF Cancel
    <1>8. CASE ServeBegin
        BY <1>8 DEF ServeBegin, Go
    <1>9. CASE RecvPlain
        BY <1>9 DEF RecvPlain, Go
    <1>10. ASSUME NEW k \in Kinds, RecvGesture(k) PROVE Gestured'
        BY <1>10 DEF RecvGesture, Go
    <1>11. CASE RecvRefused
        BY <1>11 DEF RecvRefused, Go
    <1>12. CASE RecvError
        BY <1>12 DEF RecvError, Go
    <1>13. CASE GestureEnd
        BY <1>13 DEF GestureEnd, Go
    <1>14. CASE Reply
        BY <1>14 DEF Reply, Go
    <1>15. CASE Write
        BY <1>15 DEF Write, Go, Written, Unwritten
    <1>16. CASE Ensure
        BY <1>16 DEF Ensure, Lose, Go
    <1>17. CASE Break
        BY <1>17 DEF Break
    <1>18. CASE ReaderLoses
        BY <1>18 DEF ReaderLoses, Lose
    <1>19. CASE Recover
        BY <1>19 DEF Recover, Go
    <1>20. CASE GiveUp
        BY <1>20 DEF GiveUp, Go
    <1>21. CASE Close
        BY <1>21 DEF Close
    <1>22. CASE ServeStop
        BY <1>22 DEF ServeStop
    <1>23. CASE ServeReturn
        BY <1>23 DEF ServeReturn
    <1>24. CASE ReaderEnds \/ ReaderUnheard
        BY <1>24 DEF ReaderEnds, ReaderUnheard
    <1> QED
        BY <1>1, <1>2, <1>3, <1>4, <1>5, <1>6, <1>7, <1>8, <1>9, <1>10, <1>11, <1>12,
           <1>13, <1>14, <1>15, <1>16, <1>17, <1>18, <1>19, <1>20, <1>21, <1>22, <1>23,
           <1>24
        DEF Next, GestureStep, PumpStep, LinkStep

\* Every step keeps the writer's gestures in their place.
LEMMA WriterIdleKept == IInv /\ Next => WriterIdle'
    <1> USE CallersAssumption
        DEF IInv, linkVars, touchVars, frameVars, TypeOK, Actors, WriterIdle, InGesture,
            Disconnected
    <1> SUFFICES ASSUME IInv, Next PROVE WriterIdle'
        OBVIOUS
    <1>1. ASSUME NEW a \in Actors, Send(a) PROVE WriterIdle'
        BY <1>1 DEF Send, Does, Arrives
    <1>2. ASSUME NEW a \in Actors, SendSwallowed(a) PROVE WriterIdle'
        BY <1>2 DEF SendSwallowed, Does, Swallowed
    <1>3. ASSUME NEW a \in Actors, SendFails(a) PROVE WriterIdle'
        BY <1>3 DEF SendFails, Does
    <1>4. ASSUME NEW a \in Actors, Wait(a) PROVE WriterIdle'
        BY <1>4 DEF Wait, Does, TimePasses
    <1>5. ASSUME NEW a \in Actors, Check(a) PROVE WriterIdle'
        BY <1>5 DEF Check, Does
    <1>6. ASSUME NEW a \in Callers, NEW k \in Kinds, Call(a, k) PROVE WriterIdle'
        BY <1>6 DEF Call
    <1>7. ASSUME NEW a \in Callers, Cancel(a) PROVE WriterIdle'
        BY <1>7 DEF Cancel
    <1>8. CASE ServeBegin
        BY <1>8 DEF ServeBegin, Go
    <1>9. CASE RecvPlain
        BY <1>9 DEF RecvPlain, Go
    <1>10. ASSUME NEW k \in Kinds, RecvGesture(k) PROVE WriterIdle'
        BY <1>10 DEF RecvGesture, Go
    <1>11. CASE RecvRefused
        BY <1>11 DEF RecvRefused, Go
    <1>12. CASE RecvError
        BY <1>12 DEF RecvError, Go
    <1>13. CASE GestureEnd
        BY <1>13 DEF GestureEnd, Go
    <1>14. CASE Reply
        BY <1>14 DEF Reply, Go
    <1>15. CASE Write
        BY <1>15 DEF Write, Go, Written, Unwritten
    <1>16. CASE Ensure
        BY <1>16 DEF Ensure, Lose, Go
    <1>17. CASE Break
        BY <1>17 DEF Break
    <1>18. CASE ReaderLoses
        BY <1>18 DEF ReaderLoses, Lose
    <1>19. CASE Recover
        BY <1>19 DEF Recover, Go
    <1>20. CASE GiveUp
        BY <1>20 DEF GiveUp, Go
    <1>21. CASE Close
        BY <1>21 DEF Close
    <1>22. CASE ServeStop
        BY <1>22 DEF ServeStop
    <1>23. CASE ServeReturn
        BY <1>23 DEF ServeReturn
    <1>24. CASE ReaderEnds \/ ReaderUnheard
        BY <1>24 DEF ReaderEnds, ReaderUnheard
    <1> QED
        BY <1>1, <1>2, <1>3, <1>4, <1>5, <1>6, <1>7, <1>8, <1>9, <1>10, <1>11, <1>12,
           <1>13, <1>14, <1>15, <1>16, <1>17, <1>18, <1>19, <1>20, <1>21, <1>22, <1>23,
           <1>24
        DEF Next, GestureStep, PumpStep, LinkStep

\* Every step keeps the finger of a gesture that is alone.
LEMMA HeldWhileAloneKept == IInv /\ Next => HeldWhileAlone'
    <1> USE TailForm, CallersAssumption
        DEF IInv, linkVars, touchVars, frameVars, TypeOK, Actors, HeldWhileAlone, Gestured,
            InGesture, Disconnected, Lifts
    <1> SUFFICES ASSUME IInv, Next PROVE HeldWhileAlone'
        OBVIOUS
    <1>1. ASSUME NEW a \in Actors, Send(a) PROVE HeldWhileAlone'
        BY <1>1 DEF Send, Does, Arrives
    <1>2. ASSUME NEW a \in Actors, SendSwallowed(a) PROVE HeldWhileAlone'
        BY <1>2 DEF SendSwallowed, Does, Swallowed
    <1>3. ASSUME NEW a \in Actors, SendFails(a) PROVE HeldWhileAlone'
        BY <1>3 DEF SendFails, Does
    <1>4. ASSUME NEW a \in Actors, Wait(a) PROVE HeldWhileAlone'
        BY <1>4 DEF Wait, Does, TimePasses
    <1>5. ASSUME NEW a \in Actors, Check(a) PROVE HeldWhileAlone'
        BY <1>5 DEF Check, Does
    <1>6. ASSUME NEW a \in Callers, NEW k \in Kinds, Call(a, k) PROVE HeldWhileAlone'
        BY <1>6 DEF Call
    <1>7. ASSUME NEW a \in Callers, Cancel(a) PROVE HeldWhileAlone'
        BY <1>7 DEF Cancel
    <1>8. CASE ServeBegin
        BY <1>8 DEF ServeBegin, Go
    <1>9. CASE RecvPlain
        BY <1>9 DEF RecvPlain, Go
    <1>10. ASSUME NEW k \in Kinds, RecvGesture(k) PROVE HeldWhileAlone'
        BY <1>10 DEF RecvGesture, Go
    <1>11. CASE RecvRefused
        BY <1>11 DEF RecvRefused, Go
    <1>12. CASE RecvError
        BY <1>12 DEF RecvError, Go
    <1>13. CASE GestureEnd
        BY <1>13 DEF GestureEnd, Go
    <1>14. CASE Reply
        BY <1>14 DEF Reply, Go
    <1>15. CASE Write
        BY <1>15 DEF Write, Go, Written, Unwritten
    <1>16. CASE Ensure
        BY <1>16 DEF Ensure, Lose, Go
    <1>17. CASE Break
        BY <1>17 DEF Break
    <1>18. CASE ReaderLoses
        BY <1>18 DEF ReaderLoses, Lose
    <1>19. CASE Recover
        BY <1>19 DEF Recover, Go
    <1>20. CASE GiveUp
        BY <1>20 DEF GiveUp, Go
    <1>21. CASE Close
        BY <1>21 DEF Close
    <1>22. CASE ServeStop
        BY <1>22 DEF ServeStop
    <1>23. CASE ServeReturn
        BY <1>23 DEF ServeReturn
    <1>24. CASE ReaderEnds \/ ReaderUnheard
        BY <1>24 DEF ReaderEnds, ReaderUnheard
    <1> QED
        BY <1>1, <1>2, <1>3, <1>4, <1>5, <1>6, <1>7, <1>8, <1>9, <1>10, <1>11, <1>12,
           <1>13, <1>14, <1>15, <1>16, <1>17, <1>18, <1>19, <1>20, <1>21, <1>22, <1>23,
           <1>24
        DEF Next, GestureStep, PumpStep, LinkStep

\* Every step keeps the promise to lift the finger.
LEMMA HeldKept == IInv /\ Next => Held'
    <1> USE TailForm, ScriptForm, ShortForms, CallersAssumption
        DEF IInv, linkVars, touchVars, frameVars, TypeOK, Actors, Gestured, WriterIdle, Held,
            InGesture, Disconnected, Lifts
    <1> SUFFICES ASSUME IInv, Next PROVE Held'
        OBVIOUS
    <1>1. ASSUME NEW a \in Actors, Send(a) PROVE Held'
        BY <1>1 DEF Send, Does, Arrives
    <1>2. ASSUME NEW a \in Actors, SendSwallowed(a) PROVE Held'
        BY <1>2 DEF SendSwallowed, Does, Swallowed
    <1>3. ASSUME NEW a \in Actors, SendFails(a) PROVE Held'
        BY <1>3 DEF SendFails, Does
    <1>4. ASSUME NEW a \in Actors, Wait(a) PROVE Held'
        <2>1. CASE left' = [left EXCEPT ![a] = Tail(@)]
            BY <1>4, <2>1 DEF Wait, Does
        <2>2. CASE left' = [left EXCEPT ![a] = Interrupt]
            BY <1>4, <2>2 DEF Wait, Does
        <2> QED BY <1>4, <2>1, <2>2 DEF Wait, TimePasses
    <1>5. ASSUME NEW a \in Actors, Check(a) PROVE Held'
        BY <1>5 DEF Check, Does
    <1>6. ASSUME NEW a \in Callers, NEW k \in Kinds, Call(a, k) PROVE Held'
        BY <1>6 DEF Call
    <1>7. ASSUME NEW a \in Callers, Cancel(a) PROVE Held'
        BY <1>7 DEF Cancel
    <1>8. CASE ServeBegin
        BY <1>8 DEF ServeBegin, Go
    <1>9. CASE RecvPlain
        BY <1>9 DEF RecvPlain, Go
    <1>10. ASSUME NEW k \in Kinds, RecvGesture(k) PROVE Held'
        BY <1>10 DEF RecvGesture, Go
    <1>11. CASE RecvRefused
        BY <1>11 DEF RecvRefused, Go
    <1>12. CASE RecvError
        BY <1>12 DEF RecvError, Go
    <1>13. CASE GestureEnd
        BY <1>13 DEF GestureEnd, Go
    <1>14. CASE Reply
        BY <1>14 DEF Reply, Go
    <1>15. CASE Write
        BY <1>15 DEF Write, Go, Written, Unwritten
    <1>16. CASE Ensure
        BY <1>16 DEF Ensure, Lose, Go
    <1>17. CASE Break
        BY <1>17 DEF Break
    <1>18. CASE ReaderLoses
        BY <1>18 DEF ReaderLoses, Lose
    <1>19. CASE Recover
        BY <1>19 DEF Recover, Go
    <1>20. CASE GiveUp
        BY <1>20 DEF GiveUp, Go
    <1>21. CASE Close
        BY <1>21 DEF Close
    <1>22. CASE ServeStop
        BY <1>22 DEF ServeStop
    <1>23. CASE ServeReturn
        BY <1>23 DEF ServeReturn
    <1>24. CASE ReaderEnds \/ ReaderUnheard
        BY <1>24 DEF ReaderEnds, ReaderUnheard
    <1> QED
        BY <1>1, <1>2, <1>3, <1>4, <1>5, <1>6, <1>7, <1>8, <1>9, <1>10, <1>11, <1>12,
           <1>13, <1>14, <1>15, <1>16, <1>17, <1>18, <1>19, <1>20, <1>21, <1>22, <1>23,
           <1>24
        DEF Next, GestureStep, PumpStep, LinkStep

\* Every step keeps the fates of the frames.
LEMMA FatedKept == IInv /\ Next => Fated'
    <1> USE BoundsAssumption
        DEF IInv, linkVars, touchVars, frameVars, TypeOK, Fated, Fate, InHandAt, PumpAt,
            Disconnected
    <1> SUFFICES ASSUME IInv, Next PROVE Fated'
        OBVIOUS
    <1>1. ASSUME NEW a \in Actors, Send(a) PROVE Fated'
        BY <1>1 DEF Send, Does, Arrives
    <1>2. ASSUME NEW a \in Actors, SendSwallowed(a) PROVE Fated'
        BY <1>2 DEF SendSwallowed, Does, Swallowed
    <1>3. ASSUME NEW a \in Actors, SendFails(a) PROVE Fated'
        BY <1>3 DEF SendFails, Does
    <1>4. ASSUME NEW a \in Actors, Wait(a) PROVE Fated'
        BY <1>4 DEF Wait, Does, TimePasses
    <1>5. ASSUME NEW a \in Actors, Check(a) PROVE Fated'
        BY <1>5 DEF Check, Does
    <1>6. ASSUME NEW a \in Callers, NEW k \in Kinds, Call(a, k) PROVE Fated'
        BY <1>6 DEF Call
    <1>7. ASSUME NEW a \in Callers, Cancel(a) PROVE Fated'
        BY <1>7 DEF Cancel
    <1>8. CASE ServeBegin
        BY <1>8 DEF ServeBegin, Go
    <1>9. CASE RecvPlain
        BY <1>9 DEF RecvPlain, Go
    <1>10. ASSUME NEW k \in Kinds, RecvGesture(k) PROVE Fated'
        BY <1>10 DEF RecvGesture, Go
    <1>11. CASE RecvRefused
        BY <1>11 DEF RecvRefused, Go
    <1>12. CASE RecvError
        BY <1>12 DEF RecvError, Go
    <1>13. CASE GestureEnd
        BY <1>13 DEF GestureEnd, Go
    <1>14. CASE Reply
        <2>1. sent \in 1..Messages /\ ~Fate(sent)
            BY <1>14 DEF Reply
        <2>2. CASE answered' = answered \cup {sent} /\ pump' = "recv"
            BY <1>14, <2>1, <2>2 DEF Reply
        <2>3. CASE pump' = "off" /\ UNCHANGED answered
            BY <1>14, <2>1, <2>3 DEF Reply
        <2> QED BY <1>14, <2>2, <2>3 DEF Reply, Go
    <1>15. CASE Write
        <2>1. sent \in 1..Messages /\ ~Fate(sent)
            BY <1>15 DEF Write
        <2>2. CASE /\ pump' = "recv" /\ UNCHANGED gone
                   /\ arrivals' = [arrivals EXCEPT ![sent] = @ + 1]
            BY <1>15, <2>1, <2>2 DEF Write
        <2>3. CASE pump' = "recv" /\ gone' = gone \cup {sent} /\ UNCHANGED arrivals
            BY <1>15, <2>1, <2>3 DEF Write
        <2>4. CASE pump' \in {"ensure", "off"} /\ UNCHANGED <<arrivals, gone>>
            BY <1>15, <2>1, <2>4 DEF Write
        <2> QED BY <1>15, <2>2, <2>3, <2>4 DEF Write, Go, Written, Unwritten
    <1>16. CASE Ensure
        BY <1>16 DEF Ensure, Lose, Go
    <1>17. CASE Break
        BY <1>17 DEF Break
    <1>18. CASE ReaderLoses
        BY <1>18 DEF ReaderLoses, Lose
    <1>19. CASE Recover
        BY <1>19 DEF Recover, Go
    <1>20. CASE GiveUp
        BY <1>20 DEF GiveUp, Go
    <1>21. CASE Close
        BY <1>21 DEF Close
    <1>22. CASE ServeStop
        BY <1>22 DEF ServeStop
    <1>23. CASE ServeReturn
        BY <1>23 DEF ServeReturn
    <1>24. CASE ReaderEnds \/ ReaderUnheard
        BY <1>24 DEF ReaderEnds, ReaderUnheard
    <1> QED
        BY <1>1, <1>2, <1>3, <1>4, <1>5, <1>6, <1>7, <1>8, <1>9, <1>10, <1>11, <1>12,
           <1>13, <1>14, <1>15, <1>16, <1>17, <1>18, <1>19, <1>20, <1>21, <1>22, <1>23,
           <1>24
        DEF Next, GestureStep, PumpStep, LinkStep

\* No gesture is under way at first, and no frame has been sent.
LEMMA InitInv == Init => IInv
    <1> SUFFICES ASSUME Init PROVE IInv
        OBVIOUS
    <1> USE ShortForms, BoundsAssumption DEF Init
    <1>1. TypeOK
        <2>1. excuse \in BOOLEAN /\ late \in BOOLEAN
            OBVIOUS
        <2>2. DOMAIN arrivals = 1..Messages
            OBVIOUS
        <2>3. left \in [Actors -> Seq(Frames \cup Pauses)]
            OBVIOUS
        <2> QED BY <2>1, <2>2, <2>3 DEF TypeOK, PumpAt
    <1>2. Gestured /\ WriterIdle /\ HeldWhileAlone /\ Held
        BY DEF Gestured, WriterIdle, InGesture, HeldWhileAlone, Held, Actors
    <1>3. Fated
        BY DEF Fated, Fate, InHandAt
    <1> QED BY <1>1, <1>2, <1>3 DEF IInv

\* The inductive invariant holds of every behaviour.
THEOREM InvariantHolds == Spec => []IInv
    <1>1. IInv /\ Next => IInv'
        BY TypesKept, GesturedKept, WriterIdleKept, HeldWhileAloneKept, HeldKept, FatedKept
        DEF IInv
    <1>2. IInv /\ UNCHANGED vars => IInv'
        <2> USE DEF vars, linkVars, touchVars, frameVars
        <2> SUFFICES ASSUME IInv, UNCHANGED vars PROVE IInv'
            OBVIOUS
        <2>1. TypeOK' /\ Fated'
            BY DEF IInv, TypeOK, Fated, Fate
        <2>2. Gestured' /\ WriterIdle' /\ HeldWhileAlone' /\ Held'
            BY DEF IInv, Gestured, WriterIdle, InGesture, HeldWhileAlone, Held
        <2> QED BY <2>1, <2>2 DEF IInv
    <1> QED BY InitInv, <1>1, <1>2, PTL DEF Spec

\* Type correctness of the gestures and of the writer.
THEOREM TypesHold == Spec => []TypeOK
    BY InvariantHolds, PTL DEF IInv

\* No move and no end of an undisturbed gesture comes to a finger that is up, however many
\* moves it has (Tap, LongPress, Swipe, Pinch).
THEOREM HeldWhileAloneHolds == Spec => []HeldWhileAlone
    BY InvariantHolds, PTL DEF IInv

\* A gesture leaves the finger down only if a send failed or was lost, also when its
\* context is cancelled in any of its waits.
THEOREM LiftedOrExcusedHolds == Spec => []LiftedOrExcused
    <1>1. IInv => LiftedOrExcused
        BY DEF IInv, Held, LiftedOrExcused
    <1> QED BY InvariantHolds, <1>1, PTL

\* A step of the client's frames is one of FrameDelivery, or is not seen there.
LEMMA DeliverySteps == IInv /\ [Next]_vars => [Delivery!Next]_(Delivery!deliveryVars)
    <1> SUFFICES ASSUME IInv, [Next]_vars
                 PROVE  [Delivery!Next]_(Delivery!deliveryVars)
        OBVIOUS
    <1> DEFINE D == {n \in 1..Messages : arrivals[n] = 1}
    <1>0. /\ TypeOK /\ Fated /\ WriterIdle
          /\ base \in 0..Messages /\ sent \in base..Messages /\ Messages \in Nat
        BY BoundsAssumption DEF IInv, TypeOK
    <1>1. ASSUME UNCHANGED <<pump, frameVars>> PROVE UNCHANGED Delivery!deliveryVars
        BY <1>1 DEF frameVars, Delivery!deliveryVars, Delivery!fates, Hand
    <1>2. ASSUME UNCHANGED frameVars, pump # "off", pump' = "off" PROVE Delivery!End
        BY <1>2 DEF frameVars, Delivery!End, Delivery!fates, Hand
    <1>3. CASE ServeBegin
        <2>1. pump = "off" /\ pump' = "recv" /\ base' = sent
              /\ UNCHANGED <<sent, arrivals, gone, answered>>
            BY <1>0, <1>3 DEF ServeBegin, WriterIdle, Go
        <2>2. Delivery!Begin
            BY <2>1 DEF Delivery!Begin, Delivery!fates, Hand
        <2> QED BY <2>2 DEF Delivery!Next
    <1>4. CASE RecvPlain \/ RecvRefused \/ \E k \in Kinds : RecvGesture(k)
        <2>1. /\ pump = "recv" /\ pump' \in {"write", "reply", "gesture"}
              /\ sent < Messages /\ sent' = sent + 1
              /\ UNCHANGED <<base, arrivals, gone, answered>>
            BY <1>4 DEF RecvPlain, RecvRefused, RecvGesture, Go
        <2>2. Delivery!Take
            BY <2>1 DEF Delivery!Take, Delivery!fates, Hand
        <2> QED BY <2>2 DEF Delivery!Next
    <1>5. CASE RecvError
        BY <1>2, <1>5 DEF RecvError, Go, Delivery!Next
    <1>6. CASE Reply
        <2>1. pump = "reply" /\ sent \in 1..Messages /\ ~Fate(sent)
            BY <1>0, <1>6 DEF Reply, Fated, InHandAt
        <2>2. CASE answered' = answered \cup {sent} /\ pump' = "recv"
            <3>1. UNCHANGED <<base, sent, arrivals, gone>>
                BY <1>6 DEF Reply
            <3>2. Delivery!Answer
                BY <2>1, <2>2, <3>1
                DEF Delivery!Answer, Delivery!Settle, Delivery!Met, Hand, Fate
            <3> QED BY <3>2 DEF Delivery!Next
        <2>3. CASE UNCHANGED answered /\ pump' = "off"
            <3>1. UNCHANGED frameVars
                BY <1>6, <2>3 DEF Reply, frameVars
            <3> QED BY <1>2, <2>1, <2>3, <3>1 DEF Delivery!Next
        <2> QED BY <1>6, <2>2, <2>3 DEF Reply, Go
    <1>7. CASE Write
        <2>1. /\ pump \in {"write", "retry"} /\ sent \in 1..Messages /\ ~Fate(sent)
              /\ UNCHANGED <<base, sent, answered>> /\ Hand = "frame"
              /\ arrivals \in [1..Messages -> {0, 1}]
            BY <1>0, <1>7 DEF Write, Fated, InHandAt, Hand
        <2>2. CASE /\ pump' = "recv" /\ UNCHANGED gone
                   /\ arrivals' = [arrivals EXCEPT ![sent] = @ + 1]
            <3>1. arrivals[sent] = 0 /\ sent \notin gone /\ sent \notin answered
                BY <2>1 DEF Fate
            <3>2. D' = D \cup {sent} /\ sent \notin D
                BY <2>1, <2>2, <3>1
            <3>3. Delivery!Deliver
                BY <2>1, <2>2, <3>1, <3>2
                DEF Delivery!Deliver, Delivery!Settle, Delivery!Met, Hand
            <3> QED BY <3>3 DEF Delivery!Next
        <2>3. CASE pump' = "recv" /\ gone' = gone \cup {sent} /\ UNCHANGED arrivals
            <3>1. Delivery!Swallow
                BY <2>1, <2>3
                DEF Delivery!Swallow, Delivery!Settle, Delivery!Met, Hand, Fate
            <3> QED BY <3>1 DEF Delivery!Next
        <2>4. CASE pump' \in {"ensure", "off"} /\ UNCHANGED <<arrivals, gone>>
            <3>1. UNCHANGED frameVars
                BY <2>1, <2>4 DEF frameVars
            <3>2. CASE pump' = "ensure"
                BY <2>1, <3>1, <3>2
                DEF frameVars, Delivery!deliveryVars, Delivery!fates, Hand
            <3>3. CASE pump' = "off"
                BY <1>2, <2>1, <3>1, <3>3 DEF Delivery!Next
            <3> QED BY <2>4, <3>2, <3>3
        <2> QED BY <1>7, <2>2, <2>3, <2>4 DEF Write, Go, Written, Unwritten
    <1>8. CASE GestureEnd \/ Ensure \/ Recover
        <2>1. UNCHANGED frameVars /\ Hand' = Hand
            BY <1>8 DEF GestureEnd, Ensure, Recover, Go, Hand
        <2> QED BY <2>1 DEF frameVars, Delivery!deliveryVars, Delivery!fates
    <1>9. CASE GiveUp
        <2>1. UNCHANGED frameVars /\ (pump' = pump \/ (pump # "off" /\ pump' = "off"))
            BY <1>9 DEF GiveUp, Go
        <2> QED BY <1>1, <1>2, <2>1 DEF Delivery!Next
    <1>10. CASE \E a \in Actors : GestureStep(a)
        <2>1. UNCHANGED <<pump, frameVars>>
            BY <1>10 DEF GestureStep, Send, SendSwallowed, SendFails, Wait, Check
        <2> QED BY <1>1, <2>1
    <1>11. CASE \/ \E a \in Callers, k \in Kinds : Call(a, k)
                \/ \E a \in Callers : Cancel(a)
        <2>1. UNCHANGED <<pump, frameVars>>
            BY <1>11 DEF Call, Cancel
        <2> QED BY <1>1, <2>1
    <1>12. CASE \/ Break \/ Close \/ ReaderLoses \/ ReaderEnds \/ ReaderUnheard
                \/ ServeStop \/ ServeReturn \/ UNCHANGED vars
        <2>1. UNCHANGED <<pump, frameVars>>
            BY <1>12 DEF Break, Close, ReaderLoses, ReaderEnds, ReaderUnheard, ServeStop,
                ServeReturn, vars
        <2> QED BY <1>1, <2>1
    <1> QED
        BY <1>3, <1>4, <1>5, <1>6, <1>7, <1>8, <1>9, <1>10, <1>11, <1>12
        DEF Next, PumpStep, LinkStep

\* Whatever the link, the gestures and the teardown do, the frames of a client meet the
\* fates of FrameDelivery, each one at most and in order (the writer of Serve).
THEOREM Refinement == Spec => ImplementsDelivery
    <1>1. Init => Delivery!Init
        <2> SUFFICES ASSUME Init PROVE Delivery!Init
            OBVIOUS
        <2>1. {n \in 1..Messages : arrivals[n] = 1} = {}
            BY DEF Init
        <2> QED BY <2>1 DEF Init, Delivery!Init, Hand
    <1> QED
        BY <1>1, DeliverySteps, InvariantHolds, PTL DEF Spec, ImplementsDelivery, Delivery!Spec

\* No frame of the client is written twice or passed over (the replay of pumpMessages).
THEOREM AccountedHolds == Spec => []Accounted
    <1>1. IInv => Accounted
        <2> SUFFICES ASSUME IInv PROVE Delivery!AllMet
            BY DEF Accounted
        <2> DEFINE D == {n \in 1..Messages : arrivals[n] = 1}
        <2>1. /\ Fated /\ arrivals \in [1..Messages -> {0, 1}]
              /\ \A n \in 1..Messages : Fate(n) => n \in D \cup gone \cup answered
            BY DEF IInv, Fated, Fate
        <2>2. ASSUME NEW n \in (base + 1)..sent
              PROVE  n \in D \cup gone \cup answered \/ (n = sent /\ Hand # "empty")
            <3>1. n \in 1..Messages /\ base < sent
                BY <2>2, BoundsAssumption DEF IInv, TypeOK
            <3>2. Fate(n) \/ (n = sent /\ pump # "recv")
                BY <2>1, <2>2, <3>1 DEF Fated
            <3> QED BY <2>1, <3>1, <3>2 DEF Hand
        <2>3. D \cap gone = {} /\ (D \cup gone) \cap answered = {}
            BY <2>1 DEF Fated
        <2> QED BY <2>2, <2>3 DEF Delivery!AllMet, Delivery!Met
    <1> QED BY InvariantHolds, <1>1, PTL
=============================================================================
