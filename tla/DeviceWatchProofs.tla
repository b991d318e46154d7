------------------------- MODULE DeviceWatchProofs -------------------------
(***************************************************************************)
(* Proofs about DeviceWatch, for any devices and states, any capacity of   *)
(* the channel and any number of changes.                                  *)
(***************************************************************************)
EXTENDS DeviceWatch, SequenceTheorems, TLAPS

Views == [Devices -> States \cup {Gone}]

\* An event that can be true of a view: what comes was gone, and what goes was not.
Legal(v, e) == e.type = "added" <=> v[e.device] = Gone

\* q leads from view v to view k by events that are true one after the other; w holds the
\* views on the way.
Leads(w, q, v, k) ==
    /\ w \in [0..Len(q) -> Views] /\ w[0] = v /\ w[Len(q)] = k
    /\ \A i \in 1..Len(q) : Legal(w[i - 1], q[i]) /\ w[i] = Apply(w[i - 1], q[i])
Account(q, v, k) == \E w : Leads(w, q, v, k)

\* What the caller has still to be told leads it to what the goroutine knows, until a
\* cancelled tick is abandoned.
Told ==
    \E k \in Views :
        /\ Account(out \o outbox, view, k)
        /\ at \in {"scan", "sweep"} \/ ~cancelled => k = known

\* The loops visit devices there is something to tell about.
Visits ==
    /\ at = "scan" => \A d \in todo : list[d] # Gone
    /\ at = "sweep" => \A d \in todo : known[d] # Gone
    /\ at \in {"wait", "ended"} => outbox = << >>

IInv == TypeOK /\ Told /\ Visits

-----------------------------------------------------------------------------
\* An event applied to a view gives a view.
LEMMA ApplyView == \A v \in Views, e \in Events : Apply(v, e) \in Views
    BY DEF Views, Events, Apply, Says

\* One more event that is true of the last view.
LEMMA OneMore ==
    ASSUME NEW q \in Seq(Events), NEW v \in Views, NEW k \in Views, Account(q, v, k),
           NEW e \in Events, Legal(k, e)
    PROVE  Account(Append(q, e), v, Apply(k, e))
    <1>1. PICK w : Leads(w, q, v, k)
        BY DEF Account
    <1> DEFINE n == Len(q)
               r == Append(q, e)
               x == [i \in 0..(n + 1) |-> IF i = n + 1 THEN Apply(k, e) ELSE w[i]]
    <1>2. n \in Nat /\ Len(r) = n + 1 /\ r[n + 1] = e /\ \A i \in 1..n : r[i] = q[i]
        OBVIOUS
    <1>3. w \in [0..n -> Views] /\ w[0] = v /\ w[n] = k
        BY <1>1 DEF Leads
    <1>4. x \in [0..Len(r) -> Views]
        BY <1>2, <1>3, ApplyView
    <1>5. x[0] = v /\ x[Len(r)] = Apply(k, e) /\ x[n] = k
        BY <1>2, <1>3
    <1>6. ASSUME NEW i \in 1..Len(r)
          PROVE  Legal(x[i - 1], r[i]) /\ x[i] = Apply(x[i - 1], r[i])
        <2>1. CASE i = n + 1
            BY <1>2, <1>5, <2>1
        <2>2. CASE i # n + 1
            <3>1. i \in 1..n /\ x[i] = w[i] /\ x[i - 1] = w[i - 1] /\ r[i] = q[i]
                BY <1>2, <2>2
            <3> QED BY <1>1, <3>1 DEF Leads
        <2> QED BY <2>1, <2>2
    <1>7. Leads(x, r, v, Apply(k, e))
        BY <1>4, <1>5, <1>6 DEF Leads
    <1> QED BY <1>7 DEF Account

\* The first event is true of the first view, and the others follow from what it leads to.
LEMMA OneLess ==
    ASSUME NEW q \in Seq(Events), q # << >>, NEW v \in Views, NEW k \in Views,
           Account(q, v, k)
    PROVE  /\ Legal(v, Head(q))
           /\ Account(Tail(q), Apply(v, Head(q)), k)
    <1>1. PICK w : Leads(w, q, v, k)
        BY DEF Account
    <1> DEFINE n == Len(q)
               t == Tail(q)
               x == [i \in 0..(n - 1) |-> w[i + 1]]
    <1>2. /\ n \in Nat \ {0} /\ Len(t) = n - 1 /\ Head(q) = q[1]
          /\ \A i \in 1..(n - 1) : t[i] = q[i + 1]
        BY EmptySeq, HeadTailProperties
    <1>3. w \in [0..n -> Views] /\ w[0] = v /\ w[n] = k
        BY <1>1 DEF Leads
    <1>4. Legal(v, Head(q)) /\ w[1] = Apply(v, Head(q))
        <2>1. 1 \in 1..Len(q) /\ 1 - 1 = 0
            BY <1>2
        <2>2. Legal(w[1 - 1], q[1]) /\ w[1] = Apply(w[1 - 1], q[1])
            BY <1>1, <2>1 DEF Leads
        <2> QED BY <1>2, <1>3, <2>1, <2>2
    <1>5. x \in [0..Len(t) -> Views] /\ x[0] = w[1] /\ x[Len(t)] = k
        BY <1>2, <1>3
    <1>6. ASSUME NEW i \in 1..Len(t)
          PROVE  Legal(x[i - 1], t[i]) /\ x[i] = Apply(x[i - 1], t[i])
        <2>1. i + 1 \in 1..Len(q) /\ (i + 1) - 1 = i
            BY <1>2
        <2>2. Legal(w[(i + 1) - 1], q[i + 1]) /\ w[i + 1] = Apply(w[(i + 1) - 1], q[i + 1])
            BY <1>1, <2>1 DEF Leads
        <2>3. x[i] = w[i + 1] /\ x[i - 1] = w[i] /\ t[i] = q[i + 1]
            BY <1>2
        <2> QED BY <2>1, <2>2, <2>3
    <1>7. Leads(x, t, Apply(v, Head(q)), k)
        BY <1>4, <1>5, <1>6 DEF Leads
    <1> QED BY <1>4, <1>7 DEF Account

\* What comes first is true also when the rest is dropped.
LEMMA Prefix ==
    ASSUME NEW s \in Seq(Events), NEW t \in Seq(Events), NEW v \in Views, NEW k \in Views,
           Account(s \o t, v, k)
    PROVE  \E m \in Views : Account(s, v, m)
    <1>1. PICK w : Leads(w, s \o t, v, k)
        BY DEF Account
    <1>2. /\ Len(s) \in Nat /\ Len(t) \in Nat /\ Len(s \o t) = Len(s) + Len(t)
          /\ \A i \in 1..Len(s) : (s \o t)[i] = s[i]
        BY ConcatProperties
    <1> DEFINE x == [i \in 0..Len(s) |-> w[i]]
    <1>3. w \in [0..(Len(s) + Len(t)) -> Views] /\ w[0] = v
        BY <1>1, <1>2 DEF Leads
    <1>4. x \in [0..Len(s) -> Views] /\ x[0] = v /\ x[Len(s)] = w[Len(s)] /\ w[Len(s)] \in Views
        BY <1>2, <1>3
    <1>5. ASSUME NEW i \in 1..Len(s)
          PROVE  Legal(x[i - 1], s[i]) /\ x[i] = Apply(x[i - 1], s[i])
        <2>1. i \in 1..Len(s \o t) /\ x[i] = w[i] /\ x[i - 1] = w[i - 1]
            BY <1>2
        <2> QED BY <1>1, <1>2, <2>1 DEF Leads
    <1>6. Leads(x, s, v, w[Len(s)])
        BY <1>4, <1>5 DEF Leads
    <1> QED BY <1>4, <1>6 DEF Account

\* Nothing leads from a view to itself.
LEMMA NoneYet == \A v \in Views : Account(<< >>, v, v)
    <1> SUFFICES ASSUME NEW v \in Views PROVE Account(<< >>, v, v)
        OBVIOUS
    <1>1. Leads([i \in 0..0 |-> v], << >>, v, v)
        BY DEF Leads
    <1> QED BY <1>1 DEF Account

\* Events on their way through the two queues.
LEMMA Queues ==
    ASSUME NEW s \in Seq(Events), NEW t \in Seq(Events)
    PROVE  /\ s \o t \in Seq(Events)
           /\ s \o << >> = s
           /\ t # << >> => Append(s, Head(t)) \o Tail(t) = s \o t
           /\ s # << >> => /\ s \o t # << >> /\ Head(s \o t) = Head(s)
                           /\ Tail(s \o t) = Tail(s) \o t
           /\ \A a \in Events : s \o <<a>> = Append(s, a)
           /\ \A a, b \in Events : s \o <<a, b>> = Append(Append(s, a), b)
    <1>1. s \o t \in Seq(Events) /\ s \o << >> = s
        BY ConcatProperties, ConcatEmptySeq
    <1>2. ASSUME t # << >> PROVE Append(s, Head(t)) \o Tail(t) = s \o t
        <2>1. /\ Len(t) \in Nat \ {0} /\ Head(t) = t[1] /\ Head(t) \in Events
              /\ Tail(t) \in Seq(Events) /\ Len(Tail(t)) = Len(t) - 1
              /\ \A i \in 1..(Len(t) - 1) : Tail(t)[i] = t[i + 1]
            BY <1>2, EmptySeq, HeadTailProperties
        <2> DEFINE a == Append(s, Head(t))
        <2>2. /\ a \in Seq(Events) /\ Len(a) = Len(s) + 1 /\ Len(s) \in Nat
              /\ \A i \in 1..Len(s) : a[i] = s[i]
              /\ a[Len(s) + 1] = t[1]
            BY <2>1
        <2> HIDE DEF a
        <2>3. /\ a \o Tail(t) \in Seq(Events) /\ Len(a \o Tail(t)) = Len(s) + Len(t)
              /\ \A i \in 1..(Len(s) + Len(t)) : (a \o Tail(t))[i] =
                    IF i <= Len(s) + 1 THEN a[i] ELSE Tail(t)[i - (Len(s) + 1)]
            <3>1. Len(a) + Len(Tail(t)) = Len(s) + Len(t)
                BY <2>1, <2>2
            <3>2. /\ a \o Tail(t) \in Seq(Events)
                  /\ Len(a \o Tail(t)) = Len(a) + Len(Tail(t))
                  /\ \A i \in 1..(Len(a) + Len(Tail(t))) : (a \o Tail(t))[i] =
                        IF i <= Len(a) THEN a[i] ELSE Tail(t)[i - Len(a)]
                BY <2>1, <2>2, ConcatProperties
            <3> QED BY <2>2, <3>1, <3>2
        <2>4. /\ s \o t \in Seq(Events) /\ Len(s \o t) = Len(s) + Len(t)
              /\ \A i \in 1..(Len(s) + Len(t)) : (s \o t)[i] =
                    IF i <= Len(s) THEN s[i] ELSE t[i - Len(s)]
            BY ConcatProperties
        <2>5. ASSUME NEW i \in 1..(Len(s) + Len(t)) PROVE (a \o Tail(t))[i] = (s \o t)[i]
            <3>1. CASE i <= Len(s)
                BY <2>1, <2>2, <2>3, <2>4, <3>1
            <3>2. CASE i = Len(s) + 1
                <4>1. i - Len(s) = 1 /\ ~(i <= Len(s)) /\ i <= Len(s) + 1
                    BY <2>2, <3>2
                <4>2. (a \o Tail(t))[i] = a[i] /\ (s \o t)[i] = t[1]
                    BY <2>3, <2>4, <4>1
                <4> QED BY <2>2, <3>2, <4>2
            <3>3. CASE i > Len(s) + 1
                <4>1. i - (Len(s) + 1) \in 1..(Len(t) - 1)
                    BY <2>1, <2>2, <3>3
                <4>2. Tail(t)[i - (Len(s) + 1)] = t[(i - (Len(s) + 1)) + 1]
                    BY <2>1, <4>1
                <4>3. (i - (Len(s) + 1)) + 1 = i - Len(s)
                    BY <2>1, <2>2
                <4> QED BY <2>1, <2>2, <2>3, <2>4, <3>3, <4>2, <4>3
            <3> QED BY <2>1, <2>2, <3>1, <3>2, <3>3
        <2> QED BY <2>3, <2>4, <2>5, SeqEqual
    <1>3. ASSUME s # << >>
          PROVE  s \o t # << >> /\ Head(s \o t) = Head(s) /\ Tail(s \o t) = Tail(s) \o t
        <2>1. /\ Len(s) \in Nat \ {0} /\ Len(t) \in Nat
              /\ Tail(s) \in Seq(Events) /\ Len(Tail(s)) = Len(s) - 1
              /\ \A i \in 1..(Len(s) - 1) : Tail(s)[i] = s[i + 1]
            BY <1>3, EmptySeq, HeadTailProperties
        <2>2. /\ s \o t \in Seq(Events) /\ Len(s \o t) = Len(s) + Len(t)
              /\ \A i \in 1..(Len(s) + Len(t)) : (s \o t)[i] =
                    IF i <= Len(s) THEN s[i] ELSE t[i - Len(s)]
            BY ConcatProperties
        <2>3. s \o t # << >>
            BY <2>1, <2>2, EmptySeq
        <2>4. Head(s \o t) = Head(s)
            BY <2>1, <2>2
        <2>5. /\ Tail(s \o t) \in Seq(Events) /\ Len(Tail(s \o t)) = Len(s) + Len(t) - 1
              /\ \A i \in 1..(Len(s) + Len(t) - 1) : Tail(s \o t)[i] = (s \o t)[i + 1]
            BY <2>1, <2>2, <2>3, HeadTailProperties
        <2>6. /\ Tail(s) \o t \in Seq(Events) /\ Len(Tail(s) \o t) = Len(s) + Len(t) - 1
              /\ \A i \in 1..(Len(s) + Len(t) - 1) : (Tail(s) \o t)[i] =
                    IF i <= Len(s) - 1 THEN Tail(s)[i] ELSE t[i - (Len(s) - 1)]
            BY <2>1, ConcatProperties
        <2>7. ASSUME NEW i \in 1..(Len(s) + Len(t) - 1)
              PROVE  Tail(s \o t)[i] = (Tail(s) \o t)[i]
            <3>1. /\ i \in Nat /\ i + 1 \in 1..(Len(s) + Len(t))
                  /\ i - (Len(s) - 1) = (i + 1) - Len(s)
                BY <2>1
            <3>2. Tail(s \o t)[i] = IF i + 1 <= Len(s) THEN s[i + 1] ELSE t[(i + 1) - Len(s)]
                BY <2>2, <2>5, <3>1
            <3>3. CASE i + 1 <= Len(s)
                BY <2>1, <2>6, <3>1, <3>2, <3>3
            <3>4. CASE ~(i + 1 <= Len(s))
                BY <2>1, <2>6, <3>1, <3>2, <3>4
            <3> QED BY <3>3, <3>4
        <2> QED BY <2>3, <2>4, <2>5, <2>6, <2>7, SeqEqual
    <1>4. ASSUME NEW a \in Events, NEW b \in Events
          PROVE  s \o <<a>> = Append(s, a) /\ s \o <<a, b>> = Append(Append(s, a), b)
        OBVIOUS
    <1> QED BY <1>1, <1>2, <1>3, <1>4

\* The events of a listed device are true of what was known, and lead to what is listed.
LEMMA DifferencesLead ==
    ASSUME IInv, NEW d \in Devices, list[d] # Gone, NEW q \in Seq(Events), NEW v \in Views,
           Account(q, v, known)
    PROVE  /\ Differences(d) \in Seq(Events) /\ Len(Differences(d)) <= 2
           /\ Account(q \o Differences(d), v, [known EXCEPT ![d] = list[d]])
    <1> DEFINE l == [known EXCEPT ![d] = list[d]]
               g == [known EXCEPT ![d] = Gone]
    <1>1. /\ known \in Views /\ l \in Views /\ g \in Views
          /\ known[d] \in States \cup {Gone} /\ list[d] \in States
        BY DEF IInv, TypeOK, Views
    <1>2. Added(d, list[d]) \in Events /\ (known[d] # Gone => Removed(d, known[d]) \in Events)
        BY <1>1 DEF Added, Removed, Events
    <1>3. CASE known[d] = Gone
        <2>1. Differences(d) = <<Added(d, list[d])>>
            BY <1>3 DEF Differences
        <2>2. Legal(known, Added(d, list[d])) /\ Apply(known, Added(d, list[d])) = l
            BY <1>3 DEF Legal, Apply, Says, Added
        <2>3. Account(Append(q, Added(d, list[d])), v, l)
            BY <1>1, <1>2, <2>2, OneMore
        <2> DEFINE one == <<Added(d, list[d])>>
        <2>4. /\ one \in Seq(Events) /\ Len(one) = 1
              /\ q \o one = Append(q, Added(d, list[d]))
            BY <1>2, Queues
        <2>5. Differences(d) = one /\ Account(q \o one, v, l)
            BY <2>1, <2>3, <2>4
        <2>6. Len(Differences(d)) <= 2
            BY <2>4, <2>5
        <2> HIDE DEF one, l
        <2> QED BY <2>4, <2>5, <2>6, Zenon DEF l
    <1>4. CASE known[d] # Gone /\ known[d] # list[d]
        <2>1. Differences(d) = <<Removed(d, known[d]), Added(d, list[d])>>
            BY <1>4 DEF Differences
        <2>2. Legal(known, Removed(d, known[d])) /\ Apply(known, Removed(d, known[d])) = g
            BY <1>4 DEF Legal, Apply, Says, Removed
        <2>3. Legal(g, Added(d, list[d])) /\ Apply(g, Added(d, list[d])) = l
            BY <1>1 DEF Legal, Apply, Says, Added, Views
        <2>4. Account(Append(q, Removed(d, known[d])), v, g)
            BY <1>1, <1>2, <1>4, <2>2, OneMore
        <2>5. Append(q, Removed(d, known[d])) \in Seq(Events)
            BY <1>2, <1>4
        <2>6. Account(Append(Append(q, Removed(d, known[d])), Added(d, list[d])), v, l)
            <3>1. Added(d, list[d]) \in Events /\ g \in Views /\ l \in Views
                BY <1>1, <1>2
            <3> HIDE DEF g, l
            <3> QED BY <1>1, <2>3, <2>4, <2>5, <3>1, OneMore
        <2> DEFINE two == <<Removed(d, known[d]), Added(d, list[d])>>
        <2>7. /\ two \in Seq(Events) /\ Len(two) = 2
              /\ q \o two = Append(Append(q, Removed(d, known[d])), Added(d, list[d]))
            BY <1>2, <1>4, Queues
        <2>8. Differences(d) = two /\ Account(q \o two, v, l)
            BY <2>1, <2>6, <2>7
        <2>9. Len(Differences(d)) <= 2
            BY <2>7, <2>8
        <2> HIDE DEF two, l
        <2> QED BY <2>7, <2>8, <2>9, Zenon DEF l
    <1>5. CASE known[d] # Gone /\ known[d] = list[d]
        <2>1. Differences(d) = << >>
            BY <1>5 DEF Differences
        <2>2. l = known
            BY <1>1, <1>5 DEF Views
        <2> QED BY <2>1, <2>2, Queues
    <1> QED BY <1>3, <1>4, <1>5

\* Every step keeps the types.
LEMMA TypesKept == IInv /\ Next => TypeOK'
    <1> USE GoneAssumption, CapacityAssumption, MaxChangesAssumption
        DEF TypeOK, scanVars, Listed
    <1> SUFFICES ASSUME IInv, Next PROVE TypeOK'
        OBVIOUS
    <1>0. TypeOK /\ Told /\ Visits
        BY DEF IInv
    <1>1. CASE Tick
        BY <1>0, <1>1 DEF Tick
    <1>2. ASSUME NEW d \in Devices, Scan(d) PROVE TypeOK'
        <2>1. PICK k \in Views : Account(out \o outbox, view, k) /\ k = known
            BY <1>0, <1>2 DEF Told, Scan
        <2>2. list[d] # Gone /\ view \in Views /\ out \o outbox \in Seq(Events)
            BY <1>0, <1>2, Queues DEF Visits, Scan, Views
        <2>3. Differences(d) \in Seq(Events) /\ Len(Differences(d)) <= 2
            BY <2>1, <2>2, DifferencesLead
        <2> QED BY <1>0, <1>2, <2>3 DEF Scan
    <1>3. ASSUME NEW d \in Devices, Sweep(d) PROVE TypeOK'
        <2>1. Removed(d, known[d]) \in Events
            BY <1>0, <1>3 DEF Sweep, Visits, Removed, Events
        <2> QED BY <1>0, <1>3, <2>1 DEF Sweep, Drop
    <1>4. CASE ScanEnd
        BY <1>0, <1>4 DEF ScanEnd
    <1>5. CASE SweepEnd
        BY <1>0, <1>5 DEF SweepEnd
    <1>6. CASE Send
        <2>1. /\ Head(outbox) \in Events /\ Tail(outbox) \in Seq(Events)
              /\ Len(Tail(outbox)) = Len(outbox) - 1 /\ Len(outbox) \in Nat
            BY <1>0, <1>6, HeadTailProperties DEF Send
        <2> QED BY <1>0, <1>6, <2>1 DEF Send, HasSpace
    <1>7. CASE Abandon
        BY <1>0, <1>7 DEF Abandon
    <1>8. CASE End
        BY <1>0, <1>8 DEF End
    <1>9. CASE Receive
        <2>1. /\ Head(out) \in Events /\ Tail(out) \in Seq(Events)
              /\ Len(Tail(out)) = Len(out) - 1 /\ Len(out) \in Nat
            BY <1>0, <1>9, HeadTailProperties DEF Receive
        <2>2. Apply(view, Head(out)) \in [Devices -> States \cup {Gone}]
            BY <1>0, <2>1, ApplyView DEF Views
        <2> QED BY <1>0, <1>9, <2>1, <2>2 DEF Receive
    <1>10. CASE Cancel \/ StopReading
        BY <1>0, <1>10 DEF Cancel, StopReading
    <1>11. ASSUME NEW d \in Devices, NEW s \in States \cup {Gone}, Hotplug(d, s) PROVE TypeOK'
        BY <1>0, <1>11 DEF Hotplug
    <1> QED
        BY <1>1, <1>2, <1>3, <1>4, <1>5, <1>6, <1>7, <1>8, <1>9, <1>10, <1>11
        DEF Next, Watcher, Visit

\* Every step keeps the account of the caller.
LEMMA ToldKept == IInv /\ Next => Told'
    <1> USE DEF scanVars
    <1> SUFFICES ASSUME IInv, Next PROVE Told'
        OBVIOUS
    <1>0. /\ TypeOK /\ Visits /\ out \in Seq(Events) /\ outbox \in Seq(Events)
          /\ view \in Views /\ known \in Views /\ out \o outbox \in Seq(Events)
        BY Queues DEF IInv, TypeOK, Views
    <1>1. PICK k \in Views :
            /\ Account(out \o outbox, view, k)
            /\ at \in {"scan", "sweep"} \/ ~cancelled => k = known
        BY DEF IInv, Told
    <1>2. ASSUME UNCHANGED <<out, outbox, view, known>>,
                 at' \in {"scan", "sweep"} \/ ~cancelled'
                     => at \in {"scan", "sweep"} \/ ~cancelled
          PROVE  Told'
        BY <1>1, <1>2 DEF Told
    <1>3. ASSUME NEW d \in Devices, Scan(d) PROVE Told'
        <2>1. k = known /\ outbox = << >> /\ list[d] # Gone
            BY <1>0, <1>1, <1>3 DEF Scan, Visits
        <2>2. out \o outbox = out
            BY <1>0, <2>1, Queues
        <2>3. Account(out \o Differences(d), view, [known EXCEPT ![d] = list[d]])
            BY <1>0, <1>1, <2>1, <2>2, DifferencesLead
        <2>4. known' \in Views /\ UNCHANGED <<out, view>> /\ outbox' = Differences(d)
              /\ known' = [known EXCEPT ![d] = list[d]]
            BY <1>0, <1>3 DEF Scan, TypeOK, Views
        <2> QED BY <2>3, <2>4 DEF Told
    <1>4. ASSUME NEW d \in Devices, Sweep(d) PROVE Told'
        <2> DEFINE e == Removed(d, known[d])
        <2>1. k = known /\ outbox = << >> /\ known[d] # Gone
            BY <1>0, <1>1, <1>4 DEF Sweep, Visits
        <2>2. out \o outbox = out
            BY <1>0, <2>1, Queues
        <2>3. e \in Events /\ Legal(known, e) /\ Apply(known, e) = [known EXCEPT ![d] = Gone]
            BY <1>0, <2>1 DEF Removed, Events, Legal, Apply, Says, Views
        <2>4. Account(Append(out, e), view, [known EXCEPT ![d] = Gone])
            BY <1>0, <1>1, <2>1, <2>2, <2>3, OneMore
        <2>5. known' \in Views /\ UNCHANGED <<out, view>> /\ outbox' = <<e>>
              /\ known' = [known EXCEPT ![d] = Gone]
            BY <1>0, <1>4 DEF Sweep, Drop, Views
        <2>6. out' \o outbox' = Append(out, e)
            BY <1>0, <2>3, <2>5, Queues
        <2> QED BY <2>4, <2>5, <2>6 DEF Told
    <1>5. CASE Send
        <2>1. out' \o outbox' = out \o outbox
            BY <1>0, <1>5, Queues DEF Send
        <2> QED BY <1>1, <1>5, <2>1 DEF Send, Told
    <1>6. CASE Receive
        <2>1. /\ Head(out \o outbox) = Head(out) /\ out \o outbox # << >>
              /\ out' \o outbox' = Tail(out \o outbox)
            BY <1>0, <1>6, Queues DEF Receive
        <2>2. Account(out' \o outbox', view', k)
            BY <1>0, <1>1, <1>6, <2>1, OneLess DEF Receive
        <2> QED BY <1>1, <1>6, <2>2 DEF Receive, Told
    <1>7. CASE Abandon
        <2>1. at' = "wait" /\ cancelled' /\ outbox' = << >> /\ UNCHANGED <<out, view, known>>
            BY <1>7 DEF Abandon, Abandons
        <2>2. PICK m \in Views : Account(out, view, m)
            BY <1>0, <1>1, Prefix
        <2>3. out' \o outbox' = out
            BY <1>0, <2>1, Queues
        <2> QED BY <2>1, <2>2, <2>3 DEF Told
    <1>8. CASE Tick \/ ScanEnd \/ SweepEnd \/ End \/ Cancel \/ StopReading
        BY <1>2, <1>8 DEF Tick, ScanEnd, SweepEnd, End, Cancel, StopReading
    <1>9. ASSUME NEW d \in Devices, NEW s \in States \cup {Gone}, Hotplug(d, s) PROVE Told'
        BY <1>2, <1>9 DEF Hotplug
    <1> QED
        BY <1>3, <1>4, <1>5, <1>6, <1>7, <1>8, <1>9 DEF Next, Watcher, Visit

\* Every step keeps the loops on devices there is something to tell about.
LEMMA VisitsKept == IInv /\ Next => Visits'
    <1> USE DEF IInv, TypeOK, Visits, scanVars, Listed
    <1> SUFFICES ASSUME IInv, Next PROVE Visits'
        OBVIOUS
    <1>1. CASE Tick
        BY <1>1 DEF Tick
    <1>2. ASSUME NEW d \in Devices, Scan(d) PROVE Visits'
        BY <1>2 DEF Scan
    <1>3. ASSUME NEW d \in Devices, Sweep(d) PROVE Visits'
        BY <1>3 DEF Sweep, Drop
    <1>4. CASE ScanEnd \/ SweepEnd
        BY <1>4 DEF ScanEnd, SweepEnd
    <1>5. CASE Send
        BY <1>5 DEF Send
    <1>6. CASE Abandon \/ End
        BY <1>6 DEF Abandon, End
    <1>7. CASE Receive \/ Cancel \/ StopReading
        BY <1>7 DEF Receive, Cancel, StopReading
    <1>8. ASSUME NEW d \in Devices, NEW s \in States \cup {Gone}, Hotplug(d, s) PROVE Visits'
        BY <1>8 DEF Hotplug
    <1> QED
        BY <1>1, <1>2, <1>3, <1>4, <1>5, <1>6, <1>7, <1>8 DEF Next, Watcher, Visit

\* The watcher starts with an empty map, and its caller with an empty view.
LEMMA InitInv == Init => IInv
    <1> SUFFICES ASSUME Init PROVE IInv
        OBVIOUS
    <1>1. TypeOK
        <2>1. cancelled \in BOOLEAN /\ reading \in BOOLEAN
            BY DEF Init
        <2> QED
            BY <2>1, GoneAssumption, CapacityAssumption, MaxChangesAssumption
            DEF Init, TypeOK, Nothing
    <1>2. Told
        <2>1. Nothing \in Views
            BY DEF Nothing, Views
        <2>2. out \o outbox = << >> /\ view = Nothing /\ known = Nothing
            BY Queues, EmptySeq DEF Init
        <2> QED BY <2>1, <2>2, NoneYet DEF Told
    <1>3. Visits
        BY DEF Init, Visits
    <1> QED BY <1>1, <1>2, <1>3 DEF IInv

\* The inductive invariant holds of every behaviour.
THEOREM InvariantHolds == Spec => []IInv
    <1>1. IInv /\ UNCHANGED vars => IInv'
        BY DEF IInv, TypeOK, Told, Visits, vars, scanVars
    <1>2. IInv /\ Next => IInv'
        BY TypesKept, ToldKept, VisitsKept DEF IInv
    <1> QED BY InitInv, <1>1, <1>2, PTL DEF Spec

\* Type correctness; a tick has never more than two events in hand, the channel never
\* more than its capacity.
THEOREM TypesHold == Spec => []TypeOK
    BY InvariantHolds, PTL DEF IInv

-----------------------------------------------------------------------------
\* What more the last event says of its device, it says of no other.
LEMMA SaysMore ==
    ASSUME NEW q \in Seq(Events), NEW v, NEW e \in Events, NEW d, NEW s
    PROVE  /\ e.device = d => Leaves(Append(q, e), v, d, Says(e))
           /\ e.device # d /\ Leaves(q, v, d, s) => Leaves(Append(q, e), v, d, s)
    <1> DEFINE n == Len(q)
               r == Append(q, e)
    <1>1. n \in Nat /\ Len(r) = n + 1 /\ r[n + 1] = e /\ \A i \in 1..n : r[i] = q[i]
        OBVIOUS
    <1> HIDE DEF r
    <1>2. ASSUME e.device = d PROVE Leaves(r, v, d, Says(e))
        <2>1. n + 1 \in 1..Len(r) /\ r[n + 1].device = d /\ Says(e) = Says(r[n + 1])
            BY <1>1, <1>2
        <2>2. \A j \in (n + 1 + 1)..Len(r) : r[j].device # d
            BY <1>1
        <2> QED BY <2>1, <2>2 DEF Leaves
    <1>3. ASSUME e.device # d, Leaves(q, v, d, s) PROVE Leaves(r, v, d, s)
        <2>1. CASE s = v[d] /\ \A i \in 1..n : q[i].device # d
            <3>1. \A i \in 1..Len(r) : r[i].device # d
                BY <1>1, <1>3, <2>1
            <3> QED BY <2>1, <3>1 DEF Leaves
        <2>2. ASSUME NEW i \in 1..n, q[i].device = d, s = Says(q[i]),
                     \A j \in (i + 1)..n : q[j].device # d
              PROVE  Leaves(r, v, d, s)
            <3>1. i \in 1..Len(r) /\ r[i] = q[i]
                BY <1>1
            <3>2. \A j \in (i + 1)..Len(r) : r[j].device # d
                BY <1>1, <1>3, <2>2
            <3> QED BY <2>2, <3>1, <3>2 DEF Leaves
        <2> QED BY <1>3, <2>1, <2>2 DEF Leaves
    <1> QED BY <1>2, <1>3 DEF r

\* What the events leave is the same when the first of them has been applied.
LEMMA SaysLess ==
    ASSUME NEW q \in Seq(Events), q # << >>, NEW v \in Views, NEW d \in Devices, NEW s,
           Leaves(q, v, d, s)
    PROVE  Leaves(Tail(q), Apply(v, Head(q)), d, s)
    <1> DEFINE n == Len(q)
               t == Tail(q)
               u == Apply(v, Head(q))
    <1>1. /\ n \in Nat \ {0} /\ Len(t) = n - 1 /\ Head(q) = q[1] /\ q[1] \in Events
          /\ \A i \in 1..(n - 1) : t[i] = q[i + 1]
        BY EmptySeq, HeadTailProperties
    <1>2. u[d] = IF q[1].device = d THEN Says(q[1]) ELSE v[d]
        BY <1>1 DEF Views, Apply
    <1>3. \A m \in 1..n : (\A j \in (m + 1)..n : q[j].device # d)
                => \A j \in m..(n - 1) : t[j].device # d
        <2> SUFFICES ASSUME NEW m \in 1..n, \A j \in (m + 1)..n : q[j].device # d,
                            NEW j \in m..(n - 1)
                     PROVE  t[j].device # d
            OBVIOUS
        <2>1. j + 1 \in (m + 1)..n /\ t[j] = q[j + 1]
            BY <1>1
        <2> QED BY <2>1
    <1> HIDE DEF t, u
    <1>4. CASE s = v[d] /\ \A i \in 1..n : q[i].device # d
        <2>1. 1 \in 1..n /\ \A j \in (1 + 1)..n : q[j].device # d
            BY <1>1, <1>4
        <2>2. u[d] = s /\ \A j \in 1..(n - 1) : t[j].device # d
            BY <1>2, <1>3, <1>4, <2>1
        <2> QED BY <1>1, <2>2 DEF Leaves, t, u
    <1>5. ASSUME NEW i \in 1..n, q[i].device = d, s = Says(q[i]),
                 \A j \in (i + 1)..n : q[j].device # d
          PROVE  Leaves(t, u, d, s)
        <2>1. \A j \in i..(n - 1) : t[j].device # d
            BY <1>3, <1>5
        <2>2. CASE i = 1
            BY <1>1, <1>2, <1>5, <2>1, <2>2 DEF Leaves
        <2>3. CASE i # 1
            <3>1. i - 1 \in 1..Len(t) /\ t[i - 1] = q[i] /\ (i - 1) + 1 = i
                BY <1>1, <2>3
            <3>2. \A j \in ((i - 1) + 1)..Len(t) : t[j].device # d
                BY <1>1, <2>1, <3>1
            <3> QED BY <1>5, <3>1, <3>2 DEF Leaves
        <2> QED BY <2>2, <2>3
    <1> QED BY <1>4, <1>5 DEF Leaves, t, u

\* Every step keeps the account of what is on the way.
LEMMA AccountedKept == IInv /\ Accounted /\ Next => Accounted'
    <1> USE DEF scanVars
    <1> SUFFICES ASSUME IInv, Accounted, Next, ~cancelled' PROVE Accounted'
        BY DEF Accounted
    <1>0. /\ Visits /\ out \in Seq(Events) /\ outbox \in Seq(Events)
          /\ view \in Views /\ known \in Views /\ list \in Views
          /\ out \o outbox \in Seq(Events)
        BY Queues DEF IInv, TypeOK, Views
    <1>1. ~cancelled
        BY DEF Next, Watcher, Visit, Tick, Scan, Sweep, ScanEnd, SweepEnd, Send, Abandon, End,
               Receive, Cancel, StopReading, Hotplug
    <1>2. \A d \in Devices : Leaves(out \o outbox, view, d, known[d])
        BY <1>1 DEF Accounted
    <1> DEFINE Kept == \A d \in Devices : Leaves(out' \o outbox', view', d, known'[d])
    <1> SUFFICES Kept
        BY DEF Accounted, Leaves
    <1>3. ASSUME UNCHANGED <<out, outbox, view, known>> PROVE Kept
        BY <1>2, <1>3
    <1>4. ASSUME NEW d \in Devices, Scan(d) PROVE Kept
        <2>1. /\ outbox = << >> /\ out \o outbox = out /\ list[d] \in States
              /\ out' = out /\ view' = view /\ outbox' = Differences(d)
              /\ known' = [known EXCEPT ![d] = list[d]]
            BY <1>0, <1>4, Queues DEF Scan, Visits, Views
        <2>2. /\ Added(d, list[d]) \in Events /\ Added(d, list[d]).device = d
              /\ Says(Added(d, list[d])) = list[d]
            BY <2>1 DEF Added, Events, Says
        <2>3. ASSUME NEW x \in Devices
              PROVE  Leaves(out \o Differences(d), view, x, known'[x])
            <3>0. Leaves(out, view, x, known[x])
                BY <1>2, <2>1
            <3>1. known'[x] = IF x = d THEN list[d] ELSE known[x]
                BY <1>0, <2>1 DEF Views
            <3>2. CASE known[d] = Gone
                <4>1. out \o Differences(d) = Append(out, Added(d, list[d]))
                    BY <1>0, <2>2, <3>2, Queues DEF Differences
                <4>2. Leaves(Append(out, Added(d, list[d])), view, x, known'[x])
                    BY <1>0, <2>2, <3>0, <3>1, SaysMore
                <4> QED BY <4>1, <4>2
            <3>3. CASE known[d] # Gone /\ known[d] # list[d]
                <4> DEFINE q == Append(out, Removed(d, known[d]))
                <4>1. /\ Removed(d, known[d]) \in Events
                      /\ Removed(d, known[d]).device = d
                    BY <1>0, <3>3 DEF Removed, Events, Views
                <4>2. out \o Differences(d) = Append(q, Added(d, list[d]))
                    BY <1>0, <2>2, <3>3, <4>1, Queues DEF Differences
                <4>3. q \in Seq(Events) /\ (x # d => Leaves(q, view, x, known[x]))
                    BY <1>0, <3>0, <4>1, SaysMore
                <4> HIDE DEF q
                <4>4. Leaves(Append(q, Added(d, list[d])), view, x, known'[x])
                    BY <2>2, <3>1, <4>3, SaysMore
                <4> QED BY <4>2, <4>4
            <3>4. CASE known[d] # Gone /\ known[d] = list[d]
                BY <1>0, <3>0, <3>1, <3>4, Queues DEF Differences
            <3> QED BY <3>2, <3>3, <3>4
        <2> QED BY <2>1, <2>3
    <1>5. ASSUME NEW d \in Devices, Sweep(d) PROVE Kept
        <2> DEFINE e == Removed(d, known[d])
        <2>1. /\ outbox = << >> /\ out \o outbox = out /\ known[d] \in States
              /\ out' = out /\ view' = view /\ outbox' = <<e>>
              /\ known' = [known EXCEPT ![d] = Gone]
            BY <1>0, <1>5, Queues DEF Sweep, Drop, Visits, Views
        <2>2. e \in Events /\ e.device = d /\ Says(e) = Gone
            BY <2>1 DEF Removed, Events, Says
        <2>3. out' \o outbox' = Append(out, e)
            BY <1>0, <2>1, <2>2, Queues
        <2>4. ASSUME NEW x \in Devices PROVE Leaves(Append(out, e), view, x, known'[x])
            <3>1. known'[x] = IF x = d THEN Gone ELSE known[x]
                BY <1>0, <2>1 DEF Views
            <3>2. Leaves(out, view, x, known[x])
                BY <1>2, <2>1
            <3> QED BY <1>0, <2>2, <3>1, <3>2, SaysMore
        <2> QED BY <2>1, <2>3, <2>4
    <1>6. CASE Send
        <2>1. out' \o outbox' = out \o outbox /\ view' = view /\ known' = known
            BY <1>0, <1>6, Queues DEF Send
        <2> QED BY <1>2, <2>1
    <1>7. CASE Receive
        <2>1. /\ Head(out \o outbox) = Head(out) /\ out \o outbox # << >>
              /\ out' \o outbox' = Tail(out \o outbox) /\ known' = known
              /\ view' = Apply(view, Head(out))
            BY <1>0, <1>7, Queues DEF Receive
        <2>2. \A d \in Devices :
                 Leaves(Tail(out \o outbox), Apply(view, Head(out \o outbox)), d, known[d])
            BY <1>0, <1>2, <2>1, SaysLess
        <2> QED BY <2>1, <2>2
    <1>8. CASE Tick \/ ScanEnd \/ SweepEnd \/ End \/ Cancel \/ StopReading
        BY <1>3, <1>8 DEF Tick, ScanEnd, SweepEnd, End, Cancel, StopReading
    <1>9. CASE Abandon
        BY <1>1, <1>9 DEF Abandon, Abandons
    <1>10. ASSUME NEW d \in Devices, NEW s \in States \cup {Gone}, Hotplug(d, s)
           PROVE  Kept
        BY <1>3, <1>10 DEF Hotplug
    <1> QED
        BY <1>4, <1>5, <1>6, <1>7, <1>8, <1>9, <1>10 DEF Next, Watcher, Visit

\* Nothing the watcher found out is lost on its way to a caller that reads on, however
\* long the channel is and whenever it is full (WatchDevices' sends).
THEOREM AccountedHolds == Spec => []Accounted
    <1>1. Init => Accounted
        <2> SUFFICES ASSUME Init PROVE \A d \in Devices :
                        Leaves(out \o outbox, view, d, known[d])
            BY DEF Accounted
        <2>1. out \o outbox = << >> /\ view = known
            BY Queues, EmptySeq DEF Init
        <2>2. Len(out \o outbox) = 0
            BY <2>1, EmptySeq
        <2> QED BY <2>1, <2>2 DEF Leaves
    <1>2. ASSUME Accounted, UNCHANGED vars PROVE Accounted'
        <2>1. UNCHANGED <<cancelled, out, outbox, view, known>>
            BY <1>2 DEF vars, scanVars
        <2>2. cancelled' \/ \A d \in Devices : Leaves(out' \o outbox', view', d, known'[d])
            BY <1>2, <2>1 DEF Accounted
        <2> QED BY <2>2 DEF Accounted, Leaves
    <1> QED BY <1>1, <1>2, AccountedKept, InvariantHolds, PTL DEF Spec

\* What the watcher's caller sees implements DeviceView: a device comes only when it had
\* gone and goes only when it had come, whatever the channel holds (WatchDevices).
THEOREM Refinement == Spec => ImplementsView
    <1>1. Init => View!Init
        BY DEF Init, View!Init, Nothing
    <1>2. ASSUME IInv, [Next]_vars PROVE [View!Next]_view
        <2>1. CASE Receive
            <3> DEFINE e == Head(out)
            <3>1. /\ out \in Seq(Events) /\ outbox \in Seq(Events) /\ out # << >>
                  /\ view \in Views /\ view' = Apply(view, e)
                BY <1>2, <2>1 DEF IInv, TypeOK, Receive, Views
            <3>2. /\ e \in Events /\ out \o outbox \in Seq(Events)
                  /\ out \o outbox # << >> /\ Head(out \o outbox) = e
                BY <3>1, Queues, HeadTailProperties
            <3>3. Legal(view, e)
                BY <1>2, <3>1, <3>2, OneLess DEF IInv, Told
            <3>4. CASE e.type = "added"
                <4>1. e.device \in Devices /\ e.state \in States
                    BY <3>2 DEF Events
                <4>2. View!Comes(e.device)
                    BY <3>1, <3>3, <3>4, <4>1 DEF View!Comes, Apply, Says, Legal
                <4> QED BY <4>1, <4>2 DEF View!Next
            <3>5. CASE e.type # "added"
                <4>1. e.device \in Devices
                    BY <3>2 DEF Events
                <4>2. View!Goes(e.device)
                    BY <3>1, <3>3, <3>5 DEF View!Goes, Apply, Says, Legal
                <4> QED BY <4>1, <4>2 DEF View!Next
            <3> QED BY <3>4, <3>5
        <2>2. CASE ~Receive
            <3>1. UNCHANGED view
                BY <1>2, <2>2
                DEF Next, Watcher, Visit, Tick, Scan, Sweep, ScanEnd, SweepEnd, Send, Abandon,
                    End, Cancel, StopReading, Hotplug, vars
            <3> QED BY <3>1
        <2> QED BY <2>1, <2>2
    <1> QED BY <1>1, <1>2, InvariantHolds, PTL DEF Spec, ImplementsView, View!Spec
=============================================================================
