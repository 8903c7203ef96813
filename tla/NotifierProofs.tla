--------------------------- MODULE NotifierProofs ---------------------------
(***************************************************************************)
(* Proofs about Notifier: the nodes of readySockets are linked once and       *)
(* marked, an open socket that is marked is on the list, about to be, or      *)
(* stray (FreeSocketInfo's pop emptied the list over it), no event outlives   *)
(* its socket, and the Tcl thread does not sleep on something the script of a *)
(* socket waits for that is not stray, for every set of sockets, every cap    *)
(* and either switch.                                                        *)
(*                                                                          *)
(* The first three are inductive together with where each thread can be      *)
(* (Places).  The last one needs to say what is on its way for each socket   *)
(* whose script is wanted: a link, an event, a script that is running, a zap, *)
(* or the test that will decide on one (Coming and the three after it).      *)
(***************************************************************************)
EXTENDS Notifier, SequenceTheorems, TLAPS

At(t, places, s) == pc[t] \in places /\ sock[t] = s

\* Where the threads can be, and for which sockets.
Places ==
  /\ pc["ct"] # "idle" => sock["ct"] \in Sockets
  /\ pc["tcl"] \notin {"idle", "wait", "checkBegin", "check"} => sock["tcl"] \in Sockets
  /\ pc["ct"] = "unlink" => st[sock["ct"]] = "closed"
  /\ pc["tcl"] = "closeFlag" => st[sock["tcl"]] = "open"
  /\ \A s \in Sockets : st[s] = "closing" <=> At("tcl", {"closePop", "closeEvents"}, s)
  /\ pc["tcl"] # "push" \/ pc["ct"] # "push"

\* A send that is to be compared with the cap, or taken back, is counted.
SendCounted == pc["tcl"] \in {"outTest", "outUndo"} => sends[sock["tcl"]] > 0

\* A sleeping Tcl thread has served its events, and what has been listed since is
\* about to wake it.
Asleep ==
  pc["tcl"] = "wait" =>
    /\ evq = <<>> /\ running = None
    /\ lCount # 0 => alert \/ pc["ct"] = "alert"

\* A list with a front is counted, so that IocpLLPop does not pass it by.
Counted == front # None => lCount # 0

\* The script of s will be looked after whatever it waits for.
Coming(s) ==
  \/ Linked(s) \/ Pending(s) \/ running = s
  \/ \E t \in Threads : At(t, {"zap", "push"}, s)
  \/ At("tcl", {"checkChan", "closeFlag"}, s)

\* A connection that waits, ...
AcceptDue(s) == st[s] = "open" /\ accepts[s] > 0
AcceptComing ==
  \A s \in Listeners : AcceptDue(s) => Coming(s) \/ At("tcl", {"requeue"}, s)

\* input that is watched for, ...
InputDue(s) == st[s] = "open" /\ "R" \in mask[s] /\ recvs[s] > 0
InputComing ==
  \A s \in Clients : InputDue(s) =>
    Coming(s) \/ At("tcl", {"watchTest"}, s) \/ At("ct", {"recvTest"}, s)

\* and room to write.  The completion that made room is the one that is handled;
\* an earlier one was reported.
OutputDue(s) ==
  st[s] = "open" /\ "W" \in mask[s] /\ sends[s] < cap[s] /\ conn[s] = "yes"
OutputComing ==
  \A s \in Clients : OutputDue(s) =>
    \/ Coming(s) \/ At("tcl", {"outWatch", "watchTest"}, s)
    \/ At("ct", {"sentTest"}, s) /\ sends[s] + 1 >= cap[s]

IInv ==
  /\ TypeOK /\ Places
  /\ ListedOnce /\ MarkIsBacked /\ EventsAreForOpen
  /\ Asleep /\ Counted /\ SendCounted
  /\ AcceptComing /\ InputComing /\ OutputComing

-----------------------------------------------------------------------------
\* Sequences.

Injective(q) == \A i, j \in DOMAIN q : q[i] = q[j] => i = j
\* What chains hold, and that they hold it once.
Links(cs, x) == \E q \in cs : In(q, x)
Unique(cs) ==
  \A q, r \in cs : \A i \in DOMAIN q, j \in DOMAIN r : q[i] = r[j] => q = r /\ i = j

LEMMA Lists ==
  /\ \A s : Linked(s) <=> Links(chains, s)
  /\ \A s : Linked(s)' <=> Links(chains', s)
  /\ \A s : Pending(s) <=> In(evq, s)
  /\ \A s : Pending(s)' <=> In(evq', s)
BY DEF Linked, Links, Pending, In

LEMMA Appended ==
  ASSUME NEW S, NEW q \in Seq(S), NEW e \in S
  PROVE  /\ Append(q, e) \in Seq(S) /\ Append(q, e) # <<>>
         /\ \A x : In(Append(q, e), x) <=> In(q, x) \/ x = e
         /\ Injective(q) /\ ~ In(q, e) => Injective(Append(q, e))
<1>1. /\ Append(q, e) \in Seq(S) /\ Len(Append(q, e)) = Len(q) + 1 /\ Len(q) \in Nat
      /\ \A i \in 1 .. Len(q) : Append(q, e)[i] = q[i]
      /\ Append(q, e)[Len(q) + 1] = e
      /\ DOMAIN q = 1 .. Len(q) /\ DOMAIN Append(q, e) = 1 .. (Len(q) + 1)
  OBVIOUS
<1>2. Append(q, e) # <<>>
  BY <1>1
<1>3. \A i : i \in 1 .. (Len(q) + 1) <=> i \in 1 .. Len(q) \/ i = Len(q) + 1
  BY <1>1
<1>4. \A x : In(Append(q, e), x) <=> In(q, x) \/ x = e
  BY <1>1, <1>3 DEF In
<1>5. ASSUME Injective(q), ~ In(q, e)
      PROVE  Injective(Append(q, e))
  BY <1>1, <1>3, <1>5 DEF Injective, In
<1> QED BY <1>1, <1>2, <1>4, <1>5

LEMMA Tailed ==
  ASSUME NEW S, NEW q \in Seq(S), q # <<>>
  PROVE  /\ Head(q) \in S /\ Tail(q) \in Seq(S) /\ In(q, Head(q))
         /\ \A x : In(q, x) <=> In(Tail(q), x) \/ x = Head(q)
         /\ Injective(q) => Injective(Tail(q)) /\ ~ In(Tail(q), Head(q))
<1>1. /\ Head(q) = q[1] /\ Head(q) \in S /\ Tail(q) \in Seq(S)
      /\ Len(q) \in Nat \ {0} /\ Len(Tail(q)) = Len(q) - 1
      /\ DOMAIN q = 1 .. Len(q) /\ DOMAIN Tail(q) = 1 .. (Len(q) - 1)
      /\ \A i \in 1 .. (Len(q) - 1) : Tail(q)[i] = q[i+1]
  BY HeadTailProperties
<1>2. \A i \in 1 .. Len(q) : i = 1 \/ (i - 1 \in 1 .. (Len(q) - 1) /\ (i - 1) + 1 = i)
  BY <1>1
<1>3. \A i \in 1 .. (Len(q) - 1) : i + 1 \in 1 .. Len(q) /\ i + 1 # 1
  BY <1>1
<1>4. 1 \in 1 .. Len(q)
  BY <1>1
<1>5. \A x : In(q, x) <=> In(Tail(q), x) \/ x = Head(q)
  <2>1. ASSUME NEW x, In(q, x)
        PROVE  In(Tail(q), x) \/ x = Head(q)
    <3>1. PICK i \in 1 .. Len(q) : q[i] = x
      BY <2>1, <1>1 DEF In
    <3>2. CASE i = 1
      BY <3>1, <3>2, <1>1
    <3>3. CASE i - 1 \in 1 .. (Len(q) - 1) /\ (i - 1) + 1 = i
      <4>1. Tail(q)[i - 1] = x
        BY <3>1, <3>3, <1>1
      <4> QED BY <3>3, <4>1, <1>1 DEF In
    <3> QED BY <3>2, <3>3, <1>2
  <2>2. ASSUME NEW x, In(Tail(q), x)
        PROVE  In(q, x)
    BY <2>2, <1>1, <1>3 DEF In
  <2>3. In(q, Head(q))
    BY <1>1, <1>4 DEF In
  <2> QED BY <2>1, <2>2, <2>3
<1>6. ASSUME Injective(q)
      PROVE  Injective(Tail(q)) /\ ~ In(Tail(q), Head(q))
  <2>1. ASSUME NEW i \in 1 .. (Len(q) - 1), NEW j \in 1 .. (Len(q) - 1),
               Tail(q)[i] = Tail(q)[j]
        PROVE  i = j
    <3>1. q[i+1] = q[j+1] /\ i + 1 \in DOMAIN q /\ j + 1 \in DOMAIN q
      BY <2>1, <1>1, <1>3
    <3>2. i + 1 = j + 1
      BY <3>1, <1>6 DEF Injective
    <3> QED BY <3>2
  <2>2. ASSUME NEW i \in 1 .. (Len(q) - 1), Tail(q)[i] = Head(q)
        PROVE  FALSE
    <3>1. q[i+1] = q[1] /\ i + 1 \in DOMAIN q /\ 1 \in DOMAIN q
      BY <2>2, <1>1, <1>3, <1>4
    <3>2. i + 1 = 1
      BY <3>1, <1>6 DEF Injective
    <3> QED BY <3>2
  <2> QED BY <2>1, <2>2, <1>1 DEF Injective, In
<1> QED BY <1>1, <1>5, <1>6

LEMMA Removed ==
  ASSUME NEW S, NEW q \in Seq(S), NEW i \in DOMAIN q
  PROVE  /\ RemoveAt(q, i) \in Seq(S)
         /\ \A x : In(RemoveAt(q, i), x) => In(q, x)
         /\ \A x : In(q, x) /\ x # q[i] => In(RemoveAt(q, i), x)
         /\ Injective(q) => Injective(RemoveAt(q, i)) /\ ~ In(RemoveAt(q, i), q[i])
<1> DEFINE a == SubSeq(q, 1, i-1)
           b == SubSeq(q, i+1, Len(q))
           r == RemoveAt(q, i)
<1>1. /\ Len(q) \in Nat /\ DOMAIN q = 1 .. Len(q) /\ i \in 1 .. Len(q) /\ i \in Int
  OBVIOUS
<1>2. /\ a \in Seq(S) /\ Len(a) = i - 1 /\ \A k \in 1 .. i-1 : a[k] = q[k]
      /\ b \in Seq(S) /\ Len(b) = Len(q) - i /\ \A k \in 1 .. Len(q) - i : b[k] = q[i + k]
  BY <1>1
<1>3. r = a \o b
  BY DEF RemoveAt
<1> HIDE DEF a, b, r
<1>4. /\ r \in Seq(S) /\ Len(r) = Len(q) - 1 /\ DOMAIN r = 1 .. Len(q) - 1
      /\ \A k \in 1 .. Len(q) - 1 : r[k] = IF k < i THEN q[k] ELSE q[k + 1]
  <2>1. r \in Seq(S) /\ Len(r) = (i - 1) + (Len(q) - i)
    <3>1. a \in Seq(S) /\ b \in Seq(S) /\ Len(a) = i - 1 /\ Len(b) = Len(q) - i
      BY <1>2
    <3>2. a \o b \in Seq(S) /\ Len(a \o b) = Len(a) + Len(b)
      BY <3>1, ConcatProperties
    <3> QED BY <3>1, <3>2, <1>3
  <2>2. ASSUME NEW k \in 1 .. Len(q) - 1
        PROVE  r[k] = IF k < i THEN q[k] ELSE q[k + 1]
    <3>1. CASE k < i
      BY <3>1, <1>1, <1>2, <1>3
    <3>2. CASE ~ (k < i)
      <4>1. k - (i - 1) \in 1 .. Len(q) - i /\ i + (k - (i - 1)) = k + 1
        BY <3>2, <1>1
      <4>2. r[k] = b[k - (i - 1)]
        <5>1. k \in 1 .. Len(a) + Len(b) /\ ~ (k <= Len(a)) /\ Len(a) = i - 1
          BY <3>2, <1>1, <1>2
        <5> QED BY <5>1, <1>2, <1>3, ConcatProperties
      <4> QED BY <3>2, <4>1, <4>2, <1>2
    <3> QED BY <3>1, <3>2
  <2> QED BY <1>1, <2>1, <2>2
<1>5. \A x : In(r, x) => In(q, x)
  <2> SUFFICES ASSUME NEW k \in 1 .. Len(q) - 1 PROVE In(q, r[k])
    BY <1>4 DEF In
  <2>1. k \in DOMAIN q /\ k + 1 \in DOMAIN q
    BY <1>1
  <2> QED BY <2>1, <1>4 DEF In
<1>6. \A x : In(q, x) /\ x # q[i] => In(r, x)
  <2> SUFFICES ASSUME NEW k \in 1 .. Len(q), q[k] # q[i] PROVE In(r, q[k])
    BY <1>1 DEF In
  <2>1. CASE k < i
    <3>1. k \in 1 .. Len(q) - 1 /\ r[k] = q[k]
      BY <2>1, <1>1, <1>4
    <3> QED BY <3>1, <1>4 DEF In
  <2>2. CASE k > i
    <3>1. k - 1 \in 1 .. Len(q) - 1 /\ ~ (k - 1 < i) /\ (k - 1) + 1 = k
      BY <2>2, <1>1
    <3>2. r[k - 1] = q[k]
      BY <3>1, <1>4
    <3> QED BY <3>1, <3>2, <1>4 DEF In
  <2> QED BY <2>1, <2>2, <1>1
<1>7. ASSUME Injective(q)
      PROVE  Injective(r) /\ ~ In(r, q[i])
  <2> DEFINE p(k) == IF k < i THEN k ELSE k + 1
  <2>1. \A k \in 1 .. Len(q) - 1 : p(k) \in DOMAIN q /\ r[k] = q[p(k)] /\ p(k) # i
    BY <1>1, <1>4
  <2>2. \A j, k \in 1 .. Len(q) - 1 : p(j) = p(k) => j = k
    BY <1>1
  <2> HIDE DEF p
  <2>3. ASSUME NEW j \in 1 .. Len(q) - 1, NEW k \in 1 .. Len(q) - 1, r[j] = r[k]
        PROVE  j = k
    <3>1. p(j) = p(k)
      BY <2>1, <2>3, <1>7 DEF Injective
    <3> QED BY <3>1, <2>2
  <2>4. ASSUME NEW k \in 1 .. Len(q) - 1, r[k] = q[i]
        PROVE  FALSE
    BY <2>1, <2>4, <1>1, <1>7 DEF Injective
  <2> QED BY <2>3, <2>4, <1>4 DEF Injective, In
<1> QED BY <1>4, <1>5, <1>6, <1>7 DEF r

-----------------------------------------------------------------------------
\* The list.

ListTyped ==
  /\ chains \subseteq Seq(Sockets)
  /\ front \in Sockets \cup {None} /\ back \in Sockets \cup {None}
  /\ lCount \in Nat

LEMMA PushTyped ==
  ASSUME ListTyped, NEW s \in Sockets, PushBack(s)
  PROVE  ListTyped' /\ lCount' # 0
<1>1. lCount' \in Nat /\ lCount' # 0 /\ back' = s /\ (front' = s \/ front' = front)
  BY DEF PushBack, ListTyped
<1>2. chains' \subseteq Seq(Sockets)
  <2>1. CASE chains' = chains \cup {<<s>>}
    <3>1. <<s>> \in Seq(Sockets)
      OBVIOUS
    <3> QED BY <2>1, <3>1 DEF ListTyped
  <2>2. ASSUME NEW q \in chains, chains' = (chains \ {q}) \cup {Append(q, s)}
        PROVE  chains' \subseteq Seq(Sockets)
    BY <2>2, Appended DEF ListTyped
  <2> QED BY <2>1, <2>2 DEF PushBack
<1> QED BY <1>1, <1>2 DEF ListTyped

\* IocpLLPushBack adds the node, ...
LEMMA PushAdds ==
  ASSUME ListTyped, NEW s \in Sockets, PushBack(s)
  PROVE  \A x : Links(chains', x) <=> Links(chains, x) \/ x = s
<1>1. CASE chains' = chains \cup {<<s>>}
  <2>1. \A x : In(<<s>>, x) <=> x = s
    BY DEF In
  <2> QED BY <1>1, <2>1 DEF Links
<1>2. ASSUME NEW q \in chains, chains' = (chains \ {q}) \cup {Append(q, s)}
      PROVE  \A x : Links(chains', x) <=> Links(chains, x) \/ x = s
  <2>1. \A x : In(Append(q, s), x) <=> In(q, x) \/ x = s
    BY Appended DEF ListTyped
  <2> QED BY <1>2, <2>1 DEF Links
<1> QED BY <1>1, <1>2 DEF PushBack

\* ... once, when it was not linked.
LEMMA PushLinks ==
  ASSUME ListTyped, NEW s \in Sockets, PushBack(s), Unique(chains), ~ Links(chains, s)
  PROVE  Unique(chains') /\ \A x : Links(chains', x) <=> Links(chains, x) \/ x = s
<1>1. Unique(chains')
  <2>1. CASE chains' = chains \cup {<<s>>}
    <3>1. DOMAIN <<s>> = {1} /\ <<s>>[1] = s
      OBVIOUS
    <3>2. \A q \in chains : \A i \in DOMAIN q : q[i] # s
      BY DEF Links, In
    <3> QED BY <2>1, <3>1, <3>2 DEF Unique
  <2>2. ASSUME NEW q \in chains, chains' = (chains \ {q}) \cup {Append(q, s)}
        PROVE  Unique(chains')
    <3> DEFINE a == Append(q, s)
    <3>1. /\ Injective(q) /\ ~ In(q, s)
          /\ q \in Seq(Sockets)
      BY DEF Unique, Injective, Links, ListTyped
    <3>2. Injective(a) /\ \A x : In(a, x) <=> In(q, x) \/ x = s
      BY <3>1, Appended
    <3> HIDE DEF a
    <3>3. ASSUME NEW r \in chains \ {q}, NEW i \in DOMAIN r, NEW j \in DOMAIN a, r[i] = a[j]
          PROVE  FALSE
      <4>1. In(r, a[j]) /\ In(a, a[j])
        BY <3>3 DEF In
      <4>2. In(q, a[j]) \/ a[j] = s
        BY <3>2, <4>1
      <4> QED BY <4>1, <4>2 DEF Links, Unique, In
    <3> QED BY <2>2, <3>2, <3>3 DEF Unique, Injective, a
  <2> QED BY <2>1, <2>2 DEF PushBack
<1> QED BY <1>1, PushAdds

LEMMA PopTyped ==
  ASSUME ListTyped, NEW s \in Sockets, Pop(s)
  PROVE  ListTyped' /\ (Counted => Counted')
<1>1. CASE UNCHANGED readySockets
  BY <1>1 DEF ListTyped, Counted, readySockets
<1>2. CASE lCount # 0 /\ lCount' = lCount - 1 /\ Unlink(s)
  <2>1. lCount' \in Nat
    BY <1>2 DEF ListTyped
  <2>2. CASE Ends(<<>>, TRUE, TRUE) /\ UNCHANGED chains
    BY <2>1, <2>2 DEF Ends, ListTyped, Counted
  <2>3. ASSUME NEW q \in chains, NEW i \in DOMAIN q,
               Ends(RemoveAt(q, i), i = 1, i = Len(q)),
               chains' = (chains \ {q}) \cup ({RemoveAt(q, i)} \ {<<>>})
        PROVE  ListTyped' /\ Counted'
    <3> DEFINE rest == RemoveAt(q, i)
    <3>1. rest \in Seq(Sockets)
      BY Removed DEF ListTyped
    <3> HIDE DEF rest
    <3>2. rest # <<>> => rest[1] \in Sockets /\ Last(rest) \in Sockets
      BY <3>1 DEF Last
    <3>3. chains' \subseteq Seq(Sockets)
      BY <2>3, <3>1 DEF ListTyped, rest
    <3>4. Ends(rest, i = 1, i = Len(q))
      BY <2>3 DEF rest
    <3>5. front' \in Sockets \cup {None} /\ back' \in Sockets \cup {None}
          /\ (lCount' = 0 => front' = None)
      BY <3>2, <3>4 DEF Ends, ListTyped
    <3> QED BY <2>1, <3>3, <3>5 DEF ListTyped, Counted
  <2> QED BY <1>2, <2>2, <2>3 DEF Unlink
<1> QED BY <1>1, <1>2 DEF Pop

\* IocpLLPop takes the node it is given off its chain and no other, whatever it does
\* to front and back.
LEMMA PopLinks ==
  ASSUME ListTyped, NEW s \in Sockets, Pop(s)
  PROVE  /\ \A x : Links(chains', x) => Links(chains, x)
         /\ \A x : Links(chains, x) /\ x # s => Links(chains', x)
         /\ Unique(chains) => Unique(chains')
         /\ Unique(chains) /\ front # None /\ lCount # 0 => ~ Links(chains', s)
<1>1. CASE UNCHANGED readySockets /\ (front = None \/ lCount = 0)
  BY <1>1 DEF readySockets
<1>2. CASE ~ Linked(s) /\ UNCHANGED chains
  BY <1>2, Lists
<1>3. ASSUME NEW q \in chains, NEW i \in DOMAIN q, q[i] = s,
             chains' = (chains \ {q}) \cup ({RemoveAt(q, i)} \ {<<>>})
      PROVE  /\ \A x : Links(chains', x) => Links(chains, x)
             /\ \A x : Links(chains, x) /\ x # s => Links(chains', x)
             /\ Unique(chains) => Unique(chains') /\ ~ Links(chains', s)
  <2> DEFINE rest == RemoveAt(q, i)
  <2>1. /\ \A x : In(rest, x) => In(q, x)
        /\ \A x : In(q, x) /\ x # s => In(rest, x)
        /\ Injective(q) => Injective(rest) /\ ~ In(rest, s)
    BY <1>3, Removed DEF ListTyped
  <2>2. chains' = (chains \ {q}) \cup ({rest} \ {<<>>})
    BY <1>3
  <2> HIDE DEF rest
  <2>3. \A x : ~ In(<<>>, x)
    BY DEF In
  <2>4. \A x : Links(chains', x) => Links(chains, x)
    BY <2>1, <2>2 DEF Links
  <2>5. ASSUME NEW x, Links(chains, x), x # s
        PROVE  Links(chains', x)
    <3>1. PICK r \in chains : In(r, x)
      BY <2>5 DEF Links
    <3>2. CASE r = q
      <4>1. In(rest, x) /\ rest # <<>>
        BY <2>1, <2>3, <2>5, <3>1, <3>2
      <4> QED BY <2>2, <4>1 DEF Links
    <3> QED BY <2>2, <3>1, <3>2 DEF Links
  <2>6. ASSUME Unique(chains)
        PROVE  Unique(chains') /\ ~ Links(chains', s)
    <3>1. Injective(q)
      BY <2>6 DEF Unique, Injective
    <3>2. ASSUME NEW r \in chains \ {q}, NEW j \in DOMAIN r, NEW k \in DOMAIN rest,
                 r[j] = rest[k]
          PROVE  FALSE
      <4>1. In(rest, r[j])
        BY <3>2 DEF In
      <4>2. In(q, r[j])
        BY <4>1, <2>1
      <4> QED BY <4>2, <2>6 DEF Unique, In
    <3>3. Injective(rest) /\ ~ In(rest, s)
      BY <3>1, <2>1
    <3>4. Unique(chains')
      <4> SUFFICES ASSUME NEW u \in chains', NEW v \in chains',
                          NEW j \in DOMAIN u, NEW k \in DOMAIN v, u[j] = v[k]
                   PROVE  u = v /\ j = k
        BY DEF Unique
      <4>1. CASE u \in chains \ {q} /\ v \in chains \ {q}
        BY <4>1, <2>6 DEF Unique
      <4>2. CASE u = rest /\ v = rest
        BY <4>2, <3>3 DEF Injective
      <4>3. CASE u \in chains \ {q} /\ v = rest
        BY <4>3, <3>2
      <4>4. CASE u = rest /\ v \in chains \ {q}
        BY <4>4, <3>2
      <4> QED BY <2>2, <4>1, <4>2, <4>3, <4>4
    <3>5. ASSUME NEW r \in chains \ {q}
          PROVE  ~ In(r, s)
      BY <3>5, <2>6, <1>3 DEF Unique, In
    <3> QED BY <2>2, <3>3, <3>4, <3>5 DEF Links
  <2> QED BY <2>4, <2>5, <2>6
<1> QED BY <1>1, <1>2, <1>3 DEF Pop, Unlink

-----------------------------------------------------------------------------
\* Type correctness: where the threads are, and the data.

ThreadsOK ==
  /\ pc \in [Threads -> TclAt \cup CtAt] /\ sock \in [Threads -> Sockets \cup {None}]
  /\ pc["tcl"] \in TclAt /\ pc["ct"] \in CtAt
SocketsOK ==
  /\ st \in [Sockets -> {"open", "closing", "closed", "freed"}]
  /\ conn \in [Sockets -> {"no", "yes", "failed"}]
  /\ mask \in [Sockets -> SUBSET {"R", "W"}]
  /\ recvs \in [Sockets -> Nat] /\ sends \in [Sockets -> Nat]
  /\ cap \in [Sockets -> Nat] /\ accepts \in [Sockets -> Nat]
ListsOK ==
  /\ marked \in [Sockets -> BOOLEAN] /\ ListTyped /\ evq \in Seq(Sockets)
  /\ alert \in BOOLEAN /\ running \in Sockets \cup {None}
  /\ count \in Nat /\ broken \in Breaks \cup {"no"}

LEMMA TypeParts == TypeOK <=> ThreadsOK /\ SocketsOK /\ ListsOK
BY DEF TypeOK, ThreadsOK, SocketsOK, ListsOK, ListTyped

LEMMA TypePartsNext == TypeOK' <=> ThreadsOK' /\ SocketsOK' /\ ListsOK'
BY DEF TypeOK, ThreadsOK, SocketsOK, ListsOK, ListTyped

LEMMA ThreadsStay ==
  ASSUME TypeOK, Places, Running /\ (TclLoop \/ TclStep \/ TclCall \/ CtTake \/ CtStep)
  PROVE  ThreadsOK'
<1>i. /\ ThreadsOK /\ Places
      /\ Clients \subseteq Sockets /\ Listeners \subseteq Sockets
  BY TypeParts DEF Sockets
<1>1. ASSUME NEW t \in Threads, ZapMark(t)
      PROVE  ThreadsOK'
  BY <1>1, <1>i
     DEF ZapMark, Goto, Leave, Threads, ThreadsOK, Places, TclAt, CtAt, sockVars, listVars
<1>2. ASSUME NEW t \in Threads, ZapPush(t)
      PROVE  ThreadsOK'
  BY <1>2, <1>i
     DEF ZapPush, Goto, Leave, Threads, ThreadsOK, Places, TclAt, CtAt, sockVars, listVars
<1>3. ASSUME NEW t \in Threads, ZapAlert(t)
      PROVE  ThreadsOK'
  BY <1>3, <1>i
     DEF ZapAlert, Goto, Leave, Threads, ThreadsOK, Places, TclAt, CtAt, sockVars,
         listVars
<1>4. ASSUME EventSetup
      PROVE  ThreadsOK'
  BY <1>4, <1>i
     DEF EventSetup, Goto, Leave, Threads, ThreadsOK, Places, TclAt, CtAt, sockVars,
         listVars
<1>5. ASSUME CheckBegin
      PROVE  ThreadsOK'
  BY <1>5, <1>i
     DEF CheckBegin, Goto, Leave, Threads, ThreadsOK, Places, TclAt, CtAt, sockVars,
         listVars
<1>6. ASSUME CheckPop
      PROVE  ThreadsOK'
  <2>1. front # None => front \in Sockets
    BY <1>i, TypeParts DEF ListsOK, ListTyped
  <2> QED BY <1>6, <2>1, <1>i DEF CheckPop, Goto, Threads, ThreadsOK, TclAt
<1>7. ASSUME CheckChannel
      PROVE  ThreadsOK'
  BY <1>7, <1>i
     DEF CheckChannel, Goto, Leave, Threads, ThreadsOK, Places, TclAt, CtAt, sockVars,
         listVars
<1>8. ASSUME CheckEnd
      PROVE  ThreadsOK'
  BY <1>8, <1>i
     DEF CheckEnd, Goto, Leave, Threads, ThreadsOK, Places, TclAt, CtAt, sockVars,
         listVars
<1>9. ASSUME NEW c \in Clients, ServiceClient(c)
      PROVE  ThreadsOK'
  BY <1>9, <1>i
     DEF ServiceClient, Goto, Leave, Threads, ThreadsOK, Places, TclAt, CtAt, sockVars,
         listVars
<1>10. ASSUME NEW c \in Clients, ClientReturn(c)
      PROVE  ThreadsOK'
  BY <1>10, <1>i
     DEF ClientReturn, Goto, Leave, Threads, ThreadsOK, Places, TclAt, CtAt, sockVars,
         listVars
<1>11. ASSUME NEW l \in Listeners, ServiceListener(l)
      PROVE  ThreadsOK'
  BY <1>11, <1>i
     DEF ServiceListener, Goto, Leave, Threads, ThreadsOK, Places, TclAt, CtAt, sockVars,
         listVars
<1>12. ASSUME NEW l \in Listeners, ListenerReturn(l)
      PROVE  ThreadsOK'
  BY <1>12, <1>i
     DEF ListenerReturn, Goto, Leave, Threads, ThreadsOK, Places, TclAt, CtAt, sockVars,
         listVars
<1>13. ASSUME Requeue
      PROVE  ThreadsOK'
  BY <1>13, <1>i
     DEF Requeue, Goto, Leave, Threads, ThreadsOK, Places, TclAt, CtAt, sockVars, listVars
<1>14. ASSUME WatchTest
      PROVE  ThreadsOK'
  BY <1>14, <1>i
     DEF WatchTest, Goto, Leave, Threads, ThreadsOK, Places, TclAt, CtAt, sockVars,
         listVars
<1>15. ASSUME NEW c \in Clients, OutputTest(c)
      PROVE  ThreadsOK'
  BY <1>15, <1>i
     DEF OutputTest, Goto, Leave, Threads, ThreadsOK, Places, TclAt, CtAt, sockVars,
         listVars
<1>16. ASSUME CloseFlag
      PROVE  ThreadsOK'
  BY <1>16, <1>i
     DEF CloseFlag, Goto, Leave, Threads, ThreadsOK, Places, TclAt, CtAt, sockVars,
         listVars
<1>17. ASSUME ClosePop
      PROVE  ThreadsOK'
  BY <1>17, <1>i
     DEF ClosePop, Goto, Leave, Threads, ThreadsOK, Places, TclAt, CtAt, sockVars,
         listVars
<1>18. ASSUME CloseEvents
      PROVE  ThreadsOK'
  BY <1>18, <1>i
     DEF CloseEvents, Goto, Leave, Threads, ThreadsOK, Places, TclAt, CtAt, sockVars,
         listVars
<1>19. ASSUME NEW c \in Clients, NEW m \in SUBSET {"R", "W"}, Watch(c, m)
      PROVE  ThreadsOK'
  BY <1>19, <1>i
     DEF Watch, Goto, Leave, Threads, ThreadsOK, Places, TclAt, CtAt, sockVars, listVars
<1>20. ASSUME NEW c \in Clients, Input(c)
      PROVE  ThreadsOK'
  BY <1>20, <1>i
     DEF Input, Goto, Leave, Threads, ThreadsOK, Places, TclAt, CtAt, sockVars, listVars
<1>21. ASSUME NEW c \in Clients, Output(c)
      PROVE  ThreadsOK'
  BY <1>21, <1>i
     DEF Output, Goto, Leave, Threads, ThreadsOK, Places, TclAt, CtAt, sockVars, listVars
<1>22. ASSUME NEW s \in Sockets, Close(s)
      PROVE  ThreadsOK'
  BY <1>22, <1>i
     DEF Close, Goto, Leave, Threads, ThreadsOK, Places, TclAt, CtAt, sockVars, listVars
<1>23. ASSUME NEW c \in Clients, Received(c)
      PROVE  ThreadsOK'
  BY <1>23, <1>i
     DEF Received, Goto, Leave, Threads, ThreadsOK, Places, TclAt, CtAt, sockVars,
         listVars
<1>24. ASSUME NEW c \in Clients, Connected(c)
      PROVE  ThreadsOK'
  BY <1>24, <1>i
     DEF Connected, Goto, Leave, Threads, ThreadsOK, Places, TclAt, CtAt, sockVars,
         listVars
<1>25. ASSUME NEW c \in Clients, Sent(c)
      PROVE  ThreadsOK'
  BY <1>25, <1>i
     DEF Sent, Goto, Leave, Threads, ThreadsOK, Places, TclAt, CtAt, sockVars, listVars
<1>26. ASSUME NEW l \in Listeners, Accepted(l)
      PROVE  ThreadsOK'
  BY <1>26, <1>i
     DEF Accepted, Goto, Leave, Threads, ThreadsOK, Places, TclAt, CtAt, sockVars,
         listVars
<1>27. ASSUME NEW s \in Sockets, Free(s)
      PROVE  ThreadsOK'
  BY <1>27, <1>i
     DEF Free, Goto, Leave, Threads, ThreadsOK, Places, TclAt, CtAt, sockVars, listVars
<1>28. ASSUME ReceivedTest
      PROVE  ThreadsOK'
  BY <1>28, <1>i
     DEF ReceivedTest, Goto, Leave, Threads, ThreadsOK, Places, TclAt, CtAt, sockVars,
         listVars
<1>29. ASSUME SentTest
      PROVE  ThreadsOK'
  BY <1>29, <1>i
     DEF SentTest, Goto, Leave, Threads, ThreadsOK, Places, TclAt, CtAt, sockVars,
         listVars
<1>30. ASSUME FreeUnlink
      PROVE  ThreadsOK'
  BY <1>30, <1>i
     DEF FreeUnlink, Goto, Leave, Threads, ThreadsOK, Places, TclAt, CtAt, sockVars,
         listVars
<1>31. ASSUME NEW b \in BOOLEAN, Wake(b)
      PROVE  ThreadsOK'
  BY <1>31, <1>i
     DEF Wake, Goto, Leave, Threads, ThreadsOK, Places, TclAt, CtAt, sockVars, listVars
<1>32. ASSUME NEW c \in Clients, OutputUndo(c)
      PROVE  ThreadsOK'
  BY <1>32, <1>i
     DEF OutputUndo, Goto, Leave, Threads, ThreadsOK, Places, TclAt, CtAt, sockVars,
         listVars
<1>33. ASSUME NEW c \in Clients, OutputWatch(c)
      PROVE  ThreadsOK'
  BY <1>33, <1>i
     DEF OutputWatch, Goto, Leave, Threads, ThreadsOK, Places, TclAt, CtAt, sockVars,
         listVars
<1> QED
  BY <1>1, <1>2, <1>3, <1>4, <1>5, <1>6, <1>7, <1>8, <1>9, <1>10, <1>11, <1>12, <1>13,
     <1>14, <1>15, <1>16, <1>17, <1>18, <1>19, <1>20, <1>21, <1>22, <1>23, <1>24, <1>25,
     <1>26, <1>27, <1>28, <1>29, <1>30, <1>31, <1>32, <1>33
     DEF TclLoop, TclStep, TclCall, CtTake, CtStep, Threads

LEMMA SocketsStay ==
  ASSUME TypeOK, Places, SendCounted, Running /\ (TclLoop \/ TclStep \/ TclCall \/ CtTake \/ CtStep)
  PROVE  SocketsOK'
<1>i. /\ ThreadsOK /\ SocketsOK /\ Places /\ SendCounted
      /\ Clients \subseteq Sockets /\ Listeners \subseteq Sockets
  BY TypeParts DEF Sockets, ThreadsOK
<1>1. ASSUME NEW t \in Threads, ZapMark(t)
      PROVE  SocketsOK'
  BY <1>1, <1>i
     DEF ZapMark, Leave, Goto, Threads, SocketsOK, Places, CtFree, HasList, sockVars
<1>2. ASSUME NEW t \in Threads, ZapPush(t)
      PROVE  SocketsOK'
  BY <1>2, <1>i
     DEF ZapPush, Leave, Goto, Threads, SocketsOK, Places, CtFree, HasList, sockVars
<1>3. ASSUME NEW t \in Threads, ZapAlert(t)
      PROVE  SocketsOK'
  BY <1>3, <1>i
     DEF ZapAlert, Leave, Goto, Threads, SocketsOK, Places, CtFree, HasList, sockVars
<1>4. ASSUME EventSetup
      PROVE  SocketsOK'
  BY <1>4, <1>i
     DEF EventSetup, Leave, Goto, Threads, SocketsOK, Places, CtFree, HasList, sockVars
<1>5. ASSUME CheckBegin
      PROVE  SocketsOK'
  BY <1>5, <1>i
     DEF CheckBegin, Leave, Goto, Threads, SocketsOK, Places, CtFree, HasList, sockVars
<1>6. ASSUME CheckPop
      PROVE  SocketsOK'
  BY <1>6, <1>i
     DEF CheckPop, Leave, Goto, Threads, SocketsOK, Places, CtFree, HasList, sockVars
<1>7. ASSUME CheckChannel
      PROVE  SocketsOK'
  BY <1>7, <1>i
     DEF CheckChannel, Leave, Goto, Threads, SocketsOK, Places, CtFree, HasList, sockVars
<1>8. ASSUME CheckEnd
      PROVE  SocketsOK'
  BY <1>8, <1>i
     DEF CheckEnd, Leave, Goto, Threads, SocketsOK, Places, CtFree, HasList, sockVars
<1>9. ASSUME NEW c \in Clients, ServiceClient(c)
      PROVE  SocketsOK'
  BY <1>9, <1>i DEF ServiceClient, SocketsOK, sockVars
<1>10. ASSUME NEW c \in Clients, ClientReturn(c)
      PROVE  SocketsOK'
  <2>1. UNCHANGED <<st, conn, recvs, sends, cap, accepts>>
        /\ (mask' = mask \/ \E m \in SUBSET {"R", "W"} : mask' = [mask EXCEPT ![c] = m])
    BY <1>10 DEF ClientReturn
  <2>2. ASSUME NEW m \in SUBSET {"R", "W"}, mask' = [mask EXCEPT ![c] = m]
        PROVE  mask' \in [Sockets -> SUBSET {"R", "W"}]
    BY <2>2, <1>i DEF SocketsOK
  <2>3. mask' \in [Sockets -> SUBSET {"R", "W"}]
    BY <2>1, <2>2, <1>i DEF SocketsOK
  <2> QED BY <2>1, <2>3, <1>i DEF SocketsOK
<1>11. ASSUME NEW l \in Listeners, ServiceListener(l)
      PROVE  SocketsOK'
  <2>1. UNCHANGED <<st, conn, mask, recvs, sends, cap>>
    BY <1>11 DEF ServiceListener
  <2>2. accepts' = accepts \/ (accepts[l] > 0 /\ accepts' = [accepts EXCEPT ![l] = @ - 1])
    BY <1>11 DEF ServiceListener
  <2>3. accepts' \in [Sockets -> Nat]
    BY <2>2, <1>i DEF SocketsOK
  <2> QED BY <2>1, <2>3, <1>i DEF SocketsOK
<1>12. ASSUME NEW l \in Listeners, ListenerReturn(l)
      PROVE  SocketsOK'
  BY <1>12, <1>i
     DEF ListenerReturn, Leave, Goto, Threads, SocketsOK, Places, CtFree, HasList,
         sockVars
<1>13. ASSUME Requeue
      PROVE  SocketsOK'
  BY <1>13, <1>i
     DEF Requeue, Leave, Goto, Threads, SocketsOK, Places, CtFree, HasList, sockVars
<1>14. ASSUME WatchTest
      PROVE  SocketsOK'
  BY <1>14, <1>i
     DEF WatchTest, Leave, Goto, Threads, SocketsOK, Places, CtFree, HasList, sockVars
<1>15. ASSUME NEW c \in Clients, OutputTest(c)
      PROVE  SocketsOK'
  BY <1>15, <1>i
     DEF OutputTest, Leave, Goto, Threads, SocketsOK, Places, CtFree, HasList, sockVars
<1>16. ASSUME CloseFlag
      PROVE  SocketsOK'
  BY <1>16, <1>i
     DEF CloseFlag, Leave, Goto, Threads, SocketsOK, Places, CtFree, HasList, sockVars
<1>17. ASSUME ClosePop
      PROVE  SocketsOK'
  BY <1>17, <1>i
     DEF ClosePop, Leave, Goto, Threads, SocketsOK, Places, CtFree, HasList, sockVars
<1>18. ASSUME CloseEvents
      PROVE  SocketsOK'
  BY <1>18, <1>i
     DEF CloseEvents, Leave, Goto, Threads, SocketsOK, Places, CtFree, HasList, sockVars
<1>19. ASSUME NEW c \in Clients, NEW m \in SUBSET {"R", "W"}, Watch(c, m)
      PROVE  SocketsOK'
  BY <1>19, <1>i
     DEF Watch, Leave, Goto, Threads, SocketsOK, Places, CtFree, HasList, sockVars
<1>20. ASSUME NEW c \in Clients, Input(c)
      PROVE  SocketsOK'
  BY <1>20, <1>i
     DEF Input, Leave, Goto, Threads, SocketsOK, Places, CtFree, HasList, sockVars
<1>21. ASSUME NEW c \in Clients, Output(c)
      PROVE  SocketsOK'
  BY <1>21, <1>i
     DEF Output, Leave, Goto, Threads, SocketsOK, Places, CtFree, HasList, sockVars
<1>22. ASSUME NEW s \in Sockets, Close(s)
      PROVE  SocketsOK'
  BY <1>22, <1>i
     DEF Close, Leave, Goto, Threads, SocketsOK, Places, CtFree, HasList, sockVars
<1>23. ASSUME NEW c \in Clients, Received(c)
      PROVE  SocketsOK'
  BY <1>23, <1>i
     DEF Received, Leave, Goto, Threads, SocketsOK, Places, CtFree, HasList, sockVars
<1>24. ASSUME NEW c \in Clients, Connected(c)
      PROVE  SocketsOK'
  BY <1>24, <1>i
     DEF Connected, Leave, Goto, Threads, SocketsOK, Places, CtFree, HasList, sockVars
<1>25. ASSUME NEW c \in Clients, Sent(c)
      PROVE  SocketsOK'
  BY <1>25, <1>i
     DEF Sent, Leave, Goto, Threads, SocketsOK, Places, CtFree, HasList, sockVars
<1>26. ASSUME NEW l \in Listeners, Accepted(l)
      PROVE  SocketsOK'
  BY <1>26, <1>i
     DEF Accepted, Leave, Goto, Threads, SocketsOK, Places, CtFree, HasList, sockVars
<1>27. ASSUME NEW s \in Sockets, Free(s)
      PROVE  SocketsOK'
  BY <1>27, <1>i
     DEF Free, Leave, Goto, Threads, SocketsOK, Places, CtFree, HasList, sockVars
<1>28. ASSUME ReceivedTest
      PROVE  SocketsOK'
  BY <1>28, <1>i
     DEF ReceivedTest, Leave, Goto, Threads, SocketsOK, Places, CtFree, HasList, sockVars
<1>29. ASSUME SentTest
      PROVE  SocketsOK'
  BY <1>29, <1>i
     DEF SentTest, Leave, Goto, Threads, SocketsOK, Places, CtFree, HasList, sockVars
<1>30. ASSUME FreeUnlink
      PROVE  SocketsOK'
  BY <1>30, <1>i
     DEF FreeUnlink, Leave, Goto, Threads, SocketsOK, Places, CtFree, HasList, sockVars
<1>31. ASSUME NEW b \in BOOLEAN, Wake(b)
      PROVE  SocketsOK'
  BY <1>31, <1>i
     DEF Wake, Leave, Goto, Threads, SocketsOK, Places, CtFree, HasList, sockVars
<1>32. ASSUME NEW c \in Clients, OutputUndo(c)
      PROVE  SocketsOK'
  <2>1. sends[c] - 1 \in Nat
    BY <1>32, <1>i DEF OutputUndo, SendCounted, SocketsOK
  <2> QED BY <1>32, <2>1, <1>i DEF OutputUndo, SocketsOK
<1>33. ASSUME NEW c \in Clients, OutputWatch(c)
      PROVE  SocketsOK'
  BY <1>33, <1>i
     DEF OutputWatch, Leave, Goto, Threads, SocketsOK, Places, CtFree, HasList, sockVars
<1> QED
  BY <1>1, <1>2, <1>3, <1>4, <1>5, <1>6, <1>7, <1>8, <1>9, <1>10, <1>11, <1>12, <1>13,
     <1>14, <1>15, <1>16, <1>17, <1>18, <1>19, <1>20, <1>21, <1>22, <1>23, <1>24, <1>25,
     <1>26, <1>27, <1>28, <1>29, <1>30, <1>31, <1>32, <1>33
     DEF TclLoop, TclStep, TclCall, CtTake, CtStep, Threads

LEMMA ListsStay ==
  ASSUME TypeOK, Places, Running /\ (TclLoop \/ TclStep \/ TclCall \/ CtTake \/ CtStep)
  PROVE  ListsOK'
<1>i. /\ ThreadsOK /\ ListsOK /\ Places
      /\ Clients \subseteq Sockets /\ Listeners \subseteq Sockets
  BY TypeParts DEF Sockets
<1>1. ASSUME NEW t \in Threads, ZapMark(t)
      PROVE  ListsOK'
  BY <1>1, <1>i, Appended, Tailed, Removed, PushTyped, PopTyped
     DEF ZapMark, Leave, Goto, Threads, ListsOK, Places, Breaks, ListTyped, readySockets, listVars
<1>2. ASSUME NEW t \in Threads, ZapPush(t)
      PROVE  ListsOK'
  <2>1. /\ sock[t] \in Sockets /\ PushBack(sock[t])
        /\ UNCHANGED <<marked, evq, alert, running, count, broken>>
    BY <1>2, <1>i DEF ZapPush, Places, Threads
  <2> QED BY <2>1, <1>i, PushTyped DEF ListsOK
<1>3. ASSUME NEW t \in Threads, ZapAlert(t)
      PROVE  ListsOK'
  BY <1>3, <1>i, Appended, Tailed, Removed, PushTyped, PopTyped
     DEF ZapAlert, Leave, Goto, Threads, ListsOK, Places, Breaks, ListTyped, readySockets, listVars
<1>4. ASSUME EventSetup
      PROVE  ListsOK'
  BY <1>4, <1>i, Appended, Tailed, Removed, PushTyped, PopTyped
     DEF EventSetup, Leave, Goto, Threads, ListsOK, Places, Breaks, ListTyped, readySockets, listVars
<1>5. ASSUME CheckBegin
      PROVE  ListsOK'
  BY <1>5, <1>i, Appended, Tailed, Removed, PushTyped, PopTyped
     DEF CheckBegin, Leave, Goto, Threads, ListsOK, Places, Breaks, ListTyped, readySockets, listVars
<1>6. ASSUME CheckPop
      PROVE  ListsOK'
  <2>1. UNCHANGED <<evq, alert, running>> /\ count' = count - 1 /\ count > 0
    BY <1>6 DEF CheckPop
  <2>2. CASE front # None
    <3>1. Pop(front) /\ marked' = [marked EXCEPT ![front] = FALSE]
          /\ broken' \in {"stale", broken}
      BY <1>6, <2>2 DEF CheckPop
    <3>2. front \in Sockets /\ ListTyped
      BY <2>2, <1>i DEF ListsOK, ListTyped
    <3>3. ListTyped' /\ marked' \in [Sockets -> BOOLEAN]
      BY <3>1, <3>2, <1>i, PopTyped DEF ListsOK
    <3> QED BY <2>1, <3>1, <3>3, <1>i DEF ListsOK, Breaks
  <2>3. CASE front = None
    <3>1. UNCHANGED <<readySockets, marked>> /\ broken' \in {"emptyCheck", broken}
      BY <1>6, <2>3 DEF CheckPop, listVars
    <3> QED BY <2>1, <3>1, <1>i DEF ListsOK, ListTyped, readySockets, Breaks
  <2> QED BY <2>2, <2>3
<1>7. ASSUME CheckChannel
      PROVE  ListsOK'
  BY <1>7, <1>i, Appended, Tailed, Removed, PushTyped, PopTyped
     DEF CheckChannel, Leave, Goto, Threads, ListsOK, Places, Breaks, ListTyped, readySockets, listVars
<1>8. ASSUME CheckEnd
      PROVE  ListsOK'
  BY <1>8, <1>i, Appended, Tailed, Removed, PushTyped, PopTyped
     DEF CheckEnd, Leave, Goto, Threads, ListsOK, Places, Breaks, ListTyped, readySockets, listVars
<1>9. ASSUME NEW c \in Clients, ServiceClient(c)
      PROVE  ListsOK'
  BY <1>9, <1>i, Appended, Tailed, Removed, PushTyped, PopTyped
     DEF ServiceClient, Leave, Goto, Threads, ListsOK, Places, Breaks, ListTyped, readySockets, listVars
<1>10. ASSUME NEW c \in Clients, ClientReturn(c)
      PROVE  ListsOK'
  BY <1>10, <1>i, Appended, Tailed, Removed, PushTyped, PopTyped
     DEF ClientReturn, Leave, Goto, Threads, ListsOK, Places, Breaks, ListTyped, readySockets, listVars
<1>11. ASSUME NEW l \in Listeners, ServiceListener(l)
      PROVE  ListsOK'
  BY <1>11, <1>i, Appended, Tailed, Removed, PushTyped, PopTyped
     DEF ServiceListener, Leave, Goto, Threads, ListsOK, Places, Breaks, ListTyped, readySockets, listVars
<1>12. ASSUME NEW l \in Listeners, ListenerReturn(l)
      PROVE  ListsOK'
  BY <1>12, <1>i, Appended, Tailed, Removed, PushTyped, PopTyped
     DEF ListenerReturn, Leave, Goto, Threads, ListsOK, Places, Breaks, ListTyped, readySockets, listVars
<1>13. ASSUME Requeue
      PROVE  ListsOK'
  <2>1. UNCHANGED <<evq, alert, running, count>> /\ broken' \in {"stale", broken}
        /\ sock["tcl"] \in Sockets
    BY <1>13, <1>i DEF Requeue, Places
  <2>2. \/ UNCHANGED <<marked, readySockets>>
        \/ /\ marked' = [marked EXCEPT ![sock["tcl"]] = TRUE]
           /\ PushBack(sock["tcl"])
    BY <1>13 DEF Requeue, listVars
  <2>3. marked' \in [Sockets -> BOOLEAN] /\ ListTyped'
    <3>1. marked \in [Sockets -> BOOLEAN] /\ ListTyped
      BY <1>i DEF ListsOK
    <3>2. UNCHANGED readySockets => ListTyped'
      BY <3>1 DEF ListTyped, readySockets
    <3> QED BY <2>1, <2>2, <3>1, <3>2, PushTyped
  <2> QED BY <2>1, <2>3, <1>i DEF ListsOK, Breaks
<1>14. ASSUME WatchTest
      PROVE  ListsOK'
  BY <1>14, <1>i, Appended, Tailed, Removed, PushTyped, PopTyped
     DEF WatchTest, Leave, Goto, Threads, ListsOK, Places, Breaks, ListTyped, readySockets, listVars
<1>15. ASSUME NEW c \in Clients, OutputTest(c)
      PROVE  ListsOK'
  BY <1>15, <1>i, Appended, Tailed, Removed, PushTyped, PopTyped
     DEF OutputTest, Leave, Goto, Threads, ListsOK, Places, Breaks, ListTyped, readySockets, listVars
<1>16. ASSUME CloseFlag
      PROVE  ListsOK'
  BY <1>16, <1>i, Appended, Tailed, Removed, PushTyped, PopTyped
     DEF CloseFlag, Leave, Goto, Threads, ListsOK, Places, Breaks, ListTyped, readySockets, listVars
<1>17. ASSUME ClosePop
      PROVE  ListsOK'
  <2>1. /\ sock["tcl"] \in Sockets /\ (Pop(sock["tcl"]) \/ UNCHANGED readySockets)
        /\ UNCHANGED <<marked, evq, alert, running, count>> /\ broken' \in {"stale", broken}
    BY <1>17, <1>i DEF ClosePop, Places
  <2>2. ListTyped'
    BY <2>1, <1>i, PopTyped DEF ListsOK, ListTyped, readySockets
  <2> QED BY <2>1, <2>2, <1>i DEF ListsOK, Breaks
<1>18. ASSUME CloseEvents
      PROVE  ListsOK'
  BY <1>18, <1>i, Appended, Tailed, Removed, PushTyped, PopTyped
     DEF CloseEvents, Leave, Goto, Threads, ListsOK, Places, Breaks, ListTyped, readySockets, listVars
<1>19. ASSUME NEW c \in Clients, NEW m \in SUBSET {"R", "W"}, Watch(c, m)
      PROVE  ListsOK'
  BY <1>19, <1>i, Appended, Tailed, Removed, PushTyped, PopTyped
     DEF Watch, Leave, Goto, Threads, ListsOK, Places, Breaks, ListTyped, readySockets, listVars
<1>20. ASSUME NEW c \in Clients, Input(c)
      PROVE  ListsOK'
  BY <1>20, <1>i, Appended, Tailed, Removed, PushTyped, PopTyped
     DEF Input, Leave, Goto, Threads, ListsOK, Places, Breaks, ListTyped, readySockets, listVars
<1>21. ASSUME NEW c \in Clients, Output(c)
      PROVE  ListsOK'
  <2>1. count' \in Nat
    BY <1>21, TypeParts, <1>i DEF Output, SocketsOK
  <2> QED BY <1>21, <2>1, <1>i DEF Output, ListsOK, ListTyped, readySockets, listVars
<1>22. ASSUME NEW s \in Sockets, Close(s)
      PROVE  ListsOK'
  BY <1>22, <1>i, Appended, Tailed, Removed, PushTyped, PopTyped
     DEF Close, Leave, Goto, Threads, ListsOK, Places, Breaks, ListTyped, readySockets, listVars
<1>23. ASSUME NEW c \in Clients, Received(c)
      PROVE  ListsOK'
  BY <1>23, <1>i, Appended, Tailed, Removed, PushTyped, PopTyped
     DEF Received, Leave, Goto, Threads, ListsOK, Places, Breaks, ListTyped, readySockets, listVars
<1>24. ASSUME NEW c \in Clients, Connected(c)
      PROVE  ListsOK'
  BY <1>24, <1>i, Appended, Tailed, Removed, PushTyped, PopTyped
     DEF Connected, Leave, Goto, Threads, ListsOK, Places, Breaks, ListTyped, readySockets, listVars
<1>25. ASSUME NEW c \in Clients, Sent(c)
      PROVE  ListsOK'
  BY <1>25, <1>i, Appended, Tailed, Removed, PushTyped, PopTyped
     DEF Sent, Leave, Goto, Threads, ListsOK, Places, Breaks, ListTyped, readySockets, listVars
<1>26. ASSUME NEW l \in Listeners, Accepted(l)
      PROVE  ListsOK'
  BY <1>26, <1>i, Appended, Tailed, Removed, PushTyped, PopTyped
     DEF Accepted, Leave, Goto, Threads, ListsOK, Places, Breaks, ListTyped, readySockets, listVars
<1>27. ASSUME NEW s \in Sockets, Free(s)
      PROVE  ListsOK'
  BY <1>27, <1>i, Appended, Tailed, Removed, PushTyped, PopTyped
     DEF Free, Leave, Goto, Threads, ListsOK, Places, Breaks, ListTyped, readySockets, listVars
<1>28. ASSUME ReceivedTest
      PROVE  ListsOK'
  BY <1>28, <1>i, Appended, Tailed, Removed, PushTyped, PopTyped
     DEF ReceivedTest, Leave, Goto, Threads, ListsOK, Places, Breaks, ListTyped, readySockets, listVars
<1>29. ASSUME SentTest
      PROVE  ListsOK'
  BY <1>29, <1>i, Appended, Tailed, Removed, PushTyped, PopTyped
     DEF SentTest, Leave, Goto, Threads, ListsOK, Places, Breaks, ListTyped, readySockets, listVars
<1>30. ASSUME FreeUnlink
      PROVE  ListsOK'
  <2>1. /\ sock["ct"] \in Sockets /\ Pop(sock["ct"])
        /\ UNCHANGED <<marked, evq, alert, running, count>>
        /\ broken' \in {"stale", "emptyDrain", broken}
    BY <1>30, <1>i DEF FreeUnlink, Places
  <2> QED BY <2>1, <1>i, PopTyped DEF ListsOK, Breaks
<1>31. ASSUME NEW b \in BOOLEAN, Wake(b)
      PROVE  ListsOK'
  BY <1>31, <1>i, Appended, Tailed, Removed, PushTyped, PopTyped
     DEF Wake, Leave, Goto, Threads, ListsOK, Places, Breaks, ListTyped, readySockets, listVars
<1>32. ASSUME NEW c \in Clients, OutputUndo(c)
      PROVE  ListsOK'
  BY <1>32, <1>i, Appended, Tailed, Removed, PushTyped, PopTyped
     DEF OutputUndo, Leave, Goto, Threads, ListsOK, Places, Breaks, ListTyped, readySockets, listVars
<1>33. ASSUME NEW c \in Clients, OutputWatch(c)
      PROVE  ListsOK'
  BY <1>33, <1>i, Appended, Tailed, Removed, PushTyped, PopTyped
     DEF OutputWatch, Leave, Goto, Threads, ListsOK, Places, Breaks, ListTyped, readySockets, listVars
<1> QED
  BY <1>1, <1>2, <1>3, <1>4, <1>5, <1>6, <1>7, <1>8, <1>9, <1>10, <1>11, <1>12, <1>13,
     <1>14, <1>15, <1>16, <1>17, <1>18, <1>19, <1>20, <1>21, <1>22, <1>23, <1>24, <1>25,
     <1>26, <1>27, <1>28, <1>29, <1>30, <1>31, <1>32, <1>33
     DEF TclLoop, TclStep, TclCall, CtTake, CtStep, Threads

\* Where the threads can be.
\* A completion takes back a send that was posted, never the one being decided on.
LEMMA SendsStay ==
  ASSUME TypeOK, Places, SendCounted, Running /\ (TclLoop \/ TclStep \/ TclCall \/ CtTake \/ CtStep)
  PROVE  SendCounted'
<1>i. /\ ThreadsOK /\ SocketsOK /\ SendCounted /\ "tcl" \in Threads /\ "ct" \in Threads
      /\ Clients \subseteq Sockets /\ Listeners \subseteq Sockets
  BY TypeParts DEF Sockets, Threads
<1> USE DEF SendCounted
<1>1. ASSUME NEW t \in Threads, ZapMark(t)
      PROVE  SendCounted'
  BY <1>1, <1>i DEF ZapMark, Goto, Leave, Threads, ThreadsOK, SocketsOK, sockVars, TclFree, TclCalls
<1>2. ASSUME NEW t \in Threads, ZapPush(t)
      PROVE  SendCounted'
  BY <1>2, <1>i DEF ZapPush, Goto, Leave, Threads, ThreadsOK, SocketsOK, sockVars, TclFree, TclCalls
<1>3. ASSUME NEW t \in Threads, ZapAlert(t)
      PROVE  SendCounted'
  BY <1>3, <1>i DEF ZapAlert, Goto, Leave, Threads, ThreadsOK, SocketsOK, sockVars, TclFree, TclCalls
<1>4. ASSUME EventSetup
      PROVE  SendCounted'
  BY <1>4, <1>i DEF EventSetup, Goto, Leave, Threads, ThreadsOK, SocketsOK, sockVars, TclFree, TclCalls
<1>5. ASSUME CheckBegin
      PROVE  SendCounted'
  BY <1>5, <1>i DEF CheckBegin, Goto, Leave, Threads, ThreadsOK, SocketsOK, sockVars, TclFree, TclCalls
<1>6. ASSUME CheckPop
      PROVE  SendCounted'
  BY <1>6, <1>i DEF CheckPop, Goto, Leave, Threads, ThreadsOK, SocketsOK, sockVars, TclFree, TclCalls
<1>7. ASSUME CheckChannel
      PROVE  SendCounted'
  BY <1>7, <1>i DEF CheckChannel, Goto, Leave, Threads, ThreadsOK, SocketsOK, sockVars, TclFree, TclCalls
<1>8. ASSUME CheckEnd
      PROVE  SendCounted'
  BY <1>8, <1>i DEF CheckEnd, Goto, Leave, Threads, ThreadsOK, SocketsOK, sockVars, TclFree, TclCalls
<1>9. ASSUME NEW c \in Clients, ServiceClient(c)
      PROVE  SendCounted'
  BY <1>9, <1>i DEF ServiceClient, Goto, Leave, Threads, ThreadsOK, SocketsOK, sockVars, TclFree, TclCalls
<1>10. ASSUME NEW c \in Clients, ClientReturn(c)
      PROVE  SendCounted'
  BY <1>10, <1>i DEF ClientReturn, Goto, Leave, Threads, ThreadsOK, SocketsOK, sockVars, TclFree, TclCalls
<1>11. ASSUME NEW l \in Listeners, ServiceListener(l)
      PROVE  SendCounted'
  BY <1>11, <1>i DEF ServiceListener, Goto, Leave, Threads, ThreadsOK, SocketsOK, sockVars, TclFree, TclCalls
<1>12. ASSUME NEW l \in Listeners, ListenerReturn(l)
      PROVE  SendCounted'
  BY <1>12, <1>i DEF ListenerReturn, Goto, Leave, Threads, ThreadsOK, SocketsOK, sockVars, TclFree, TclCalls
<1>13. ASSUME Requeue
      PROVE  SendCounted'
  BY <1>13, <1>i DEF Requeue, Goto, Leave, Threads, ThreadsOK, SocketsOK, sockVars, TclFree, TclCalls
<1>14. ASSUME WatchTest
      PROVE  SendCounted'
  BY <1>14, <1>i DEF WatchTest, Goto, Leave, Threads, ThreadsOK, SocketsOK, sockVars, TclFree, TclCalls
<1>15. ASSUME NEW c \in Clients, OutputTest(c)
      PROVE  SendCounted'
  BY <1>15, <1>i DEF OutputTest, Goto, Leave, Threads, ThreadsOK, SocketsOK, sockVars, TclFree, TclCalls
<1>16. ASSUME CloseFlag
      PROVE  SendCounted'
  BY <1>16, <1>i DEF CloseFlag, Goto, Leave, Threads, ThreadsOK, SocketsOK, sockVars, TclFree, TclCalls
<1>17. ASSUME ClosePop
      PROVE  SendCounted'
  BY <1>17, <1>i DEF ClosePop, Goto, Leave, Threads, ThreadsOK, SocketsOK, sockVars, TclFree, TclCalls
<1>18. ASSUME CloseEvents
      PROVE  SendCounted'
  BY <1>18, <1>i DEF CloseEvents, Goto, Leave, Threads, ThreadsOK, SocketsOK, sockVars, TclFree, TclCalls
<1>19. ASSUME NEW c \in Clients, NEW m \in SUBSET {"R", "W"}, Watch(c, m)
      PROVE  SendCounted'
  BY <1>19, <1>i DEF Watch, Goto, Leave, Threads, ThreadsOK, SocketsOK, sockVars, TclFree, TclCalls
<1>20. ASSUME NEW c \in Clients, Input(c)
      PROVE  SendCounted'
  BY <1>20, <1>i DEF Input, Goto, Leave, Threads, ThreadsOK, SocketsOK, sockVars, TclFree, TclCalls
<1>21. ASSUME NEW c \in Clients, Output(c)
      PROVE  SendCounted'
  BY <1>21, <1>i DEF Output, Goto, Leave, Threads, ThreadsOK, SocketsOK, sockVars, TclFree, TclCalls
<1>22. ASSUME NEW s \in Sockets, Close(s)
      PROVE  SendCounted'
  BY <1>22, <1>i DEF Close, Goto, Leave, Threads, ThreadsOK, SocketsOK, sockVars, TclFree, TclCalls
<1>23. ASSUME NEW c \in Clients, Received(c)
      PROVE  SendCounted'
  BY <1>23, <1>i DEF Received, Goto, Leave, Threads, ThreadsOK, SocketsOK, sockVars, TclFree, TclCalls
<1>24. ASSUME NEW c \in Clients, Connected(c)
      PROVE  SendCounted'
  BY <1>24, <1>i DEF Connected, Goto, Leave, Threads, ThreadsOK, SocketsOK, sockVars, TclFree, TclCalls
<1>25. ASSUME NEW c \in Clients, Sent(c)
      PROVE  SendCounted'
  BY <1>25, <1>i DEF Sent, Goto, Leave, Threads, ThreadsOK, SocketsOK, sockVars, TclFree, TclCalls
<1>26. ASSUME NEW l \in Listeners, Accepted(l)
      PROVE  SendCounted'
  BY <1>26, <1>i DEF Accepted, Goto, Leave, Threads, ThreadsOK, SocketsOK, sockVars, TclFree, TclCalls
<1>27. ASSUME NEW s \in Sockets, Free(s)
      PROVE  SendCounted'
  BY <1>27, <1>i DEF Free, Goto, Leave, Threads, ThreadsOK, SocketsOK, sockVars, TclFree, TclCalls
<1>28. ASSUME ReceivedTest
      PROVE  SendCounted'
  BY <1>28, <1>i DEF ReceivedTest, Goto, Leave, Threads, ThreadsOK, SocketsOK, sockVars, TclFree, TclCalls
<1>29. ASSUME SentTest
      PROVE  SendCounted'
  BY <1>29, <1>i DEF SentTest, Goto, Leave, Threads, ThreadsOK, SocketsOK, sockVars, TclFree, TclCalls
<1>30. ASSUME FreeUnlink
      PROVE  SendCounted'
  BY <1>30, <1>i DEF FreeUnlink, Goto, Leave, Threads, ThreadsOK, SocketsOK, sockVars, TclFree, TclCalls
<1>31. ASSUME NEW b \in BOOLEAN, Wake(b)
      PROVE  SendCounted'
  BY <1>31, <1>i DEF Wake, Goto, Leave, Threads, ThreadsOK, SocketsOK, sockVars, TclFree, TclCalls
<1>32. ASSUME NEW c \in Clients, OutputUndo(c)
      PROVE  SendCounted'
  BY <1>32, <1>i DEF OutputUndo, Goto, Leave, Threads, ThreadsOK, SocketsOK, sockVars, TclFree, TclCalls
<1>33. ASSUME NEW c \in Clients, OutputWatch(c)
      PROVE  SendCounted'
  BY <1>33, <1>i DEF OutputWatch, Goto, Leave, Threads, ThreadsOK, SocketsOK, sockVars, TclFree, TclCalls
<1> QED
  BY <1>1, <1>2, <1>3, <1>4, <1>5, <1>6, <1>7, <1>8, <1>9, <1>10, <1>11, <1>12, <1>13,
     <1>14, <1>15, <1>16, <1>17, <1>18, <1>19, <1>20, <1>21, <1>22, <1>23, <1>24, <1>25,
     <1>26, <1>27, <1>28, <1>29, <1>30, <1>31, <1>32, <1>33
     DEF TclLoop, TclStep, TclCall, CtTake, CtStep, Threads

LEMMA PlacesStay ==
  ASSUME TypeOK, Places, Running /\ (TclLoop \/ TclStep \/ TclCall \/ CtTake \/ CtStep)
  PROVE  Places'
<1>i. /\ ThreadsOK /\ Places /\ Clients \subseteq Sockets /\ Listeners \subseteq Sockets
      /\ st \in [Sockets -> {"open", "closing", "closed", "freed"}]
  BY TypeParts DEF Sockets, SocketsOK
<1>1. ASSUME NEW t \in Threads, ZapMark(t)
      PROVE  Places'
  BY <1>1, <1>i
     DEF ZapMark, Goto, Leave, LockFree, TclCalls, CtFree, Threads, ThreadsOK, Places,
         At, sockVars
<1>2. ASSUME NEW t \in Threads, ZapPush(t)
      PROVE  Places'
  BY <1>2, <1>i
     DEF ZapPush, Goto, Leave, LockFree, TclCalls, CtFree, Threads, ThreadsOK, Places,
         At, sockVars
<1>3. ASSUME NEW t \in Threads, ZapAlert(t)
      PROVE  Places'
  BY <1>3, <1>i
     DEF ZapAlert, Goto, Leave, LockFree, TclCalls, CtFree, Threads, ThreadsOK, Places,
         At, sockVars
<1>4. ASSUME EventSetup
      PROVE  Places'
  <2>1. st' = st /\ pc["tcl"] = "idle" /\ \E p \in {"checkBegin", "wait"} : Goto("tcl", p, None)
    BY <1>4 DEF EventSetup, TclFree, sockVars
  <2> QED BY <2>1, <1>i DEF Goto, Threads, ThreadsOK, Places, At
<1>5. ASSUME CheckBegin
      PROVE  Places'
  BY <1>5, <1>i
     DEF CheckBegin, Goto, Leave, LockFree, TclCalls, CtFree, Threads, ThreadsOK, Places,
         At, sockVars
<1>6. ASSUME CheckPop
      PROVE  Places'
  <2>1. front # None => front \in Sockets
    BY TypeParts DEF ListsOK, ListTyped
  <2>2. /\ st' = st
        /\ UNCHANGED <<pc, sock>> \/ (Goto("tcl", "checkChan", front) /\ front # None)
    BY <1>6 DEF CheckPop, sockVars
  <2>3. pc["tcl"] = "check"
    BY <1>6 DEF CheckPop
  <2> QED BY <2>1, <2>2, <2>3, <1>i DEF Goto, Threads, ThreadsOK, Places, At
<1>7. ASSUME CheckChannel
      PROVE  Places'
  BY <1>7, <1>i
     DEF CheckChannel, Goto, Leave, LockFree, TclCalls, CtFree, Threads, ThreadsOK,
         Places, At, sockVars
<1>8. ASSUME CheckEnd
      PROVE  Places'
  BY <1>8, <1>i
     DEF CheckEnd, Goto, Leave, LockFree, TclCalls, CtFree, Threads, ThreadsOK, Places,
         At, sockVars
<1>9. ASSUME NEW c \in Clients, ServiceClient(c)
      PROVE  Places'
  BY <1>9, <1>i
     DEF ServiceClient, Goto, Leave, LockFree, TclCalls, CtFree, Threads, ThreadsOK,
         Places, At, sockVars
<1>10. ASSUME NEW c \in Clients, ClientReturn(c)
      PROVE  Places'
  BY <1>10, <1>i
     DEF ClientReturn, Goto, Leave, LockFree, TclCalls, CtFree, Threads, ThreadsOK,
         Places, At, sockVars
<1>11. ASSUME NEW l \in Listeners, ServiceListener(l)
      PROVE  Places'
  BY <1>11, <1>i
     DEF ServiceListener, Goto, Leave, LockFree, TclCalls, CtFree, Threads, ThreadsOK,
         Places, At, sockVars
<1>12. ASSUME NEW l \in Listeners, ListenerReturn(l)
      PROVE  Places'
  BY <1>12, <1>i
     DEF ListenerReturn, Goto, Leave, LockFree, TclCalls, CtFree, Threads, ThreadsOK,
         Places, At, sockVars
<1>13. ASSUME Requeue
      PROVE  Places'
  BY <1>13, <1>i
     DEF Requeue, Goto, Leave, LockFree, TclCalls, CtFree, Threads, ThreadsOK, Places,
         At, sockVars
<1>14. ASSUME WatchTest
      PROVE  Places'
  BY <1>14, <1>i
     DEF WatchTest, Goto, Leave, LockFree, TclCalls, CtFree, Threads, ThreadsOK, Places,
         At, sockVars
<1>15. ASSUME NEW c \in Clients, OutputTest(c)
      PROVE  Places'
  BY <1>15, <1>i
     DEF OutputTest, Goto, Leave, LockFree, TclCalls, CtFree, Threads, ThreadsOK, Places,
         At, sockVars
<1>16. ASSUME CloseFlag
      PROVE  Places'
  BY <1>16, <1>i
     DEF CloseFlag, Goto, Leave, LockFree, TclCalls, CtFree, Threads, ThreadsOK, Places,
         At, sockVars
<1>17. ASSUME ClosePop
      PROVE  Places'
  BY <1>17, <1>i
     DEF ClosePop, Goto, Leave, LockFree, TclCalls, CtFree, Threads, ThreadsOK, Places,
         At, sockVars
<1>18. ASSUME CloseEvents
      PROVE  Places'
  BY <1>18, <1>i
     DEF CloseEvents, Goto, Leave, LockFree, TclCalls, CtFree, Threads, ThreadsOK,
         Places, At, sockVars
<1>19. ASSUME NEW c \in Clients, NEW m \in SUBSET {"R", "W"}, Watch(c, m)
      PROVE  Places'
  BY <1>19, <1>i
     DEF Watch, Goto, Leave, LockFree, TclCalls, CtFree, Threads, ThreadsOK, Places, At,
         sockVars
<1>20. ASSUME NEW c \in Clients, Input(c)
      PROVE  Places'
  BY <1>20, <1>i
     DEF Input, Goto, Leave, LockFree, TclCalls, CtFree, Threads, ThreadsOK, Places, At,
         sockVars
<1>21. ASSUME NEW c \in Clients, Output(c)
      PROVE  Places'
  BY <1>21, <1>i
     DEF Output, Goto, Leave, LockFree, TclCalls, CtFree, Threads, ThreadsOK, Places, At,
         sockVars
<1>22. ASSUME NEW s \in Sockets, Close(s)
      PROVE  Places'
  BY <1>22, <1>i
     DEF Close, Goto, Leave, LockFree, TclCalls, CtFree, Threads, ThreadsOK, Places, At,
         sockVars
<1>23. ASSUME NEW c \in Clients, Received(c)
      PROVE  Places'
  BY <1>23, <1>i
     DEF Received, Goto, Leave, LockFree, TclCalls, CtFree, Threads, ThreadsOK, Places,
         At, sockVars
<1>24. ASSUME NEW c \in Clients, Connected(c)
      PROVE  Places'
  BY <1>24, <1>i
     DEF Connected, Goto, Leave, LockFree, TclCalls, CtFree, Threads, ThreadsOK, Places,
         At, sockVars
<1>25. ASSUME NEW c \in Clients, Sent(c)
      PROVE  Places'
  BY <1>25, <1>i
     DEF Sent, Goto, Leave, LockFree, TclCalls, CtFree, Threads, ThreadsOK, Places, At,
         sockVars
<1>26. ASSUME NEW l \in Listeners, Accepted(l)
      PROVE  Places'
  BY <1>26, <1>i
     DEF Accepted, Goto, Leave, LockFree, TclCalls, CtFree, Threads, ThreadsOK, Places,
         At, sockVars
<1>27. ASSUME NEW s \in Sockets, Free(s)
      PROVE  Places'
  BY <1>27, <1>i
     DEF Free, Goto, Leave, LockFree, TclCalls, CtFree, Threads, ThreadsOK, Places, At,
         sockVars
<1>28. ASSUME ReceivedTest
      PROVE  Places'
  BY <1>28, <1>i
     DEF ReceivedTest, Goto, Leave, LockFree, TclCalls, CtFree, Threads, ThreadsOK,
         Places, At, sockVars
<1>29. ASSUME SentTest
      PROVE  Places'
  BY <1>29, <1>i
     DEF SentTest, Goto, Leave, LockFree, TclCalls, CtFree, Threads, ThreadsOK, Places,
         At, sockVars
<1>30. ASSUME FreeUnlink
      PROVE  Places'
  BY <1>30, <1>i
     DEF FreeUnlink, Goto, Leave, LockFree, TclCalls, CtFree, Threads, ThreadsOK, Places,
         At, sockVars
<1>31. ASSUME NEW b \in BOOLEAN, Wake(b)
      PROVE  Places'
  BY <1>31, <1>i
     DEF Wake, Goto, Leave, LockFree, TclCalls, CtFree, Threads, ThreadsOK, Places, At,
         sockVars
<1>32. ASSUME NEW c \in Clients, OutputUndo(c)
      PROVE  Places'
  BY <1>32, <1>i
     DEF OutputUndo, Goto, Leave, LockFree, TclCalls, CtFree, Threads, ThreadsOK, Places,
         At, sockVars
<1>33. ASSUME NEW c \in Clients, OutputWatch(c)
      PROVE  Places'
  BY <1>33, <1>i
     DEF OutputWatch, Goto, Leave, LockFree, TclCalls, CtFree, Threads, ThreadsOK, Places,
         At, sockVars
<1> QED
  BY <1>1, <1>2, <1>3, <1>4, <1>5, <1>6, <1>7, <1>8, <1>9, <1>10, <1>11, <1>12, <1>13,
     <1>14, <1>15, <1>16, <1>17, <1>18, <1>19, <1>20, <1>21, <1>22, <1>23, <1>24, <1>25,
     <1>26, <1>27, <1>28, <1>29, <1>30, <1>31, <1>32, <1>33
     DEF TclLoop, TclStep, TclCall, CtTake, CtStep, Threads


\* The list and its marks.  Steps that do not touch them are told apart by what they
\* do to the two critical places, "push" and "closeFlag".
Pushing(t, s) == pc[t] = "push" /\ sock[t] = s
ListFrame ==
  /\ UNCHANGED <<marked, chains>>
  /\ \A t \in Threads : pc'[t] = "push" <=> pc[t] = "push"
  /\ \A t \in Threads : pc'[t] = "push" => sock'[t] = sock[t]
  /\ \A s \in Sockets : st'[s] = "open" =>
       /\ st[s] = "open"
       /\ At("tcl", {"closeFlag"}, s) => At("tcl", {"closeFlag"}, s)'

ListStep ==
  \/ \E t \in Threads : ZapMark(t) \/ ZapPush(t)
  \/ CheckPop \/ Requeue \/ ClosePop \/ FreeUnlink
  \/ \E s \in Sockets : Close(s)

LEMMA FrameKeeps ==
  ASSUME ListedOnce, MarkIsBacked, ListFrame
  PROVE  ListedOnce' /\ MarkIsBacked'
<1>1. MarkIsBacked <=> \A s \in Sockets : st[s] = "open" /\ marked[s] =>
        Linked(s) \/ (\E t \in Threads : Pushing(t, s)) \/ At("tcl", {"closeFlag"}, s)
  BY DEF MarkIsBacked, Stray, Listed, Linked, Pushing, At
<1>2. MarkIsBacked' <=> \A s \in Sockets : st'[s] = "open" /\ marked'[s] =>
        Linked(s)' \/ (\E t \in Threads : Pushing(t, s)') \/ At("tcl", {"closeFlag"}, s)'
  BY DEF MarkIsBacked, Stray, Listed, Linked, Pushing, At
<1>3. \A s : Linked(s)' <=> Linked(s)
  BY DEF ListFrame, Linked
<1>4. ListedOnce'
  BY <1>3 DEF ListedOnce, ListFrame
<1>5. MarkIsBacked'
  BY <1>1, <1>2, <1>3 DEF ListFrame, Pushing
<1> QED BY <1>4, <1>5

LEMMA ListFrames ==
  ASSUME TypeOK, Places, Running /\ (TclLoop \/ TclStep \/ TclCall \/ CtTake \/ CtStep)
  PROVE  ListFrame \/ ListStep
<1>i. /\ ThreadsOK /\ Places /\ Clients \subseteq Sockets /\ Listeners \subseteq Sockets
      /\ st \in [Sockets -> {"open", "closing", "closed", "freed"}]
  BY TypeParts DEF Sockets, SocketsOK
<1>1. ASSUME NEW t \in Threads, ZapMark(t)
      PROVE  ListFrame \/ ListStep
  BY <1>1 DEF ListStep
<1>2. ASSUME NEW t \in Threads, ZapPush(t)
      PROVE  ListFrame \/ ListStep
  BY <1>2 DEF ListStep
<1>3. ASSUME NEW t \in Threads, ZapAlert(t)
      PROVE  ListFrame \/ ListStep
  BY <1>3, <1>i
     DEF ZapAlert, ListFrame, Goto, Leave, TclFree, TclCalls, CtFree, Threads, ThreadsOK,
         Places, At, sockVars, listVars, readySockets
<1>4. ASSUME EventSetup
      PROVE  ListFrame \/ ListStep
  BY <1>4, <1>i
     DEF EventSetup, ListFrame, Goto, Leave, TclFree, TclCalls, CtFree, Threads,
         ThreadsOK, Places, At, sockVars, listVars, readySockets
<1>5. ASSUME CheckBegin
      PROVE  ListFrame \/ ListStep
  BY <1>5, <1>i
     DEF CheckBegin, ListFrame, Goto, Leave, TclFree, TclCalls, CtFree, Threads,
         ThreadsOK, Places, At, sockVars, listVars, readySockets
<1>6. ASSUME CheckPop
      PROVE  ListFrame \/ ListStep
  BY <1>6 DEF ListStep
<1>7. ASSUME CheckChannel
      PROVE  ListFrame \/ ListStep
  BY <1>7, <1>i
     DEF CheckChannel, ListFrame, Goto, Leave, TclFree, TclCalls, CtFree, Threads,
         ThreadsOK, Places, At, sockVars, listVars, readySockets
<1>8. ASSUME CheckEnd
      PROVE  ListFrame \/ ListStep
  BY <1>8, <1>i
     DEF CheckEnd, ListFrame, Goto, Leave, TclFree, TclCalls, CtFree, Threads, ThreadsOK,
         Places, At, sockVars, listVars, readySockets
<1>9. ASSUME NEW c \in Clients, ServiceClient(c)
      PROVE  ListFrame \/ ListStep
  BY <1>9, <1>i
     DEF ServiceClient, ListFrame, Goto, Leave, TclFree, TclCalls, CtFree, Threads,
         ThreadsOK, Places, At, sockVars, listVars, readySockets
<1>10. ASSUME NEW c \in Clients, ClientReturn(c)
      PROVE  ListFrame \/ ListStep
  BY <1>10, <1>i
     DEF ClientReturn, ListFrame, Goto, Leave, TclFree, TclCalls, CtFree, Threads,
         ThreadsOK, Places, At, sockVars, listVars, readySockets
<1>11. ASSUME NEW l \in Listeners, ServiceListener(l)
      PROVE  ListFrame \/ ListStep
  BY <1>11, <1>i
     DEF ServiceListener, ListFrame, Goto, Leave, TclFree, TclCalls, CtFree, Threads,
         ThreadsOK, Places, At, sockVars, listVars, readySockets
<1>12. ASSUME NEW l \in Listeners, ListenerReturn(l)
      PROVE  ListFrame \/ ListStep
  BY <1>12, <1>i
     DEF ListenerReturn, ListFrame, Goto, Leave, TclFree, TclCalls, CtFree, Threads,
         ThreadsOK, Places, At, sockVars, listVars, readySockets
<1>13. ASSUME Requeue
      PROVE  ListFrame \/ ListStep
  BY <1>13 DEF ListStep
<1>14. ASSUME WatchTest
      PROVE  ListFrame \/ ListStep
  BY <1>14, <1>i
     DEF WatchTest, ListFrame, Goto, Leave, TclFree, TclCalls, CtFree, Threads,
         ThreadsOK, Places, At, sockVars, listVars, readySockets
<1>15. ASSUME NEW c \in Clients, OutputTest(c)
      PROVE  ListFrame \/ ListStep
  BY <1>15, <1>i
     DEF OutputTest, ListFrame, Goto, Leave, TclFree, TclCalls, CtFree, Threads,
         ThreadsOK, Places, At, sockVars, listVars, readySockets
<1>16. ASSUME CloseFlag
      PROVE  ListFrame \/ ListStep
  BY <1>16, <1>i
     DEF CloseFlag, ListFrame, Goto, Leave, TclFree, TclCalls, CtFree, Threads,
         ThreadsOK, Places, At, sockVars, listVars, readySockets
<1>17. ASSUME ClosePop
      PROVE  ListFrame \/ ListStep
  BY <1>17 DEF ListStep
<1>18. ASSUME CloseEvents
      PROVE  ListFrame \/ ListStep
  BY <1>18, <1>i
     DEF CloseEvents, ListFrame, Goto, Leave, TclFree, TclCalls, CtFree, Threads,
         ThreadsOK, Places, At, sockVars, listVars, readySockets
<1>19. ASSUME NEW c \in Clients, NEW m \in SUBSET {"R", "W"}, Watch(c, m)
      PROVE  ListFrame \/ ListStep
  BY <1>19, <1>i
     DEF Watch, ListFrame, Goto, Leave, TclFree, TclCalls, CtFree, Threads, ThreadsOK,
         Places, At, sockVars, listVars, readySockets
<1>20. ASSUME NEW c \in Clients, Input(c)
      PROVE  ListFrame \/ ListStep
  BY <1>20, <1>i
     DEF Input, ListFrame, Goto, Leave, TclFree, TclCalls, CtFree, Threads, ThreadsOK,
         Places, At, sockVars, listVars, readySockets
<1>21. ASSUME NEW c \in Clients, Output(c)
      PROVE  ListFrame \/ ListStep
  BY <1>21, <1>i
     DEF Output, ListFrame, Goto, Leave, TclFree, TclCalls, CtFree, Threads, ThreadsOK,
         Places, At, sockVars, listVars, readySockets
<1>22. ASSUME NEW s \in Sockets, Close(s)
      PROVE  ListFrame \/ ListStep
  BY <1>22 DEF ListStep
<1>23. ASSUME NEW c \in Clients, Received(c)
      PROVE  ListFrame \/ ListStep
  BY <1>23, <1>i
     DEF Received, ListFrame, Goto, Leave, TclFree, TclCalls, CtFree, Threads, ThreadsOK,
         Places, At, sockVars, listVars, readySockets
<1>24. ASSUME NEW c \in Clients, Connected(c)
      PROVE  ListFrame \/ ListStep
  BY <1>24, <1>i
     DEF Connected, ListFrame, Goto, Leave, TclFree, TclCalls, CtFree, Threads,
         ThreadsOK, Places, At, sockVars, listVars, readySockets
<1>25. ASSUME NEW c \in Clients, Sent(c)
      PROVE  ListFrame \/ ListStep
  BY <1>25, <1>i
     DEF Sent, ListFrame, Goto, Leave, TclFree, TclCalls, CtFree, Threads, ThreadsOK,
         Places, At, sockVars, listVars, readySockets
<1>26. ASSUME NEW l \in Listeners, Accepted(l)
      PROVE  ListFrame \/ ListStep
  BY <1>26, <1>i
     DEF Accepted, ListFrame, Goto, Leave, TclFree, TclCalls, CtFree, Threads, ThreadsOK,
         Places, At, sockVars, listVars, readySockets
<1>27. ASSUME NEW s \in Sockets, Free(s)
      PROVE  ListFrame \/ ListStep
  BY <1>27, <1>i
     DEF Free, ListFrame, Goto, Leave, TclFree, TclCalls, CtFree, Threads, ThreadsOK,
         Places, At, sockVars, listVars, readySockets
<1>28. ASSUME ReceivedTest
      PROVE  ListFrame \/ ListStep
  BY <1>28, <1>i
     DEF ReceivedTest, ListFrame, Goto, Leave, TclFree, TclCalls, CtFree, Threads,
         ThreadsOK, Places, At, sockVars, listVars, readySockets
<1>29. ASSUME SentTest
      PROVE  ListFrame \/ ListStep
  BY <1>29, <1>i
     DEF SentTest, ListFrame, Goto, Leave, TclFree, TclCalls, CtFree, Threads, ThreadsOK,
         Places, At, sockVars, listVars, readySockets
<1>30. ASSUME FreeUnlink
      PROVE  ListFrame \/ ListStep
  BY <1>30 DEF ListStep
<1>31. ASSUME NEW b \in BOOLEAN, Wake(b)
      PROVE  ListFrame \/ ListStep
  BY <1>31, <1>i
     DEF Wake, ListFrame, Goto, Leave, TclFree, TclCalls, CtFree, Threads, ThreadsOK,
         Places, At, sockVars, listVars, readySockets
<1>32. ASSUME NEW c \in Clients, OutputUndo(c)
      PROVE  ListFrame \/ ListStep
  BY <1>32, <1>i
     DEF OutputUndo, ListFrame, Goto, Leave, TclFree, TclCalls, CtFree, Threads,
         ThreadsOK, Places, At, sockVars, listVars, readySockets
<1>33. ASSUME NEW c \in Clients, OutputWatch(c)
      PROVE  ListFrame \/ ListStep
  BY <1>33, <1>i
     DEF OutputWatch, ListFrame, Goto, Leave, TclFree, TclCalls, CtFree, Threads,
         ThreadsOK, Places, At, sockVars, listVars, readySockets
<1> QED
  BY <1>1, <1>2, <1>3, <1>4, <1>5, <1>6, <1>7, <1>8, <1>9, <1>10, <1>11, <1>12, <1>13,
     <1>14, <1>15, <1>16, <1>17, <1>18, <1>19, <1>20, <1>21, <1>22, <1>23, <1>24, <1>25,
     <1>26, <1>27, <1>28, <1>29, <1>30, <1>31, <1>32, <1>33
     DEF TclLoop, TclStep, TclCall, CtTake, CtStep, Threads

MarksOK ==
  /\ Unique(chains)
  /\ \A s \in Sockets : Links(chains, s) => marked[s]
  /\ \A t \in Threads : pc[t] = "push" => marked[sock[t]] /\ ~ Links(chains, sock[t])
Backed(s) ==
  Links(chains, s) \/ (\E t \in Threads : Pushing(t, s)) \/ At("tcl", {"closeFlag"}, s)
BackedOK == \A s \in Sockets : st[s] = "open" /\ marked[s] => Backed(s)

LEMMA MarksAre ==
  ASSUME TypeOK
  PROVE  (ListedOnce <=> MarksOK) /\ (MarkIsBacked <=> BackedOK)
<1>2. ListedOnce <=> MarksOK
  BY Lists DEF ListedOnce, MarksOK, Unique
<1>3. MarkIsBacked <=> BackedOK
  BY DEF MarkIsBacked, BackedOK, Backed, Pushing, At, Stray, Listed, Linked, Links
<1> QED BY <1>2, <1>3

LEMMA MarksAreNext ==
  ASSUME TypeOK'
  PROVE  (ListedOnce' <=> MarksOK') /\ (MarkIsBacked' <=> BackedOK')
<1>2. ListedOnce' <=> MarksOK'
  BY Lists DEF ListedOnce, MarksOK, Unique
<1>3. MarkIsBacked' <=> BackedOK'
  BY DEF MarkIsBacked, BackedOK, Backed, Pushing, At, Stray, Listed, Linked, Links
<1> QED BY <1>2, <1>3

\* The sides of a step of thread t that changes the list.
LEMMA ZapKeeps ==
  ASSUME TypeOK, Places, MarksOK, BackedOK, NEW t \in Threads, ZapMark(t) \/ ZapPush(t)
  PROVE  MarksOK' /\ BackedOK'
<1>1. /\ marked \in [Sockets -> BOOLEAN] /\ ListTyped
      /\ pc \in [Threads -> TclAt \cup CtAt] /\ sock \in [Threads -> Sockets \cup {None}]
      /\ t = "tcl" \/ t = "ct"
  BY DEF TypeOK, ListTyped, Threads
<1>2. sock[t] \in Sockets
  BY <1>1 DEF Places, ZapMark, ZapPush
<1> DEFINE s == sock[t]
<1>3. st' = st
  BY DEF ZapMark, ZapPush, sockVars
<1>4. CASE ZapMark(t)
  <2>1. /\ pc[t] = "zap" /\ \A u \in Threads : pc[u] # "push"
        /\ marked' = [marked EXCEPT ![s] = TRUE] /\ chains' = chains
        /\ \E at \in {"alert", "push"} : /\ Goto(t, at, s)
                                        /\ at = IF marked[s] THEN "alert" ELSE "push"
    BY <1>4 DEF ZapMark, LockFree, readySockets
  <2>2. /\ sock' = sock /\ pc'[t] = IF marked[s] THEN "alert" ELSE "push"
        /\ \A u \in Threads : u # t => pc'[u] = pc[u]
    BY <2>1, <1>1 DEF Goto
  <2>3. MarksOK'
    BY <2>1, <2>2, <1>1, <1>2 DEF MarksOK
  <2>4. ASSUME NEW x \in Sockets, st[x] = "open", marked'[x]
        PROVE  Backed(x)'
    <3>1. CASE x = s /\ ~ marked[s]
      <4>1. pc'[t] = "push" /\ sock'[t] = x
        BY <3>1, <2>2
      <4> QED BY <4>1 DEF Backed, Pushing
    <3>2. CASE x # s \/ marked[s]
      <4>1. Backed(x)
        BY <3>2, <2>1, <2>4, <1>1, <1>2 DEF BackedOK
      <4>2. Links(chains, x) \/ At("tcl", {"closeFlag"}, x)
        BY <4>1, <2>1 DEF Backed, Pushing
      <4>3. At("tcl", {"closeFlag"}, x) => At("tcl", {"closeFlag"}, x)'
        BY <2>1, <2>2, <1>1 DEF At, Threads
      <4> QED BY <4>2, <4>3, <2>1 DEF Backed
    <3> QED BY <3>1, <3>2
  <2> QED BY <2>3, <2>4, <1>3 DEF BackedOK
<1>5. CASE ZapPush(t)
  <2>1. pc[t] = "push" /\ PushBack(s) /\ marked' = marked /\ Goto(t, "alert", s)
    BY <1>5 DEF ZapPush
  <2>2. /\ sock' = sock /\ pc'[t] = "alert" /\ \A u \in Threads : u # t => pc'[u] = pc[u]
        /\ \A u \in Threads : u # t => pc[u] # "push"
    BY <2>1, <1>1 DEF Goto, Places, Threads
  <2>3. marked[s] /\ ~ Links(chains, s)
    BY <2>1 DEF MarksOK
  <2>4. Unique(chains') /\ \A x : Links(chains', x) <=> Links(chains, x) \/ x = s
    BY <2>1, <2>3, <1>1, <1>2, PushLinks DEF MarksOK
  <2>5. MarksOK'
    BY <2>1, <2>2, <2>3, <2>4, <1>1 DEF MarksOK
  <2>6. ASSUME NEW x \in Sockets, st[x] = "open", marked'[x]
        PROVE  Backed(x)'
    <3>1. Backed(x)
      BY <2>1, <2>6 DEF BackedOK
    <3>2. Links(chains, x) \/ x = s \/ At("tcl", {"closeFlag"}, x)
      BY <3>1, <2>2 DEF Backed, Pushing
    <3>3. At("tcl", {"closeFlag"}, x) => At("tcl", {"closeFlag"}, x)'
      BY <2>1, <2>2, <1>1 DEF At, Threads
    <3> QED BY <3>2, <3>3, <2>4 DEF Backed
  <2> QED BY <2>5, <2>6, <1>3 DEF BackedOK
<1> QED BY <1>4, <1>5

\* IocpEventCheckProc takes the first socket off the list, with its mark.
LEMMA CheckKeeps ==
  ASSUME TypeOK, Counted, MarksOK, BackedOK, CheckPop
  PROVE  MarksOK' /\ BackedOK'
<1>1. /\ marked \in [Sockets -> BOOLEAN] /\ ListTyped
      /\ pc \in [Threads -> TclAt \cup CtAt] /\ sock \in [Threads -> Sockets \cup {None}]
      /\ "tcl" \in Threads /\ "ct" \in Threads
  BY DEF TypeOK, ListTyped, Threads
<1>2. pc["tcl"] = "check" /\ (\A u \in Threads : pc[u] # "push") /\ st' = st
  BY DEF CheckPop, LockFree, sockVars
<1>3. CASE front = None
  <2>1. UNCHANGED <<chains, marked, pc, sock>>
    BY <1>3 DEF CheckPop, listVars, readySockets
  <2> QED BY <2>1, <1>2 DEF MarksOK, BackedOK, Backed, Pushing, At
<1>4. CASE front # None
  <2> DEFINE s == front
  <2>1. /\ Pop(s) /\ marked' = [marked EXCEPT ![s] = FALSE]
        /\ Goto("tcl", "checkChan", s)
    BY <1>4 DEF CheckPop
  <2>2. /\ s \in Sockets /\ Unique(chains') /\ ~ Links(chains', s)
        /\ \A x : Links(chains', x) => Links(chains, x)
        /\ \A x : Links(chains, x) /\ x # s => Links(chains', x)
    BY <2>1, <1>1, <1>4, PopLinks DEF MarksOK, Counted, ListTyped
  <2>3. \A u \in Threads : pc'[u] # "push"
    BY <2>1, <1>1, <1>2 DEF Goto
  <2>4. MarksOK'
    BY <2>1, <2>2, <2>3, <1>1 DEF MarksOK
  <2>5. ASSUME NEW x \in Sockets, st[x] = "open", marked'[x]
        PROVE  Backed(x)'
    <3>1. x # s /\ Backed(x)
      BY <2>1, <2>2, <2>5, <1>1 DEF BackedOK
    <3>2. Links(chains, x)
      BY <3>1, <1>2 DEF Backed, Pushing, At
    <3> QED BY <3>1, <3>2, <2>2 DEF Backed
  <2> QED BY <2>4, <2>5, <1>2 DEF BackedOK
<1> QED BY <1>3, <1>4

LEMMA RequeueKeeps ==
  ASSUME TypeOK, Places, MarksOK, BackedOK, Requeue
  PROVE  MarksOK' /\ BackedOK'
<1>1. /\ marked \in [Sockets -> BOOLEAN] /\ ListTyped
      /\ pc \in [Threads -> TclAt \cup CtAt] /\ sock \in [Threads -> Sockets \cup {None}]
      /\ "tcl" \in Threads /\ "ct" \in Threads
  BY DEF TypeOK, ListTyped, Threads
<1> DEFINE l == sock["tcl"]
<1>2. /\ pc["tcl"] = "requeue" /\ (\A u \in Threads : pc[u] # "push") /\ st' = st
      /\ Goto("tcl", "idle", None) /\ l \in Sockets
  BY DEF Requeue, LockFree, Leave, sockVars, Places
<1>3. \A u \in Threads : pc'[u] # "push"
  BY <1>1, <1>2 DEF Goto
<1>4. CASE UNCHANGED <<chains, marked>>
  <2>1. MarksOK'
    BY <1>3, <1>4 DEF MarksOK
  <2>2. ASSUME NEW x \in Sockets, st[x] = "open", marked[x]
        PROVE  Backed(x)'
    <3>1. Links(chains, x)
      BY <2>2, <1>2 DEF BackedOK, Backed, Pushing, At
    <3> QED BY <3>1, <1>4 DEF Backed
  <2> QED BY <2>1, <2>2, <1>2, <1>4 DEF BackedOK
<1>5. CASE ~ marked[l] /\ marked' = [marked EXCEPT ![l] = TRUE] /\ PushBack(l)
  <2>1. ~ Links(chains, l)
    BY <1>5, <1>2 DEF MarksOK
  <2>2. Unique(chains') /\ \A x : Links(chains', x) <=> Links(chains, x) \/ x = l
    BY <2>1, <1>1, <1>2, <1>5, PushLinks DEF MarksOK
  <2>3. MarksOK'
    BY <2>2, <1>1, <1>2, <1>3, <1>5 DEF MarksOK
  <2>4. ASSUME NEW x \in Sockets, st[x] = "open", marked'[x]
        PROVE  Backed(x)'
    <3>1. Links(chains, x) \/ x = l
      BY <2>4, <1>1, <1>2, <1>5 DEF BackedOK, Backed, Pushing, At
    <3> QED BY <3>1, <2>2 DEF Backed
  <2> QED BY <2>3, <2>4, <1>2 DEF BackedOK
<1> QED BY <1>4, <1>5 DEF Requeue, listVars, readySockets

\* A closed or closing socket leaves the list; the others stay on it.
LEMMA PopKeeps ==
  ASSUME TypeOK, Places, MarksOK, BackedOK, ClosePop \/ FreeUnlink
  PROVE  MarksOK' /\ BackedOK'
<1>1. /\ ListTyped /\ "tcl" \in Threads /\ "ct" \in Threads
      /\ pc \in [Threads -> TclAt \cup CtAt] /\ sock \in [Threads -> Sockets \cup {None}]
      /\ st \in [Sockets -> {"open", "closing", "closed", "freed"}]
  BY DEF TypeOK, ListTyped, Threads
<1>2. PICK s \in Sockets :
        /\ st[s] # "open" /\ marked' = marked
        /\ chains' = chains \/ Pop(s)
        /\ \A x \in Sockets : st'[x] = "open" => st[x] = "open" /\ x # s
  <2>1. CASE ClosePop
    <3>1. sock["tcl"] \in Sockets /\ st[sock["tcl"]] = "closing"
      BY <2>1 DEF ClosePop, Places, At
    <3> QED BY <2>1, <3>1 DEF ClosePop, sockVars, readySockets
  <2>2. CASE FreeUnlink
    <3>1. sock["ct"] \in Sockets /\ st[sock["ct"]] = "closed"
      BY <2>2 DEF FreeUnlink, Places
    <3>2. st' = [st EXCEPT ![sock["ct"]] = "freed"]
      BY <2>2 DEF FreeUnlink
    <3> QED BY <2>2, <3>1, <3>2, <1>1 DEF FreeUnlink
  <2> QED BY <2>1, <2>2
<1>3. \A t \in Threads : \A x : Pushing(t, x)' <=> Pushing(t, x)
  <2>1. CASE ClosePop
    <3>1. Goto("tcl", "closeEvents", sock["tcl"]) /\ pc["tcl"] = "closePop"
      BY <2>1 DEF ClosePop
    <3> QED BY <3>1, <1>1 DEF Goto, Pushing, Threads
  <2>2. CASE FreeUnlink
    <3>1. Goto("ct", "idle", None) /\ pc["ct"] = "unlink"
      BY <2>2 DEF FreeUnlink, Leave
    <3> QED BY <3>1, <1>1 DEF Goto, Pushing, Threads
  <2> QED BY <2>1, <2>2
<1>4. \A x \in Sockets : x # s /\ At("tcl", {"closeFlag"}, x) => At("tcl", {"closeFlag"}, x)'
  <2>1. CASE ClosePop
    BY <2>1 DEF ClosePop, At
  <2>2. CASE FreeUnlink
    <3>1. Goto("ct", "idle", None)
      BY <2>2 DEF FreeUnlink, Leave
    <3> QED BY <3>1, <1>1 DEF Goto, At, Threads
  <2> QED BY <2>1, <2>2
<1>5. /\ Unique(chains')
      /\ \A x : Links(chains', x) => Links(chains, x)
      /\ \A x : Links(chains, x) /\ x # s => Links(chains', x)
  <2>1. CASE chains' = chains
    BY <2>1 DEF MarksOK
  <2>2. CASE Pop(s)
    BY <2>2, <1>1, PopLinks DEF MarksOK
  <2> QED BY <2>1, <2>2, <1>2
<1>6. MarksOK'
  <2>1. ASSUME NEW t \in Threads, pc'[t] = "push"
        PROVE  marked'[sock'[t]] /\ ~ Links(chains', sock'[t])
    <3>1. Pushing(t, sock'[t])
      BY <2>1, <1>3 DEF Pushing
    <3> QED BY <3>1, <1>2, <1>5 DEF Pushing, MarksOK
  <2> QED BY <2>1, <1>2, <1>5 DEF MarksOK
<1>7. BackedOK'
  BY <1>2, <1>3, <1>4, <1>5 DEF BackedOK, Backed
<1> QED BY <1>6, <1>7

\* "Flip the bit so no new stuff can ever come in again."
LEMMA CloseKeeps ==
  ASSUME TypeOK, Places, MarksOK, BackedOK, NEW s \in Sockets, Close(s)
  PROVE  MarksOK' /\ BackedOK'
<1>1. /\ marked \in [Sockets -> BOOLEAN] /\ "tcl" \in Threads
      /\ pc \in [Threads -> TclAt \cup CtAt] /\ sock \in [Threads -> Sockets \cup {None}]
  BY DEF TypeOK, ListTyped, Threads
<1>2. /\ pc["tcl"] = "idle" /\ marked' = [marked EXCEPT ![s] = TRUE] /\ chains' = chains
      /\ st' = st /\ Goto("tcl", "closeFlag", s)
  BY DEF Close, TclCalls, sockVars, readySockets
<1>3. /\ \A t \in Threads : \A x : Pushing(t, x)' <=> Pushing(t, x)
      /\ At("tcl", {"closeFlag"}, s)' /\ \A x : ~ At("tcl", {"closeFlag"}, x)
  BY <1>1, <1>2 DEF Goto, Pushing, At, Threads
<1>4. MarksOK'
  BY <1>1, <1>2, <1>3 DEF MarksOK, Pushing
<1>5. BackedOK'
  BY <1>1, <1>2, <1>3 DEF BackedOK, Backed
<1> QED BY <1>4, <1>5

LEMMA MarksStay ==
  ASSUME TypeOK, TypeOK', Places, Counted, ListedOnce, MarkIsBacked,
         Running /\ (TclLoop \/ TclStep \/ TclCall \/ CtTake \/ CtStep)
  PROVE  ListedOnce' /\ MarkIsBacked'
<1>1. MarksOK /\ BackedOK
  BY MarksAre
<1>2. CASE ListFrame
  BY <1>2, FrameKeeps
<1>3. CASE \E t \in Threads : ZapMark(t) \/ ZapPush(t)
  BY <1>1, <1>3, ZapKeeps, MarksAreNext
<1>4. CASE CheckPop
  BY <1>1, <1>4, CheckKeeps, MarksAreNext
<1>5. CASE Requeue
  BY <1>1, <1>5, RequeueKeeps, MarksAreNext
<1>6. CASE ClosePop \/ FreeUnlink
  BY <1>1, <1>6, PopKeeps, MarksAreNext
<1>7. CASE \E s \in Sockets : Close(s)
  BY <1>1, <1>7, CloseKeeps, MarksAreNext
<1> QED BY <1>2, <1>3, <1>4, <1>5, <1>6, <1>7, ListFrames DEF ListStep


-----------------------------------------------------------------------------
\* Events.

Alive(x) == st[x] \in {"open", "closing"}
EventsOK == \A x \in Sockets : In(evq, x) => Alive(x)
EventStep ==
  \A x \in Sockets : In(evq', x) => (In(evq, x) /\ (Alive(x) => Alive(x)')) \/ st'[x] = "open"

LEMMA EventsAre ==
  ASSUME TypeOK, Places
  PROVE  EventsAreForOpen <=> EventsOK
<1>1. \A i \in DOMAIN evq : evq[i] \in Sockets
  BY DEF TypeOK
<1>2. \A x \in Sockets : Alive(x) <=> st[x] = "open" \/ (sock["tcl"] = x /\ st[x] = "closing")
  BY DEF Alive, Places, At
<1> QED BY <1>1, <1>2 DEF EventsAreForOpen, EventsOK, In

LEMMA EventsAreNext ==
  ASSUME TypeOK', Places'
  PROVE  EventsAreForOpen' <=> EventsOK'
<1>1. \A i \in DOMAIN evq' : evq'[i] \in Sockets
  BY DEF TypeOK
<1>2. \A x \in Sockets :
        Alive(x)' <=> st'[x] = "open" \/ (sock'["tcl"] = x /\ st'[x] = "closing")
  BY DEF Alive, Places, At
<1> QED BY <1>1, <1>2 DEF EventsAreForOpen, EventsOK, In

LEMMA EventSteps ==
  ASSUME TypeOK, Places, Running /\ (TclLoop \/ TclStep \/ TclCall \/ CtTake \/ CtStep)
  PROVE  EventStep
<1>i. /\ ThreadsOK /\ Places /\ ListsOK /\ Clients \subseteq Sockets /\ Listeners \subseteq Sockets
      /\ st \in [Sockets -> {"open", "closing", "closed", "freed"}]
  BY TypeParts DEF Sockets, SocketsOK
<1>1. ASSUME NEW t \in Threads, ZapMark(t)
      PROVE  EventStep
  BY <1>1, <1>i
     DEF ZapMark, EventStep, Alive, TclCalls, CtFree, ThreadsOK, Places, At, sockVars
<1>2. ASSUME NEW t \in Threads, ZapPush(t)
      PROVE  EventStep
  BY <1>2, <1>i
     DEF ZapPush, EventStep, Alive, TclCalls, CtFree, ThreadsOK, Places, At, sockVars
<1>3. ASSUME NEW t \in Threads, ZapAlert(t)
      PROVE  EventStep
  BY <1>3, <1>i
     DEF ZapAlert, EventStep, Alive, TclCalls, CtFree, ThreadsOK, Places, At, sockVars
<1>4. ASSUME EventSetup
      PROVE  EventStep
  BY <1>4, <1>i
     DEF EventSetup, EventStep, Alive, TclCalls, CtFree, ThreadsOK, Places, At, sockVars
<1>5. ASSUME CheckBegin
      PROVE  EventStep
  BY <1>5, <1>i
     DEF CheckBegin, EventStep, Alive, TclCalls, CtFree, ThreadsOK, Places, At, sockVars
<1>6. ASSUME CheckPop
      PROVE  EventStep
  BY <1>6, <1>i
     DEF CheckPop, EventStep, Alive, TclCalls, CtFree, ThreadsOK, Places, At, sockVars
<1>7. ASSUME CheckChannel
      PROVE  EventStep
  <2>1. sock["tcl"] \in Sockets /\ evq \in Seq(Sockets) /\ st' = st
    BY <1>7, <1>i DEF CheckChannel, Places, ListsOK, sockVars
  <2>2. evq' = evq \/ (st[sock["tcl"]] = "open" /\ evq' = Append(evq, sock["tcl"]))
    BY <1>7 DEF CheckChannel
  <2>3. \A x : In(evq', x) => In(evq, x) \/ (x = sock["tcl"] /\ st[x] = "open")
    <3>1. \A x : In(Append(evq, sock["tcl"]), x) <=> In(evq, x) \/ x = sock["tcl"]
      BY <2>1, Appended
    <3> QED BY <2>2, <3>1
  <2> QED BY <2>1, <2>3 DEF EventStep, Alive
<1>8. ASSUME CheckEnd
      PROVE  EventStep
  BY <1>8, <1>i
     DEF CheckEnd, EventStep, Alive, TclCalls, CtFree, ThreadsOK, Places, At, sockVars
<1>9. ASSUME NEW c \in Clients, ServiceClient(c)
      PROVE  EventStep
  <2>1. evq \in Seq(Sockets) /\ evq # <<>> /\ evq' = Tail(evq) /\ st' = st
    BY <1>9, <1>i DEF ServiceClient, ListsOK, sockVars
  <2> QED BY <2>1, Tailed DEF EventStep, Alive
<1>10. ASSUME NEW c \in Clients, ClientReturn(c)
      PROVE  EventStep
  BY <1>10, <1>i
     DEF ClientReturn, EventStep, Alive, TclCalls, CtFree, ThreadsOK, Places, At, sockVars
<1>11. ASSUME NEW l \in Listeners, ServiceListener(l)
      PROVE  EventStep
  <2>1. evq \in Seq(Sockets) /\ evq # <<>> /\ evq' = Tail(evq) /\ st' = st
    BY <1>11, <1>i DEF ServiceListener, ListsOK, sockVars
  <2> QED BY <2>1, Tailed DEF EventStep, Alive
<1>12. ASSUME NEW l \in Listeners, ListenerReturn(l)
      PROVE  EventStep
  BY <1>12, <1>i
     DEF ListenerReturn, EventStep, Alive, TclCalls, CtFree, ThreadsOK, Places, At,
         sockVars
<1>13. ASSUME Requeue
      PROVE  EventStep
  BY <1>13, <1>i
     DEF Requeue, EventStep, Alive, TclCalls, CtFree, ThreadsOK, Places, At, sockVars
<1>14. ASSUME WatchTest
      PROVE  EventStep
  BY <1>14, <1>i
     DEF WatchTest, EventStep, Alive, TclCalls, CtFree, ThreadsOK, Places, At, sockVars
<1>15. ASSUME NEW c \in Clients, OutputTest(c)
      PROVE  EventStep
  BY <1>15, <1>i
     DEF OutputTest, EventStep, Alive, TclCalls, CtFree, ThreadsOK, Places, At, sockVars
<1>16. ASSUME CloseFlag
      PROVE  EventStep
  BY <1>16, <1>i
     DEF CloseFlag, EventStep, Alive, TclCalls, CtFree, ThreadsOK, Places, At, sockVars
<1>17. ASSUME ClosePop
      PROVE  EventStep
  BY <1>17, <1>i
     DEF ClosePop, EventStep, Alive, TclCalls, CtFree, ThreadsOK, Places, At, sockVars
<1>18. ASSUME CloseEvents
      PROVE  EventStep
  <2>1. CASE st' = st /\ \E i \in DOMAIN evq : evq' = RemoveAt(evq, i)
    <3>1. evq \in Seq(Sockets)
      BY <1>i DEF ListsOK
    <3> QED BY <2>1, <3>1, Removed DEF EventStep, Alive
  <2>2. CASE evq' = evq /\ ~ Pending(sock["tcl"]) /\ st' = [st EXCEPT ![sock["tcl"]] = "closed"]
    BY <2>2, <1>i, Lists DEF EventStep, Alive
  <2> QED BY <1>18, <2>1, <2>2 DEF CloseEvents
<1>19. ASSUME NEW c \in Clients, NEW m \in SUBSET {"R", "W"}, Watch(c, m)
      PROVE  EventStep
  BY <1>19, <1>i
     DEF Watch, EventStep, Alive, TclCalls, CtFree, ThreadsOK, Places, At, sockVars
<1>20. ASSUME NEW c \in Clients, Input(c)
      PROVE  EventStep
  BY <1>20, <1>i
     DEF Input, EventStep, Alive, TclCalls, CtFree, ThreadsOK, Places, At, sockVars
<1>21. ASSUME NEW c \in Clients, Output(c)
      PROVE  EventStep
  BY <1>21, <1>i
     DEF Output, EventStep, Alive, TclCalls, CtFree, ThreadsOK, Places, At, sockVars
<1>22. ASSUME NEW s \in Sockets, Close(s)
      PROVE  EventStep
  BY <1>22, <1>i
     DEF Close, EventStep, Alive, TclCalls, CtFree, ThreadsOK, Places, At, sockVars
<1>23. ASSUME NEW c \in Clients, Received(c)
      PROVE  EventStep
  BY <1>23, <1>i
     DEF Received, EventStep, Alive, TclCalls, CtFree, ThreadsOK, Places, At, sockVars
<1>24. ASSUME NEW c \in Clients, Connected(c)
      PROVE  EventStep
  BY <1>24, <1>i
     DEF Connected, EventStep, Alive, TclCalls, CtFree, ThreadsOK, Places, At, sockVars
<1>25. ASSUME NEW c \in Clients, Sent(c)
      PROVE  EventStep
  BY <1>25, <1>i
     DEF Sent, EventStep, Alive, TclCalls, CtFree, ThreadsOK, Places, At, sockVars
<1>26. ASSUME NEW l \in Listeners, Accepted(l)
      PROVE  EventStep
  BY <1>26, <1>i
     DEF Accepted, EventStep, Alive, TclCalls, CtFree, ThreadsOK, Places, At, sockVars
<1>27. ASSUME NEW s \in Sockets, Free(s)
      PROVE  EventStep
  BY <1>27, <1>i
     DEF Free, EventStep, Alive, TclCalls, CtFree, ThreadsOK, Places, At, sockVars
<1>28. ASSUME ReceivedTest
      PROVE  EventStep
  BY <1>28, <1>i
     DEF ReceivedTest, EventStep, Alive, TclCalls, CtFree, ThreadsOK, Places, At, sockVars
<1>29. ASSUME SentTest
      PROVE  EventStep
  BY <1>29, <1>i
     DEF SentTest, EventStep, Alive, TclCalls, CtFree, ThreadsOK, Places, At, sockVars
<1>30. ASSUME FreeUnlink
      PROVE  EventStep
  BY <1>30, <1>i
     DEF FreeUnlink, EventStep, Alive, TclCalls, CtFree, ThreadsOK, Places, At, sockVars
<1>31. ASSUME NEW b \in BOOLEAN, Wake(b)
      PROVE  EventStep
  BY <1>31, <1>i
     DEF Wake, EventStep, Alive, TclCalls, CtFree, ThreadsOK, Places, At, sockVars
<1>32. ASSUME NEW c \in Clients, OutputUndo(c)
      PROVE  EventStep
  BY <1>32, <1>i
     DEF OutputUndo, EventStep, Alive, TclCalls, CtFree, ThreadsOK, Places, At, sockVars
<1>33. ASSUME NEW c \in Clients, OutputWatch(c)
      PROVE  EventStep
  BY <1>33, <1>i
     DEF OutputWatch, EventStep, Alive, TclCalls, CtFree, ThreadsOK, Places, At, sockVars
<1> QED
  BY <1>1, <1>2, <1>3, <1>4, <1>5, <1>6, <1>7, <1>8, <1>9, <1>10, <1>11, <1>12, <1>13,
     <1>14, <1>15, <1>16, <1>17, <1>18, <1>19, <1>20, <1>21, <1>22, <1>23, <1>24, <1>25,
     <1>26, <1>27, <1>28, <1>29, <1>30, <1>31, <1>32, <1>33
     DEF TclLoop, TclStep, TclCall, CtTake, CtStep, Threads

\* Sleep.
LEMMA AsleepStays ==
  ASSUME TypeOK, Places, Asleep, Running /\ (TclLoop \/ TclStep \/ TclCall \/ CtTake \/ CtStep)
  PROVE  Asleep'
<1>i. /\ ThreadsOK /\ Places /\ ListsOK /\ Clients \subseteq Sockets /\ Listeners \subseteq Sockets
      /\ st \in [Sockets -> {"open", "closing", "closed", "freed"}]
  BY TypeParts DEF Sockets, SocketsOK
<1>1. ASSUME NEW t \in Threads, ZapMark(t)
      PROVE  Asleep'
  BY <1>1, <1>i
     DEF ZapMark, Asleep, Goto, Leave, TclFree, TclCalls, CtFree, Threads, ThreadsOK,
         Places, listVars, readySockets
<1>2. ASSUME NEW t \in Threads, ZapPush(t)
      PROVE  Asleep'
  BY <1>2, <1>i
     DEF ZapPush, Asleep, Goto, Leave, TclFree, TclCalls, CtFree, Threads, ThreadsOK,
         Places, listVars, readySockets
<1>3. ASSUME NEW t \in Threads, ZapAlert(t)
      PROVE  Asleep'
  BY <1>3, <1>i
     DEF ZapAlert, Asleep, Goto, Leave, TclFree, TclCalls, CtFree, Threads, ThreadsOK,
         Places, listVars, readySockets
<1>4. ASSUME EventSetup
      PROVE  Asleep'
  <2>1. evq' = <<>> /\ running' = None /\ lCount' = lCount /\ "tcl" \in Threads
    BY <1>4 DEF EventSetup, TclFree, listVars, readySockets, Threads
  <2>2. CASE lCount = 0
    BY <2>1, <2>2 DEF Asleep
  <2>3. CASE lCount # 0
    <3>1. pc'["tcl"] = "checkBegin"
      BY <1>4, <2>1, <2>3, <1>i DEF EventSetup, Goto, ThreadsOK
    <3> QED BY <3>1 DEF Asleep
  <2> QED BY <2>2, <2>3
<1>5. ASSUME CheckBegin
      PROVE  Asleep'
  BY <1>5, <1>i
     DEF CheckBegin, Asleep, Goto, Leave, TclFree, TclCalls, CtFree, Threads, ThreadsOK,
         Places, listVars, readySockets
<1>6. ASSUME CheckPop
      PROVE  Asleep'
  <2>1. pc["tcl"] = "check" /\ (UNCHANGED pc \/ Goto("tcl", "checkChan", front))
    BY <1>6 DEF CheckPop
  <2> QED BY <2>1, <1>i DEF Asleep, Goto, ThreadsOK, Threads
<1>7. ASSUME CheckChannel
      PROVE  Asleep'
  BY <1>7, <1>i
     DEF CheckChannel, Asleep, Goto, Leave, TclFree, TclCalls, CtFree, Threads,
         ThreadsOK, Places, listVars, readySockets
<1>8. ASSUME CheckEnd
      PROVE  Asleep'
  BY <1>8, <1>i
     DEF CheckEnd, Asleep, Goto, Leave, TclFree, TclCalls, CtFree, Threads, ThreadsOK,
         Places, listVars, readySockets
<1>9. ASSUME NEW c \in Clients, ServiceClient(c)
      PROVE  Asleep'
  BY <1>9, <1>i
     DEF ServiceClient, Asleep, Goto, Leave, TclFree, TclCalls, CtFree, Threads,
         ThreadsOK, Places, listVars, readySockets
<1>10. ASSUME NEW c \in Clients, ClientReturn(c)
      PROVE  Asleep'
  BY <1>10, <1>i
     DEF ClientReturn, Asleep, Goto, Leave, TclFree, TclCalls, CtFree, Threads,
         ThreadsOK, Places, listVars, readySockets
<1>11. ASSUME NEW l \in Listeners, ServiceListener(l)
      PROVE  Asleep'
  BY <1>11, <1>i
     DEF ServiceListener, Asleep, Goto, Leave, TclFree, TclCalls, CtFree, Threads,
         ThreadsOK, Places, listVars, readySockets
<1>12. ASSUME NEW l \in Listeners, ListenerReturn(l)
      PROVE  Asleep'
  BY <1>12, <1>i
     DEF ListenerReturn, Asleep, Goto, Leave, TclFree, TclCalls, CtFree, Threads,
         ThreadsOK, Places, listVars, readySockets
<1>13. ASSUME Requeue
      PROVE  Asleep'
  BY <1>13, <1>i
     DEF Requeue, Asleep, Goto, Leave, TclFree, TclCalls, CtFree, Threads, ThreadsOK,
         Places, listVars, readySockets
<1>14. ASSUME WatchTest
      PROVE  Asleep'
  BY <1>14, <1>i
     DEF WatchTest, Asleep, Goto, Leave, TclFree, TclCalls, CtFree, Threads, ThreadsOK,
         Places, listVars, readySockets
<1>15. ASSUME NEW c \in Clients, OutputTest(c)
      PROVE  Asleep'
  BY <1>15, <1>i
     DEF OutputTest, Asleep, Goto, Leave, TclFree, TclCalls, CtFree, Threads, ThreadsOK,
         Places, listVars, readySockets
<1>16. ASSUME CloseFlag
      PROVE  Asleep'
  BY <1>16, <1>i
     DEF CloseFlag, Asleep, Goto, Leave, TclFree, TclCalls, CtFree, Threads, ThreadsOK,
         Places, listVars, readySockets
<1>17. ASSUME ClosePop
      PROVE  Asleep'
  BY <1>17, <1>i
     DEF ClosePop, Asleep, Goto, Leave, TclFree, TclCalls, CtFree, Threads, ThreadsOK,
         Places, listVars, readySockets
<1>18. ASSUME CloseEvents
      PROVE  Asleep'
  BY <1>18, <1>i
     DEF CloseEvents, Asleep, Goto, Leave, TclFree, TclCalls, CtFree, Threads, ThreadsOK,
         Places, listVars, readySockets
<1>19. ASSUME NEW c \in Clients, NEW m \in SUBSET {"R", "W"}, Watch(c, m)
      PROVE  Asleep'
  BY <1>19, <1>i
     DEF Watch, Asleep, Goto, Leave, TclFree, TclCalls, CtFree, Threads, ThreadsOK,
         Places, listVars, readySockets
<1>20. ASSUME NEW c \in Clients, Input(c)
      PROVE  Asleep'
  BY <1>20, <1>i
     DEF Input, Asleep, Goto, Leave, TclFree, TclCalls, CtFree, Threads, ThreadsOK,
         Places, listVars, readySockets
<1>21. ASSUME NEW c \in Clients, Output(c)
      PROVE  Asleep'
  BY <1>21, <1>i
     DEF Output, Asleep, Goto, Leave, TclFree, TclCalls, CtFree, Threads, ThreadsOK,
         Places, listVars, readySockets
<1>22. ASSUME NEW s \in Sockets, Close(s)
      PROVE  Asleep'
  BY <1>22, <1>i
     DEF Close, Asleep, Goto, Leave, TclFree, TclCalls, CtFree, Threads, ThreadsOK,
         Places, listVars, readySockets
<1>23. ASSUME NEW c \in Clients, Received(c)
      PROVE  Asleep'
  BY <1>23, <1>i
     DEF Received, Asleep, Goto, Leave, TclFree, TclCalls, CtFree, Threads, ThreadsOK,
         Places, listVars, readySockets
<1>24. ASSUME NEW c \in Clients, Connected(c)
      PROVE  Asleep'
  BY <1>24, <1>i
     DEF Connected, Asleep, Goto, Leave, TclFree, TclCalls, CtFree, Threads, ThreadsOK,
         Places, listVars, readySockets
<1>25. ASSUME NEW c \in Clients, Sent(c)
      PROVE  Asleep'
  BY <1>25, <1>i
     DEF Sent, Asleep, Goto, Leave, TclFree, TclCalls, CtFree, Threads, ThreadsOK,
         Places, listVars, readySockets
<1>26. ASSUME NEW l \in Listeners, Accepted(l)
      PROVE  Asleep'
  BY <1>26, <1>i
     DEF Accepted, Asleep, Goto, Leave, TclFree, TclCalls, CtFree, Threads, ThreadsOK,
         Places, listVars, readySockets
<1>27. ASSUME NEW s \in Sockets, Free(s)
      PROVE  Asleep'
  BY <1>27, <1>i
     DEF Free, Asleep, Goto, Leave, TclFree, TclCalls, CtFree, Threads, ThreadsOK,
         Places, listVars, readySockets
<1>28. ASSUME ReceivedTest
      PROVE  Asleep'
  BY <1>28, <1>i
     DEF ReceivedTest, Asleep, Goto, Leave, TclFree, TclCalls, CtFree, Threads,
         ThreadsOK, Places, listVars, readySockets
<1>29. ASSUME SentTest
      PROVE  Asleep'
  BY <1>29, <1>i
     DEF SentTest, Asleep, Goto, Leave, TclFree, TclCalls, CtFree, Threads, ThreadsOK,
         Places, listVars, readySockets
<1>30. ASSUME FreeUnlink
      PROVE  Asleep'
  <2>1. /\ pc["ct"] = "unlink" /\ Goto("ct", "idle", None) /\ UNCHANGED <<evq, running, alert>>
        /\ lCount' = lCount \/ lCount # 0
    BY <1>30 DEF FreeUnlink, Leave, Pop, readySockets
  <2> QED BY <2>1, <1>i DEF Asleep, Goto, ThreadsOK, Threads
<1>31. ASSUME NEW b \in BOOLEAN, Wake(b)
      PROVE  Asleep'
  BY <1>31, <1>i
     DEF Wake, Asleep, Goto, Leave, TclFree, TclCalls, CtFree, Threads, ThreadsOK,
         Places, listVars, readySockets
<1>32. ASSUME NEW c \in Clients, OutputUndo(c)
      PROVE  Asleep'
  BY <1>32, <1>i
     DEF OutputUndo, Asleep, Goto, Leave, TclFree, TclCalls, CtFree, Threads, ThreadsOK,
         Places, listVars, readySockets
<1>33. ASSUME NEW c \in Clients, OutputWatch(c)
      PROVE  Asleep'
  BY <1>33, <1>i
     DEF OutputWatch, Asleep, Goto, Leave, TclFree, TclCalls, CtFree, Threads, ThreadsOK,
         Places, listVars, readySockets
<1> QED
  BY <1>1, <1>2, <1>3, <1>4, <1>5, <1>6, <1>7, <1>8, <1>9, <1>10, <1>11, <1>12, <1>13,
     <1>14, <1>15, <1>16, <1>17, <1>18, <1>19, <1>20, <1>21, <1>22, <1>23, <1>24, <1>25,
     <1>26, <1>27, <1>28, <1>29, <1>30, <1>31, <1>32, <1>33
     DEF TclLoop, TclStep, TclCall, CtTake, CtStep, Threads


\* Only pushes and pops change front and the count.
ListSteps ==
  \/ UNCHANGED readySockets
  \/ \E x \in Sockets : PushBack(x) \/ Pop(x)

LEMMA CountedStays ==
  ASSUME TypeOK, Places, Counted,
         Running /\ (TclLoop \/ TclStep \/ TclCall \/ CtTake \/ CtStep)
  PROVE  Counted'
<1>i. /\ ListTyped /\ Places
      /\ front # None => front \in Sockets
  BY TypeParts DEF ListsOK, ListTyped
<1>1. ListSteps
  <2>1. ASSUME NEW t \in Threads, ZapPush(t)
        PROVE  ListSteps
    <3>1. sock[t] \in Sockets
      BY <2>1, <1>i DEF ZapPush, Places, Threads
    <3> QED BY <2>1, <3>1 DEF ZapPush, ListSteps
  <2>2. ASSUME CheckPop
        PROVE  ListSteps
    BY <2>2, <1>i DEF CheckPop, ListSteps, listVars
  <2>3. ASSUME Requeue
        PROVE  ListSteps
    <3>1. sock["tcl"] \in Sockets
      BY <2>3, <1>i DEF Requeue, Places
    <3> QED BY <2>3, <3>1 DEF Requeue, ListSteps, listVars
  <2>4. ASSUME ClosePop
        PROVE  ListSteps
    <3>1. sock["tcl"] \in Sockets
      BY <2>4, <1>i DEF ClosePop, Places
    <3> QED BY <2>4, <3>1 DEF ClosePop, ListSteps
  <2>5. ASSUME FreeUnlink
        PROVE  ListSteps
    <3>1. sock["ct"] \in Sockets
      BY <2>5, <1>i DEF FreeUnlink, Places
    <3> QED BY <2>5, <3>1 DEF FreeUnlink, ListSteps
  <2>6. ASSUME TclLoop, ~ CheckPop
        PROVE  ListSteps
    BY <2>6
       DEF TclLoop, EventSetup, Wake, CheckBegin, CheckChannel, CheckEnd, ServiceClient,
           ClientReturn, ServiceListener, ListenerReturn, ListSteps, listVars
  <2>7. ASSUME TclStep
        PROVE  ListSteps
    BY <2>7, <2>1, <2>3, <2>4
       DEF TclStep, ZapMark, ZapAlert, WatchTest, OutputTest, OutputUndo, OutputWatch,
           CloseFlag, CloseEvents, ListSteps, listVars, Threads
  <2>8. ASSUME TclCall \/ CtTake
        PROVE  ListSteps
    BY <2>8
       DEF TclCall, Watch, Input, Output, Close, Wake, CtTake, Received, Connected, Sent,
           Accepted, Free, ListSteps, listVars
  <2>9. ASSUME CtStep
        PROVE  ListSteps
    BY <2>9, <2>1, <2>5
       DEF CtStep, ZapMark, ZapAlert, ReceivedTest, SentTest, ListSteps, listVars, Threads
  <2> QED BY <2>2, <2>6, <2>7, <2>8, <2>9
<1>2. CASE UNCHANGED readySockets
  BY <1>2 DEF Counted, readySockets
<1>3. ASSUME NEW x \in Sockets, PushBack(x) \/ Pop(x)
      PROVE  Counted'
  BY <1>3, <1>i, PushTyped, PopTyped DEF Counted
<1> QED BY <1>1, <1>2, <1>3 DEF ListSteps

LEMMA EventsStay ==
  ASSUME TypeOK, TypeOK', Places, Places', EventsAreForOpen,
         Running /\ (TclLoop \/ TclStep \/ TclCall \/ CtTake \/ CtStep)
  PROVE  EventsAreForOpen'
<1>1. EventsOK /\ EventStep
  BY EventsAre, EventSteps
<1>2. EventsOK'
  BY <1>1 DEF EventsOK, EventStep, Alive
<1> QED BY <1>2, EventsAreNext

-----------------------------------------------------------------------------
\* What is on its way for a socket.

ComingTo(s) ==
  \/ Links(chains, s) \/ In(evq, s) \/ running = s
  \/ At("tcl", {"zap", "push"}, s) \/ At("ct", {"zap", "push"}, s)
  \/ At("tcl", {"checkChan", "closeFlag"}, s)

LEMMA ComingIs == \A s : (Coming(s) <=> ComingTo(s)) /\ (Coming(s)' <=> ComingTo(s)')
BY Lists DEF Coming, ComingTo, Threads, At

\* It stays on its way, but for the steps that run or have run a script.
Carried == \A s \in Sockets : st'[s] = "open" /\ ComingTo(s) => ComingTo(s)'
Serving ==
  \/ \E c \in Clients : ServiceClient(c) \/ ClientReturn(c)
  \/ \E l \in Listeners : ServiceListener(l) \/ ListenerReturn(l)

LEMMA ComingStays ==
  ASSUME TypeOK, Places, MarkIsBacked, Running /\ (TclLoop \/ TclStep \/ TclCall \/ CtTake \/ CtStep)
  PROVE  Carried \/ Serving
<1>i. /\ ThreadsOK /\ Places /\ ListsOK /\ Clients \subseteq Sockets /\ Listeners \subseteq Sockets
      /\ st \in [Sockets -> {"open", "closing", "closed", "freed"}]
  BY TypeParts DEF Sockets, SocketsOK
<1>1. ASSUME NEW t \in Threads, ZapMark(t)
      PROVE  Carried \/ Serving
  <2>1. /\ pc[t] = "zap" /\ (\A u \in Threads : pc[u] # "push") /\ st' = st
        /\ UNCHANGED <<chains, evq, running>>
        /\ \E at \in {"alert", "push"} : Goto(t, at, sock[t]) /\ (marked[sock[t]] \/ at = "push")
    BY <1>1 DEF ZapMark, LockFree, sockVars, readySockets
  <2>2. sock[t] \in Sockets
    BY <2>1, <1>i DEF Places, Threads
  <2>3. ASSUME st[sock[t]] = "open", marked[sock[t]]
        PROVE  Links(chains, sock[t]) \/ At("tcl", {"closeFlag"}, sock[t])
    BY <2>1, <2>2, <2>3 DEF MarkIsBacked, Stray, Listed, Linked, Links, At
  <2> QED BY <2>1, <2>2, <2>3, <1>i DEF Carried, ComingTo, Goto, Threads, ThreadsOK, At
<1>2. ASSUME NEW t \in Threads, ZapPush(t)
      PROVE  Carried \/ Serving
  <2>1. /\ pc[t] = "push" /\ Goto(t, "alert", sock[t]) /\ PushBack(sock[t])
        /\ UNCHANGED <<evq, running>> /\ sock[t] \in Sockets
    BY <1>2, <1>i DEF ZapPush, Places, Threads
  <2>2. \A x : Links(chains', x) <=> Links(chains, x) \/ x = sock[t]
    BY <2>1, <1>i, PushAdds DEF ListsOK
  <2> QED BY <2>1, <2>2, <1>i DEF Carried, ComingTo, Goto, Threads, ThreadsOK, At
<1>3. ASSUME NEW t \in Threads, ZapAlert(t)
      PROVE  Carried \/ Serving
  BY <1>3, <1>i
     DEF ZapAlert, Carried, ComingTo, Goto, Leave, TclFree, TclCalls, CtFree, Threads,
         ThreadsOK, Places, At, listVars, readySockets
<1>4. ASSUME EventSetup
      PROVE  Carried \/ Serving
  <2>1. pc["tcl"] = "idle" /\ UNCHANGED <<chains, evq, running>>
        /\ \E p \in {"checkBegin", "wait"} : Goto("tcl", p, None)
    BY <1>4 DEF EventSetup, TclFree, listVars, readySockets
  <2> QED BY <2>1, <1>i DEF Carried, ComingTo, Goto, Threads, ThreadsOK, At
<1>5. ASSUME CheckBegin
      PROVE  Carried \/ Serving
  BY <1>5, <1>i
     DEF CheckBegin, Carried, ComingTo, Goto, Leave, TclFree, TclCalls, CtFree, Threads,
         ThreadsOK, Places, At, listVars, readySockets
<1>6. ASSUME CheckPop
      PROVE  Carried \/ Serving
  <2>1. pc["tcl"] = "check" /\ UNCHANGED <<evq, running>>
    BY <1>6 DEF CheckPop
  <2>2. CASE front = None
    BY <1>6, <2>1, <2>2 DEF CheckPop, Carried, ComingTo, At, listVars, readySockets
  <2>3. CASE front # None
    <3>1. Pop(front) /\ Goto("tcl", "checkChan", front)
      BY <1>6, <2>3 DEF CheckPop
    <3>2. \A x : Links(chains, x) => Links(chains', x) \/ x = front
      BY <2>3, <3>1, <1>i, PopLinks DEF ListsOK, ListTyped
    <3> QED BY <2>1, <3>1, <3>2, <1>i DEF Carried, ComingTo, Goto, Threads, ThreadsOK, At
  <2> QED BY <2>2, <2>3
<1>7. ASSUME CheckChannel
      PROVE  Carried \/ Serving
  <2>1. /\ pc["tcl"] = "checkChan" /\ Goto("tcl", "check", None) /\ sock["tcl"] \in Sockets
        /\ UNCHANGED <<st, chains, running>>
        /\ evq' = IF st[sock["tcl"]] = "open" THEN Append(evq, sock["tcl"]) ELSE evq
    BY <1>7, <1>i DEF CheckChannel, Places, sockVars, listVars, readySockets
  <2>2. \A x : In(evq', x) <=> In(evq, x) \/ (x = sock["tcl"] /\ st[x] = "open")
    BY <2>1, <1>i, Appended DEF ListsOK
  <2> QED BY <2>1, <2>2, <1>i DEF Carried, ComingTo, Goto, Threads, ThreadsOK, At
<1>8. ASSUME CheckEnd
      PROVE  Carried \/ Serving
  BY <1>8, <1>i
     DEF CheckEnd, Carried, ComingTo, Goto, Leave, TclFree, TclCalls, CtFree, Threads,
         ThreadsOK, Places, At, listVars, readySockets
<1>9. ASSUME NEW c \in Clients, ServiceClient(c)
      PROVE  Carried \/ Serving
  BY <1>9 DEF Serving
<1>10. ASSUME NEW c \in Clients, ClientReturn(c)
      PROVE  Carried \/ Serving
  BY <1>10 DEF Serving
<1>11. ASSUME NEW l \in Listeners, ServiceListener(l)
      PROVE  Carried \/ Serving
  BY <1>11 DEF Serving
<1>12. ASSUME NEW l \in Listeners, ListenerReturn(l)
      PROVE  Carried \/ Serving
  BY <1>12 DEF Serving
<1>13. ASSUME Requeue
      PROVE  Carried \/ Serving
  <2>1. /\ pc["tcl"] = "requeue" /\ Goto("tcl", "idle", None) /\ sock["tcl"] \in Sockets
        /\ UNCHANGED <<evq, running>>
        /\ chains' = chains \/ PushBack(sock["tcl"])
    BY <1>13, <1>i DEF Requeue, Places, Leave, listVars, readySockets
  <2>2. \A x : Links(chains, x) => Links(chains', x)
    BY <2>1, <1>i, PushAdds DEF ListsOK
  <2> QED BY <2>1, <2>2, <1>i DEF Carried, ComingTo, Goto, Threads, ThreadsOK, At
<1>14. ASSUME WatchTest
      PROVE  Carried \/ Serving
  BY <1>14, <1>i
     DEF WatchTest, Carried, ComingTo, Goto, Leave, TclFree, TclCalls, CtFree, Threads,
         ThreadsOK, Places, At, listVars, readySockets
<1>15. ASSUME NEW c \in Clients, OutputTest(c)
      PROVE  Carried \/ Serving
  BY <1>15, <1>i
     DEF OutputTest, Carried, ComingTo, Goto, Leave, TclFree, TclCalls, CtFree, Threads,
         ThreadsOK, Places, At, listVars, readySockets
<1>16. ASSUME CloseFlag
      PROVE  Carried \/ Serving
  BY <1>16, <1>i
     DEF CloseFlag, Carried, ComingTo, Goto, Leave, TclFree, TclCalls, CtFree, Threads,
         ThreadsOK, Places, At, listVars, readySockets
<1>17. ASSUME ClosePop
      PROVE  Carried \/ Serving
  <2>1. /\ pc["tcl"] = "closePop" /\ Goto("tcl", "closeEvents", sock["tcl"])
        /\ UNCHANGED <<st, evq, running>> /\ st[sock["tcl"]] # "open"
        /\ chains' = chains \/ Pop(sock["tcl"])
        /\ sock["tcl"] \in Sockets
    BY <1>17, <1>i DEF ClosePop, Places, At, sockVars, readySockets
  <2>2. \A x : Links(chains, x) /\ x # sock["tcl"] => Links(chains', x)
    BY <2>1, <1>i, PopLinks DEF ListsOK
  <2> QED BY <2>1, <2>2, <1>i DEF Carried, ComingTo, Goto, Threads, ThreadsOK, At
<1>18. ASSUME CloseEvents
      PROVE  Carried \/ Serving
  <2>1. /\ pc["tcl"] = "closeEvents" /\ UNCHANGED <<chains, running>>
        /\ UNCHANGED <<pc, sock>> \/ Goto("tcl", "idle", None)
        /\ evq' = evq \/ \E i \in DOMAIN evq : evq[i] = sock["tcl"] /\ evq' = RemoveAt(evq, i)
        /\ sock["tcl"] \in Sockets /\ st'[sock["tcl"]] # "open"
    BY <1>18, <1>i DEF CloseEvents, Places, At, Leave, listVars, readySockets
  <2>2. \A x : In(evq, x) /\ x # sock["tcl"] => In(evq', x)
    BY <2>1, <1>i, Removed DEF ListsOK
  <2> QED BY <2>1, <2>2, <1>i DEF Carried, ComingTo, Goto, Threads, ThreadsOK, At
<1>19. ASSUME NEW c \in Clients, NEW m \in SUBSET {"R", "W"}, Watch(c, m)
      PROVE  Carried \/ Serving
  BY <1>19, <1>i
     DEF Watch, Carried, ComingTo, Goto, Leave, TclFree, TclCalls, CtFree, Threads,
         ThreadsOK, Places, At, listVars, readySockets
<1>20. ASSUME NEW c \in Clients, Input(c)
      PROVE  Carried \/ Serving
  BY <1>20, <1>i
     DEF Input, Carried, ComingTo, Goto, Leave, TclFree, TclCalls, CtFree, Threads,
         ThreadsOK, Places, At, listVars, readySockets
<1>21. ASSUME NEW c \in Clients, Output(c)
      PROVE  Carried \/ Serving
  BY <1>21, <1>i
     DEF Output, Carried, ComingTo, Goto, Leave, TclFree, TclCalls, CtFree, Threads,
         ThreadsOK, Places, At, listVars, readySockets
<1>22. ASSUME NEW s \in Sockets, Close(s)
      PROVE  Carried \/ Serving
  BY <1>22, <1>i
     DEF Close, Carried, ComingTo, Goto, Leave, TclFree, TclCalls, CtFree, Threads,
         ThreadsOK, Places, At, listVars, readySockets
<1>23. ASSUME NEW c \in Clients, Received(c)
      PROVE  Carried \/ Serving
  BY <1>23, <1>i
     DEF Received, Carried, ComingTo, Goto, Leave, TclFree, TclCalls, CtFree, Threads,
         ThreadsOK, Places, At, listVars, readySockets
<1>24. ASSUME NEW c \in Clients, Connected(c)
      PROVE  Carried \/ Serving
  BY <1>24, <1>i
     DEF Connected, Carried, ComingTo, Goto, Leave, TclFree, TclCalls, CtFree, Threads,
         ThreadsOK, Places, At, listVars, readySockets
<1>25. ASSUME NEW c \in Clients, Sent(c)
      PROVE  Carried \/ Serving
  BY <1>25, <1>i
     DEF Sent, Carried, ComingTo, Goto, Leave, TclFree, TclCalls, CtFree, Threads,
         ThreadsOK, Places, At, listVars, readySockets
<1>26. ASSUME NEW l \in Listeners, Accepted(l)
      PROVE  Carried \/ Serving
  BY <1>26, <1>i
     DEF Accepted, Carried, ComingTo, Goto, Leave, TclFree, TclCalls, CtFree, Threads,
         ThreadsOK, Places, At, listVars, readySockets
<1>27. ASSUME NEW s \in Sockets, Free(s)
      PROVE  Carried \/ Serving
  BY <1>27, <1>i
     DEF Free, Carried, ComingTo, Goto, Leave, TclFree, TclCalls, CtFree, Threads,
         ThreadsOK, Places, At, listVars, readySockets
<1>28. ASSUME ReceivedTest
      PROVE  Carried \/ Serving
  BY <1>28, <1>i
     DEF ReceivedTest, Carried, ComingTo, Goto, Leave, TclFree, TclCalls, CtFree,
         Threads, ThreadsOK, Places, At, listVars, readySockets
<1>29. ASSUME SentTest
      PROVE  Carried \/ Serving
  BY <1>29, <1>i
     DEF SentTest, Carried, ComingTo, Goto, Leave, TclFree, TclCalls, CtFree, Threads,
         ThreadsOK, Places, At, listVars, readySockets
<1>30. ASSUME FreeUnlink
      PROVE  Carried \/ Serving
  <2>1. /\ pc["ct"] = "unlink" /\ Goto("ct", "idle", None) /\ sock["ct"] \in Sockets
        /\ UNCHANGED <<evq, running>> /\ st'[sock["ct"]] # "open"
        /\ chains' = chains \/ Pop(sock["ct"])
    BY <1>30, <1>i DEF FreeUnlink, Places, Leave
  <2>2. \A x : Links(chains, x) /\ x # sock["ct"] => Links(chains', x)
    BY <2>1, <1>i, PopLinks DEF ListsOK
  <2> QED BY <2>1, <2>2, <1>i DEF Carried, ComingTo, Goto, Threads, ThreadsOK, At
<1>31. ASSUME NEW b \in BOOLEAN, Wake(b)
      PROVE  Carried \/ Serving
  BY <1>31, <1>i
     DEF Wake, Carried, ComingTo, Goto, Leave, TclFree, TclCalls, CtFree, Threads,
         ThreadsOK, Places, At, listVars, readySockets
<1>32. ASSUME NEW c \in Clients, OutputUndo(c)
      PROVE  Carried \/ Serving
  BY <1>32, <1>i
     DEF OutputUndo, Carried, ComingTo, Goto, Leave, TclFree, TclCalls, CtFree, Threads,
         ThreadsOK, Places, At, listVars, readySockets
<1>33. ASSUME NEW c \in Clients, OutputWatch(c)
      PROVE  Carried \/ Serving
  BY <1>33, <1>i
     DEF OutputWatch, Carried, ComingTo, Goto, Leave, TclFree, TclCalls, CtFree, Threads,
         ThreadsOK, Places, At, listVars, readySockets
<1> QED
  BY <1>1, <1>2, <1>3, <1>4, <1>5, <1>6, <1>7, <1>8, <1>9, <1>10, <1>11, <1>12, <1>13,
     <1>14, <1>15, <1>16, <1>17, <1>18, <1>19, <1>20, <1>21, <1>22, <1>23, <1>24, <1>25,
     <1>26, <1>27, <1>28, <1>29, <1>30, <1>31, <1>32, <1>33
     DEF TclLoop, TclStep, TclCall, CtTake, CtStep, Threads

-----------------------------------------------------------------------------
\* What a script waits for.  Most steps make nothing due and leave the tests that
\* have begun where they are.

Asking ==
  WatchTest \/ (\E c \in Clients : ClientReturn(c) \/ \E m \in SUBSET {"R", "W"} : Watch(c, m))

AcceptStep ==
  Requeue \/ \E l \in Listeners : Accepted(l)
InputStep ==
  Asking \/ ReceivedTest \/ \E c \in Clients : Received(c) \/ Connected(c)
OutputStep ==
  \/ Asking \/ SentTest
  \/ \E c \in Clients : Output(c) \/ OutputUndo(c) \/ OutputWatch(c)
                        \/ Connected(c) \/ Sent(c)

AcceptFrame ==
  \A s \in Sockets : /\ AcceptDue(s)' => AcceptDue(s)
                     /\ At("tcl", {"requeue"}, s) => At("tcl", {"requeue"}, s)'
InputFrame ==
  \A s \in Sockets : /\ InputDue(s)' => InputDue(s)
                     /\ At("tcl", {"watchTest"}, s) => At("tcl", {"watchTest"}, s)'
                     /\ At("ct", {"recvTest"}, s) => At("ct", {"recvTest"}, s)'
OutputFrame ==
  \A s \in Sockets : /\ OutputDue(s)' => OutputDue(s)
                     /\ At("tcl", {"outWatch", "watchTest"}, s) => At("tcl", {"outWatch", "watchTest"}, s)'
                     /\ At("ct", {"sentTest"}, s) => At("ct", {"sentTest"}, s)'
                     /\ sends'[s] = sends[s] /\ cap'[s] = cap[s]

LEMMA AcceptFrames ==
  ASSUME TypeOK, Places, Running /\ (TclLoop \/ TclStep \/ TclCall \/ CtTake \/ CtStep)
  PROVE  AcceptFrame \/ AcceptStep
<1>i. /\ ThreadsOK /\ Places /\ SocketsOK /\ Clients \subseteq Sockets /\ Listeners \subseteq Sockets
      /\ Listeners \cap Clients = {}
  BY TypeParts, SocketsAssumption DEF Sockets
<1>1. ASSUME NEW t \in Threads, ZapMark(t)
      PROVE  AcceptFrame \/ AcceptStep
  BY <1>1, <1>i
     DEF ZapMark, AcceptFrame, AcceptDue, SocketsOK, Goto, Leave, TclFree, TclCalls,
         CtFree, Threads, ThreadsOK, Places, At, sockVars
<1>2. ASSUME NEW t \in Threads, ZapPush(t)
      PROVE  AcceptFrame \/ AcceptStep
  BY <1>2, <1>i
     DEF ZapPush, AcceptFrame, AcceptDue, SocketsOK, Goto, Leave, TclFree, TclCalls,
         CtFree, Threads, ThreadsOK, Places, At, sockVars
<1>3. ASSUME NEW t \in Threads, ZapAlert(t)
      PROVE  AcceptFrame \/ AcceptStep
  BY <1>3, <1>i
     DEF ZapAlert, AcceptFrame, AcceptDue, SocketsOK, Goto, Leave, TclFree, TclCalls,
         CtFree, Threads, ThreadsOK, Places, At, sockVars
<1>4. ASSUME EventSetup
      PROVE  AcceptFrame \/ AcceptStep
  BY <1>4, <1>i
     DEF EventSetup, AcceptFrame, AcceptDue, SocketsOK, Goto, Leave, TclFree, TclCalls,
         CtFree, Threads, ThreadsOK, Places, At, sockVars
<1>5. ASSUME CheckBegin
      PROVE  AcceptFrame \/ AcceptStep
  BY <1>5, <1>i
     DEF CheckBegin, AcceptFrame, AcceptDue, SocketsOK, Goto, Leave, TclFree, TclCalls,
         CtFree, Threads, ThreadsOK, Places, At, sockVars
<1>6. ASSUME CheckPop
      PROVE  AcceptFrame \/ AcceptStep
  BY <1>6, <1>i
     DEF CheckPop, AcceptFrame, AcceptDue, SocketsOK, Goto, Leave, TclFree, TclCalls,
         CtFree, Threads, ThreadsOK, Places, At, sockVars
<1>7. ASSUME CheckChannel
      PROVE  AcceptFrame \/ AcceptStep
  BY <1>7, <1>i
     DEF CheckChannel, AcceptFrame, AcceptDue, SocketsOK, Goto, Leave, TclFree, TclCalls,
         CtFree, Threads, ThreadsOK, Places, At, sockVars
<1>8. ASSUME CheckEnd
      PROVE  AcceptFrame \/ AcceptStep
  BY <1>8, <1>i
     DEF CheckEnd, AcceptFrame, AcceptDue, SocketsOK, Goto, Leave, TclFree, TclCalls,
         CtFree, Threads, ThreadsOK, Places, At, sockVars
<1>9. ASSUME NEW c \in Clients, ServiceClient(c)
      PROVE  AcceptFrame \/ AcceptStep
  BY <1>9, <1>i
     DEF ServiceClient, AcceptFrame, AcceptDue, SocketsOK, Goto, Leave, TclFree,
         TclCalls, CtFree, Threads, ThreadsOK, Places, At, sockVars
<1>10. ASSUME NEW c \in Clients, ClientReturn(c)
      PROVE  AcceptFrame \/ AcceptStep
  BY <1>10, <1>i
     DEF ClientReturn, AcceptFrame, AcceptDue, SocketsOK, Goto, Leave, TclFree, TclCalls,
         CtFree, Threads, ThreadsOK, Places, At, sockVars
<1>11. ASSUME NEW l \in Listeners, ServiceListener(l)
      PROVE  AcceptFrame \/ AcceptStep
  BY <1>11, <1>i
     DEF ServiceListener, AcceptFrame, AcceptDue, SocketsOK, Goto, Leave, TclFree,
         TclCalls, CtFree, Threads, ThreadsOK, Places, At, sockVars
<1>12. ASSUME NEW l \in Listeners, ListenerReturn(l)
      PROVE  AcceptFrame \/ AcceptStep
  BY <1>12, <1>i
     DEF ListenerReturn, AcceptFrame, AcceptDue, SocketsOK, Goto, Leave, TclFree,
         TclCalls, CtFree, Threads, ThreadsOK, Places, At, sockVars
<1>13. ASSUME Requeue
      PROVE  AcceptFrame \/ AcceptStep
  BY <1>13 DEF AcceptStep
<1>14. ASSUME WatchTest
      PROVE  AcceptFrame \/ AcceptStep
  BY <1>14, <1>i
     DEF WatchTest, AcceptFrame, AcceptDue, SocketsOK, Goto, Leave, TclFree, TclCalls,
         CtFree, Threads, ThreadsOK, Places, At, sockVars
<1>15. ASSUME NEW c \in Clients, OutputTest(c)
      PROVE  AcceptFrame \/ AcceptStep
  BY <1>15, <1>i
     DEF OutputTest, AcceptFrame, AcceptDue, SocketsOK, Goto, Leave, TclFree, TclCalls,
         CtFree, Threads, ThreadsOK, Places, At, sockVars
<1>16. ASSUME CloseFlag
      PROVE  AcceptFrame \/ AcceptStep
  BY <1>16, <1>i
     DEF CloseFlag, AcceptFrame, AcceptDue, SocketsOK, Goto, Leave, TclFree, TclCalls,
         CtFree, Threads, ThreadsOK, Places, At, sockVars
<1>17. ASSUME ClosePop
      PROVE  AcceptFrame \/ AcceptStep
  BY <1>17, <1>i
     DEF ClosePop, AcceptFrame, AcceptDue, SocketsOK, Goto, Leave, TclFree, TclCalls,
         CtFree, Threads, ThreadsOK, Places, At, sockVars
<1>18. ASSUME CloseEvents
      PROVE  AcceptFrame \/ AcceptStep
  BY <1>18, <1>i
     DEF CloseEvents, AcceptFrame, AcceptDue, SocketsOK, Goto, Leave, TclFree, TclCalls,
         CtFree, Threads, ThreadsOK, Places, At, sockVars
<1>19. ASSUME NEW c \in Clients, NEW m \in SUBSET {"R", "W"}, Watch(c, m)
      PROVE  AcceptFrame \/ AcceptStep
  BY <1>19, <1>i
     DEF Watch, AcceptFrame, AcceptDue, SocketsOK, Goto, Leave, TclFree, TclCalls,
         CtFree, Threads, ThreadsOK, Places, At, sockVars
<1>20. ASSUME NEW c \in Clients, Input(c)
      PROVE  AcceptFrame \/ AcceptStep
  BY <1>20, <1>i
     DEF Input, AcceptFrame, AcceptDue, SocketsOK, Goto, Leave, TclFree, TclCalls,
         CtFree, Threads, ThreadsOK, Places, At, sockVars
<1>21. ASSUME NEW c \in Clients, Output(c)
      PROVE  AcceptFrame \/ AcceptStep
  BY <1>21, <1>i
     DEF Output, AcceptFrame, AcceptDue, SocketsOK, Goto, Leave, TclFree, TclCalls,
         CtFree, Threads, ThreadsOK, Places, At, sockVars
<1>22. ASSUME NEW s \in Sockets, Close(s)
      PROVE  AcceptFrame \/ AcceptStep
  BY <1>22, <1>i
     DEF Close, AcceptFrame, AcceptDue, SocketsOK, Goto, Leave, TclFree, TclCalls,
         CtFree, Threads, ThreadsOK, Places, At, sockVars
<1>23. ASSUME NEW c \in Clients, Received(c)
      PROVE  AcceptFrame \/ AcceptStep
  BY <1>23, <1>i
     DEF Received, AcceptFrame, AcceptDue, SocketsOK, Goto, Leave, TclFree, TclCalls,
         CtFree, Threads, ThreadsOK, Places, At, sockVars
<1>24. ASSUME NEW c \in Clients, Connected(c)
      PROVE  AcceptFrame \/ AcceptStep
  BY <1>24, <1>i
     DEF Connected, AcceptFrame, AcceptDue, SocketsOK, Goto, Leave, TclFree, TclCalls,
         CtFree, Threads, ThreadsOK, Places, At, sockVars
<1>25. ASSUME NEW c \in Clients, Sent(c)
      PROVE  AcceptFrame \/ AcceptStep
  BY <1>25, <1>i
     DEF Sent, AcceptFrame, AcceptDue, SocketsOK, Goto, Leave, TclFree, TclCalls, CtFree,
         Threads, ThreadsOK, Places, At, sockVars
<1>26. ASSUME NEW l \in Listeners, Accepted(l)
      PROVE  AcceptFrame \/ AcceptStep
  BY <1>26 DEF AcceptStep
<1>27. ASSUME NEW s \in Sockets, Free(s)
      PROVE  AcceptFrame \/ AcceptStep
  BY <1>27, <1>i
     DEF Free, AcceptFrame, AcceptDue, SocketsOK, Goto, Leave, TclFree, TclCalls, CtFree,
         Threads, ThreadsOK, Places, At, sockVars
<1>28. ASSUME ReceivedTest
      PROVE  AcceptFrame \/ AcceptStep
  BY <1>28, <1>i
     DEF ReceivedTest, AcceptFrame, AcceptDue, SocketsOK, Goto, Leave, TclFree, TclCalls,
         CtFree, Threads, ThreadsOK, Places, At, sockVars
<1>29. ASSUME SentTest
      PROVE  AcceptFrame \/ AcceptStep
  BY <1>29, <1>i
     DEF SentTest, AcceptFrame, AcceptDue, SocketsOK, Goto, Leave, TclFree, TclCalls,
         CtFree, Threads, ThreadsOK, Places, At, sockVars
<1>30. ASSUME FreeUnlink
      PROVE  AcceptFrame \/ AcceptStep
  BY <1>30, <1>i
     DEF FreeUnlink, AcceptFrame, AcceptDue, SocketsOK, Goto, Leave, TclFree, TclCalls,
         CtFree, Threads, ThreadsOK, Places, At, sockVars
<1>31. ASSUME NEW b \in BOOLEAN, Wake(b)
      PROVE  AcceptFrame \/ AcceptStep
  BY <1>31, <1>i
     DEF Wake, AcceptFrame, AcceptDue, SocketsOK, Goto, Leave, TclFree, TclCalls, CtFree,
         Threads, ThreadsOK, Places, At, sockVars
<1>32. ASSUME NEW c \in Clients, OutputUndo(c)
      PROVE  AcceptFrame \/ AcceptStep
  BY <1>32, <1>i
     DEF OutputUndo, AcceptFrame, AcceptDue, SocketsOK, Goto, Leave, TclFree, TclCalls,
         CtFree, Threads, ThreadsOK, Places, At, sockVars
<1>33. ASSUME NEW c \in Clients, OutputWatch(c)
      PROVE  AcceptFrame \/ AcceptStep
  BY <1>33, <1>i
     DEF OutputWatch, AcceptFrame, AcceptDue, SocketsOK, Goto, Leave, TclFree, TclCalls,
         CtFree, Threads, ThreadsOK, Places, At, sockVars
<1> QED
  BY <1>1, <1>2, <1>3, <1>4, <1>5, <1>6, <1>7, <1>8, <1>9, <1>10, <1>11, <1>12, <1>13,
     <1>14, <1>15, <1>16, <1>17, <1>18, <1>19, <1>20, <1>21, <1>22, <1>23, <1>24, <1>25,
     <1>26, <1>27, <1>28, <1>29, <1>30, <1>31, <1>32, <1>33
     DEF TclLoop, TclStep, TclCall, CtTake, CtStep, Threads

LEMMA InputFrames ==
  ASSUME TypeOK, Places, Running /\ (TclLoop \/ TclStep \/ TclCall \/ CtTake \/ CtStep)
  PROVE  InputFrame \/ InputStep
<1>i. /\ ThreadsOK /\ Places /\ SocketsOK /\ Clients \subseteq Sockets /\ Listeners \subseteq Sockets
      /\ Listeners \cap Clients = {}
  BY TypeParts, SocketsAssumption DEF Sockets
<1>1. ASSUME NEW t \in Threads, ZapMark(t)
      PROVE  InputFrame \/ InputStep
  BY <1>1, <1>i
     DEF ZapMark, InputFrame, InputDue, SocketsOK, Goto, Leave, TclFree, TclCalls,
         CtFree, Threads, ThreadsOK, Places, At, sockVars
<1>2. ASSUME NEW t \in Threads, ZapPush(t)
      PROVE  InputFrame \/ InputStep
  BY <1>2, <1>i
     DEF ZapPush, InputFrame, InputDue, SocketsOK, Goto, Leave, TclFree, TclCalls,
         CtFree, Threads, ThreadsOK, Places, At, sockVars
<1>3. ASSUME NEW t \in Threads, ZapAlert(t)
      PROVE  InputFrame \/ InputStep
  BY <1>3, <1>i
     DEF ZapAlert, InputFrame, InputDue, SocketsOK, Goto, Leave, TclFree, TclCalls,
         CtFree, Threads, ThreadsOK, Places, At, sockVars
<1>4. ASSUME EventSetup
      PROVE  InputFrame \/ InputStep
  BY <1>4, <1>i
     DEF EventSetup, InputFrame, InputDue, SocketsOK, Goto, Leave, TclFree, TclCalls,
         CtFree, Threads, ThreadsOK, Places, At, sockVars
<1>5. ASSUME CheckBegin
      PROVE  InputFrame \/ InputStep
  BY <1>5, <1>i
     DEF CheckBegin, InputFrame, InputDue, SocketsOK, Goto, Leave, TclFree, TclCalls,
         CtFree, Threads, ThreadsOK, Places, At, sockVars
<1>6. ASSUME CheckPop
      PROVE  InputFrame \/ InputStep
  BY <1>6, <1>i
     DEF CheckPop, InputFrame, InputDue, SocketsOK, Goto, Leave, TclFree, TclCalls,
         CtFree, Threads, ThreadsOK, Places, At, sockVars
<1>7. ASSUME CheckChannel
      PROVE  InputFrame \/ InputStep
  BY <1>7, <1>i
     DEF CheckChannel, InputFrame, InputDue, SocketsOK, Goto, Leave, TclFree, TclCalls,
         CtFree, Threads, ThreadsOK, Places, At, sockVars
<1>8. ASSUME CheckEnd
      PROVE  InputFrame \/ InputStep
  BY <1>8, <1>i
     DEF CheckEnd, InputFrame, InputDue, SocketsOK, Goto, Leave, TclFree, TclCalls,
         CtFree, Threads, ThreadsOK, Places, At, sockVars
<1>9. ASSUME NEW c \in Clients, ServiceClient(c)
      PROVE  InputFrame \/ InputStep
  BY <1>9, <1>i
     DEF ServiceClient, InputFrame, InputDue, SocketsOK, Goto, Leave, TclFree, TclCalls,
         CtFree, Threads, ThreadsOK, Places, At, sockVars
<1>10. ASSUME NEW c \in Clients, ClientReturn(c)
      PROVE  InputFrame \/ InputStep
  BY <1>10 DEF InputStep, Asking
<1>11. ASSUME NEW l \in Listeners, ServiceListener(l)
      PROVE  InputFrame \/ InputStep
  BY <1>11, <1>i
     DEF ServiceListener, InputFrame, InputDue, SocketsOK, Goto, Leave, TclFree,
         TclCalls, CtFree, Threads, ThreadsOK, Places, At, sockVars
<1>12. ASSUME NEW l \in Listeners, ListenerReturn(l)
      PROVE  InputFrame \/ InputStep
  BY <1>12, <1>i
     DEF ListenerReturn, InputFrame, InputDue, SocketsOK, Goto, Leave, TclFree, TclCalls,
         CtFree, Threads, ThreadsOK, Places, At, sockVars
<1>13. ASSUME Requeue
      PROVE  InputFrame \/ InputStep
  BY <1>13, <1>i
     DEF Requeue, InputFrame, InputDue, SocketsOK, Goto, Leave, TclFree, TclCalls,
         CtFree, Threads, ThreadsOK, Places, At, sockVars
<1>14. ASSUME WatchTest
      PROVE  InputFrame \/ InputStep
  BY <1>14 DEF InputStep, Asking
<1>15. ASSUME NEW c \in Clients, OutputTest(c)
      PROVE  InputFrame \/ InputStep
  BY <1>15, <1>i
     DEF OutputTest, InputFrame, InputDue, SocketsOK, Goto, Leave, TclFree, TclCalls,
         CtFree, Threads, ThreadsOK, Places, At, sockVars
<1>16. ASSUME CloseFlag
      PROVE  InputFrame \/ InputStep
  BY <1>16, <1>i
     DEF CloseFlag, InputFrame, InputDue, SocketsOK, Goto, Leave, TclFree, TclCalls,
         CtFree, Threads, ThreadsOK, Places, At, sockVars
<1>17. ASSUME ClosePop
      PROVE  InputFrame \/ InputStep
  BY <1>17, <1>i
     DEF ClosePop, InputFrame, InputDue, SocketsOK, Goto, Leave, TclFree, TclCalls,
         CtFree, Threads, ThreadsOK, Places, At, sockVars
<1>18. ASSUME CloseEvents
      PROVE  InputFrame \/ InputStep
  BY <1>18, <1>i
     DEF CloseEvents, InputFrame, InputDue, SocketsOK, Goto, Leave, TclFree, TclCalls,
         CtFree, Threads, ThreadsOK, Places, At, sockVars
<1>19. ASSUME NEW c \in Clients, NEW m \in SUBSET {"R", "W"}, Watch(c, m)
      PROVE  InputFrame \/ InputStep
  BY <1>19 DEF InputStep, Asking
<1>20. ASSUME NEW c \in Clients, Input(c)
      PROVE  InputFrame \/ InputStep
  BY <1>20, <1>i
     DEF Input, InputFrame, InputDue, SocketsOK, Goto, Leave, TclFree, TclCalls, CtFree,
         Threads, ThreadsOK, Places, At, sockVars
<1>21. ASSUME NEW c \in Clients, Output(c)
      PROVE  InputFrame \/ InputStep
  BY <1>21, <1>i
     DEF Output, InputFrame, InputDue, SocketsOK, Goto, Leave, TclFree, TclCalls, CtFree,
         Threads, ThreadsOK, Places, At, sockVars
<1>22. ASSUME NEW s \in Sockets, Close(s)
      PROVE  InputFrame \/ InputStep
  BY <1>22, <1>i
     DEF Close, InputFrame, InputDue, SocketsOK, Goto, Leave, TclFree, TclCalls, CtFree,
         Threads, ThreadsOK, Places, At, sockVars
<1>23. ASSUME NEW c \in Clients, Received(c)
      PROVE  InputFrame \/ InputStep
  BY <1>23 DEF InputStep, Asking
<1>24. ASSUME NEW c \in Clients, Connected(c)
      PROVE  InputFrame \/ InputStep
  BY <1>24 DEF InputStep, Asking
<1>25. ASSUME NEW c \in Clients, Sent(c)
      PROVE  InputFrame \/ InputStep
  BY <1>25, <1>i
     DEF Sent, InputFrame, InputDue, SocketsOK, Goto, Leave, TclFree, TclCalls, CtFree,
         Threads, ThreadsOK, Places, At, sockVars
<1>26. ASSUME NEW l \in Listeners, Accepted(l)
      PROVE  InputFrame \/ InputStep
  BY <1>26, <1>i
     DEF Accepted, InputFrame, InputDue, SocketsOK, Goto, Leave, TclFree, TclCalls,
         CtFree, Threads, ThreadsOK, Places, At, sockVars
<1>27. ASSUME NEW s \in Sockets, Free(s)
      PROVE  InputFrame \/ InputStep
  BY <1>27, <1>i
     DEF Free, InputFrame, InputDue, SocketsOK, Goto, Leave, TclFree, TclCalls, CtFree,
         Threads, ThreadsOK, Places, At, sockVars
<1>28. ASSUME ReceivedTest
      PROVE  InputFrame \/ InputStep
  BY <1>28 DEF InputStep, Asking
<1>29. ASSUME SentTest
      PROVE  InputFrame \/ InputStep
  BY <1>29, <1>i
     DEF SentTest, InputFrame, InputDue, SocketsOK, Goto, Leave, TclFree, TclCalls,
         CtFree, Threads, ThreadsOK, Places, At, sockVars
<1>30. ASSUME FreeUnlink
      PROVE  InputFrame \/ InputStep
  BY <1>30, <1>i
     DEF FreeUnlink, InputFrame, InputDue, SocketsOK, Goto, Leave, TclFree, TclCalls,
         CtFree, Threads, ThreadsOK, Places, At, sockVars
<1>31. ASSUME NEW b \in BOOLEAN, Wake(b)
      PROVE  InputFrame \/ InputStep
  BY <1>31, <1>i
     DEF Wake, InputFrame, InputDue, SocketsOK, Goto, Leave, TclFree, TclCalls, CtFree,
         Threads, ThreadsOK, Places, At, sockVars
<1>32. ASSUME NEW c \in Clients, OutputUndo(c)
      PROVE  InputFrame \/ InputStep
  BY <1>32, <1>i
     DEF OutputUndo, InputFrame, InputDue, SocketsOK, Goto, Leave, TclFree, TclCalls,
         CtFree, Threads, ThreadsOK, Places, At, sockVars
<1>33. ASSUME NEW c \in Clients, OutputWatch(c)
      PROVE  InputFrame \/ InputStep
  BY <1>33, <1>i
     DEF OutputWatch, InputFrame, InputDue, SocketsOK, Goto, Leave, TclFree, TclCalls,
         CtFree, Threads, ThreadsOK, Places, At, sockVars
<1> QED
  BY <1>1, <1>2, <1>3, <1>4, <1>5, <1>6, <1>7, <1>8, <1>9, <1>10, <1>11, <1>12, <1>13,
     <1>14, <1>15, <1>16, <1>17, <1>18, <1>19, <1>20, <1>21, <1>22, <1>23, <1>24, <1>25,
     <1>26, <1>27, <1>28, <1>29, <1>30, <1>31, <1>32, <1>33
     DEF TclLoop, TclStep, TclCall, CtTake, CtStep, Threads

LEMMA OutputFrames ==
  ASSUME TypeOK, Places, Running /\ (TclLoop \/ TclStep \/ TclCall \/ CtTake \/ CtStep)
  PROVE  OutputFrame \/ OutputStep
<1>i. /\ ThreadsOK /\ Places /\ SocketsOK /\ Clients \subseteq Sockets /\ Listeners \subseteq Sockets
      /\ Listeners \cap Clients = {}
  BY TypeParts, SocketsAssumption DEF Sockets
<1>1. ASSUME NEW t \in Threads, ZapMark(t)
      PROVE  OutputFrame \/ OutputStep
  BY <1>1, <1>i
     DEF ZapMark, OutputFrame, OutputDue, SocketsOK, Goto, Leave, TclFree, TclCalls,
         CtFree, Threads, ThreadsOK, Places, At, sockVars
<1>2. ASSUME NEW t \in Threads, ZapPush(t)
      PROVE  OutputFrame \/ OutputStep
  BY <1>2, <1>i
     DEF ZapPush, OutputFrame, OutputDue, SocketsOK, Goto, Leave, TclFree, TclCalls,
         CtFree, Threads, ThreadsOK, Places, At, sockVars
<1>3. ASSUME NEW t \in Threads, ZapAlert(t)
      PROVE  OutputFrame \/ OutputStep
  BY <1>3, <1>i
     DEF ZapAlert, OutputFrame, OutputDue, SocketsOK, Goto, Leave, TclFree, TclCalls,
         CtFree, Threads, ThreadsOK, Places, At, sockVars
<1>4. ASSUME EventSetup
      PROVE  OutputFrame \/ OutputStep
  BY <1>4, <1>i
     DEF EventSetup, OutputFrame, OutputDue, SocketsOK, Goto, Leave, TclFree, TclCalls,
         CtFree, Threads, ThreadsOK, Places, At, sockVars
<1>5. ASSUME CheckBegin
      PROVE  OutputFrame \/ OutputStep
  BY <1>5, <1>i
     DEF CheckBegin, OutputFrame, OutputDue, SocketsOK, Goto, Leave, TclFree, TclCalls,
         CtFree, Threads, ThreadsOK, Places, At, sockVars
<1>6. ASSUME CheckPop
      PROVE  OutputFrame \/ OutputStep
  BY <1>6, <1>i
     DEF CheckPop, OutputFrame, OutputDue, SocketsOK, Goto, Leave, TclFree, TclCalls,
         CtFree, Threads, ThreadsOK, Places, At, sockVars
<1>7. ASSUME CheckChannel
      PROVE  OutputFrame \/ OutputStep
  BY <1>7, <1>i
     DEF CheckChannel, OutputFrame, OutputDue, SocketsOK, Goto, Leave, TclFree, TclCalls,
         CtFree, Threads, ThreadsOK, Places, At, sockVars
<1>8. ASSUME CheckEnd
      PROVE  OutputFrame \/ OutputStep
  BY <1>8, <1>i
     DEF CheckEnd, OutputFrame, OutputDue, SocketsOK, Goto, Leave, TclFree, TclCalls,
         CtFree, Threads, ThreadsOK, Places, At, sockVars
<1>9. ASSUME NEW c \in Clients, ServiceClient(c)
      PROVE  OutputFrame \/ OutputStep
  BY <1>9, <1>i
     DEF ServiceClient, OutputFrame, OutputDue, SocketsOK, Goto, Leave, TclFree,
         TclCalls, CtFree, Threads, ThreadsOK, Places, At, sockVars
<1>10. ASSUME NEW c \in Clients, ClientReturn(c)
      PROVE  OutputFrame \/ OutputStep
  BY <1>10 DEF OutputStep, Asking
<1>11. ASSUME NEW l \in Listeners, ServiceListener(l)
      PROVE  OutputFrame \/ OutputStep
  BY <1>11, <1>i
     DEF ServiceListener, OutputFrame, OutputDue, SocketsOK, Goto, Leave, TclFree,
         TclCalls, CtFree, Threads, ThreadsOK, Places, At, sockVars
<1>12. ASSUME NEW l \in Listeners, ListenerReturn(l)
      PROVE  OutputFrame \/ OutputStep
  BY <1>12, <1>i
     DEF ListenerReturn, OutputFrame, OutputDue, SocketsOK, Goto, Leave, TclFree,
         TclCalls, CtFree, Threads, ThreadsOK, Places, At, sockVars
<1>13. ASSUME Requeue
      PROVE  OutputFrame \/ OutputStep
  BY <1>13, <1>i
     DEF Requeue, OutputFrame, OutputDue, SocketsOK, Goto, Leave, TclFree, TclCalls,
         CtFree, Threads, ThreadsOK, Places, At, sockVars
<1>14. ASSUME WatchTest
      PROVE  OutputFrame \/ OutputStep
  BY <1>14 DEF OutputStep, Asking
<1>15. ASSUME NEW c \in Clients, OutputTest(c)
      PROVE  OutputFrame \/ OutputStep
  BY <1>15, <1>i
     DEF OutputTest, OutputFrame, OutputDue, SocketsOK, Goto, Leave, Threads, ThreadsOK, At,
         sockVars
<1>16. ASSUME CloseFlag
      PROVE  OutputFrame \/ OutputStep
  BY <1>16, <1>i
     DEF CloseFlag, OutputFrame, OutputDue, SocketsOK, Goto, Leave, TclFree, TclCalls,
         CtFree, Threads, ThreadsOK, Places, At, sockVars
<1>17. ASSUME ClosePop
      PROVE  OutputFrame \/ OutputStep
  BY <1>17, <1>i
     DEF ClosePop, OutputFrame, OutputDue, SocketsOK, Goto, Leave, TclFree, TclCalls,
         CtFree, Threads, ThreadsOK, Places, At, sockVars
<1>18. ASSUME CloseEvents
      PROVE  OutputFrame \/ OutputStep
  BY <1>18, <1>i
     DEF CloseEvents, OutputFrame, OutputDue, SocketsOK, Goto, Leave, TclFree, TclCalls,
         CtFree, Threads, ThreadsOK, Places, At, sockVars
<1>19. ASSUME NEW c \in Clients, NEW m \in SUBSET {"R", "W"}, Watch(c, m)
      PROVE  OutputFrame \/ OutputStep
  BY <1>19 DEF OutputStep, Asking
<1>20. ASSUME NEW c \in Clients, Input(c)
      PROVE  OutputFrame \/ OutputStep
  BY <1>20, <1>i
     DEF Input, OutputFrame, OutputDue, SocketsOK, Goto, Leave, TclFree, TclCalls,
         CtFree, Threads, ThreadsOK, Places, At, sockVars
<1>21. ASSUME NEW c \in Clients, Output(c)
      PROVE  OutputFrame \/ OutputStep
  BY <1>21 DEF OutputStep, Asking
<1>22. ASSUME NEW s \in Sockets, Close(s)
      PROVE  OutputFrame \/ OutputStep
  BY <1>22, <1>i
     DEF Close, OutputFrame, OutputDue, SocketsOK, Goto, Leave, TclFree, TclCalls,
         CtFree, Threads, ThreadsOK, Places, At, sockVars
<1>23. ASSUME NEW c \in Clients, Received(c)
      PROVE  OutputFrame \/ OutputStep
  BY <1>23, <1>i
     DEF Received, OutputFrame, OutputDue, SocketsOK, Goto, Leave, TclFree, TclCalls,
         CtFree, Threads, ThreadsOK, Places, At, sockVars
<1>24. ASSUME NEW c \in Clients, Connected(c)
      PROVE  OutputFrame \/ OutputStep
  BY <1>24 DEF OutputStep, Asking
<1>25. ASSUME NEW c \in Clients, Sent(c)
      PROVE  OutputFrame \/ OutputStep
  BY <1>25 DEF OutputStep, Asking
<1>26. ASSUME NEW l \in Listeners, Accepted(l)
      PROVE  OutputFrame \/ OutputStep
  BY <1>26, <1>i
     DEF Accepted, OutputFrame, OutputDue, SocketsOK, Goto, Leave, TclFree, TclCalls,
         CtFree, Threads, ThreadsOK, Places, At, sockVars
<1>27. ASSUME NEW s \in Sockets, Free(s)
      PROVE  OutputFrame \/ OutputStep
  BY <1>27, <1>i
     DEF Free, OutputFrame, OutputDue, SocketsOK, Goto, Leave, TclFree, TclCalls, CtFree,
         Threads, ThreadsOK, Places, At, sockVars
<1>28. ASSUME ReceivedTest
      PROVE  OutputFrame \/ OutputStep
  BY <1>28, <1>i
     DEF ReceivedTest, OutputFrame, OutputDue, SocketsOK, Goto, Leave, TclFree, TclCalls,
         CtFree, Threads, ThreadsOK, Places, At, sockVars
<1>29. ASSUME SentTest
      PROVE  OutputFrame \/ OutputStep
  BY <1>29 DEF OutputStep, Asking
<1>30. ASSUME FreeUnlink
      PROVE  OutputFrame \/ OutputStep
  BY <1>30, <1>i
     DEF FreeUnlink, OutputFrame, OutputDue, SocketsOK, Goto, Leave, TclFree, TclCalls,
         CtFree, Threads, ThreadsOK, Places, At, sockVars
<1>31. ASSUME NEW b \in BOOLEAN, Wake(b)
      PROVE  OutputFrame \/ OutputStep
  BY <1>31, <1>i
     DEF Wake, OutputFrame, OutputDue, SocketsOK, Goto, Leave, TclFree, TclCalls, CtFree,
         Threads, ThreadsOK, Places, At, sockVars
<1>32. ASSUME NEW c \in Clients, OutputUndo(c)
      PROVE  OutputFrame \/ OutputStep
  BY <1>32 DEF OutputStep, Asking
<1>33. ASSUME NEW c \in Clients, OutputWatch(c)
      PROVE  OutputFrame \/ OutputStep
  BY <1>33 DEF OutputStep, Asking
<1> QED
  BY <1>1, <1>2, <1>3, <1>4, <1>5, <1>6, <1>7, <1>8, <1>9, <1>10, <1>11, <1>12, <1>13,
     <1>14, <1>15, <1>16, <1>17, <1>18, <1>19, <1>20, <1>21, <1>22, <1>23, <1>24, <1>25,
     <1>26, <1>27, <1>28, <1>29, <1>30, <1>31, <1>32, <1>33
     DEF TclLoop, TclStep, TclCall, CtTake, CtStep, Threads

\* A service or a return is about one socket; the others keep what is coming.
LEMMA ServedOne ==
  ASSUME TypeOK, NEW y \in Sockets,
         ServiceClient(y) \/ ClientReturn(y) \/ ServiceListener(y) \/ ListenerReturn(y)
  PROVE  /\ pc["tcl"] = "idle"
         /\ \A x \in Sockets : x # y /\ ComingTo(x) => ComingTo(x)'
         /\ \A x, p : At("ct", p, x) => At("ct", p, x)'
<1>i. ThreadsOK /\ evq \in Seq(Sockets) /\ "tcl" \in Threads /\ "ct" \in Threads
  BY TypeParts DEF ListsOK, Threads
<1>1. CASE ServiceClient(y) \/ ServiceListener(y)
  <2>1. /\ pc["tcl"] = "idle" /\ running = None /\ evq # <<>> /\ Head(evq) = y
        /\ evq' = Tail(evq) /\ UNCHANGED <<chains, pc, sock>>
    BY <1>1 DEF ServiceClient, ServiceListener, TclFree, listVars, readySockets
  <2>2. None \notin Sockets
    BY SocketsAssumption
  <2>3. \A x : In(evq, x) => In(evq', x) \/ x = y
    BY <2>1, <1>i, Tailed
  <2> QED BY <2>1, <2>2, <2>3 DEF ComingTo, At
<1>2. CASE ClientReturn(y) \/ ListenerReturn(y)
  <2>1. /\ pc["tcl"] = "idle" /\ running = y /\ UNCHANGED <<chains, evq>>
        /\ \E p \in TclAt : \E s : Goto("tcl", p, s)
    BY <1>2 DEF ClientReturn, ListenerReturn, listVars, readySockets, Leave, TclAt
  <2>2. pc'["ct"] = pc["ct"] /\ sock'["ct"] = sock["ct"]
    BY <2>1, <1>i DEF Goto, ThreadsOK
  <2> QED BY <2>1, <2>2 DEF ComingTo, At
<1> QED BY <1>1, <1>2

AcceptSafe(x) == AcceptDue(x) => ComingTo(x) \/ At("tcl", {"requeue"}, x)
InputSafe(x) ==
  InputDue(x) => ComingTo(x) \/ At("tcl", {"watchTest"}, x) \/ At("ct", {"recvTest"}, x)
OutputSafe(x) ==
  OutputDue(x) =>
    \/ ComingTo(x) \/ At("tcl", {"outWatch", "watchTest"}, x)
    \/ At("ct", {"sentTest"}, x) /\ sends[x] + 1 >= cap[x]

LEMMA SafeIs ==
  /\ AcceptComing <=> \A x \in Listeners : AcceptSafe(x)
  /\ InputComing <=> \A x \in Clients : InputSafe(x)
  /\ OutputComing <=> \A x \in Clients : OutputSafe(x)
BY ComingIs DEF AcceptComing, AcceptSafe, InputComing, InputSafe, OutputComing, OutputSafe

LEMMA SafeIsNext ==
  /\ AcceptComing' <=> \A x \in Listeners : AcceptSafe(x)'
  /\ InputComing' <=> \A x \in Clients : InputSafe(x)'
  /\ OutputComing' <=> \A x \in Clients : OutputSafe(x)'
BY ComingIs DEF AcceptComing, AcceptSafe, InputComing, InputSafe, OutputComing, OutputSafe

\* What is due of the socket that is served is being served.
LEMMA ServingIsSafe ==
  ASSUME IInv, Serving
  PROVE  /\ \A x \in Listeners : AcceptSafe(x)'
         /\ \A x \in Clients : InputSafe(x)' /\ OutputSafe(x)'
<1>i. /\ TypeOK /\ ThreadsOK /\ SocketsOK /\ "tcl" \in Threads
      /\ Clients \subseteq Sockets /\ Listeners \subseteq Sockets /\ Listeners \cap Clients = {}
      /\ \A x \in Listeners : AcceptSafe(x)
      /\ \A x \in Clients : InputSafe(x) /\ OutputSafe(x)
  BY TypeParts, SafeIs, SocketsAssumption DEF IInv, Sockets, Threads
<1> USE DEF AcceptSafe, InputSafe, OutputSafe, AcceptDue, InputDue, OutputDue
<1>1. ASSUME NEW c \in Clients, ServiceClient(c)
      PROVE  /\ \A x \in Listeners : AcceptSafe(x)'
             /\ \A x \in Clients : InputSafe(x)' /\ OutputSafe(x)'
  <2>1. UNCHANGED <<st, conn, mask, recvs, sends, cap, accepts>>
    BY <1>1 DEF ServiceClient, sockVars
  <2>2. /\ \A x \in Sockets : x # c /\ ComingTo(x) => ComingTo(x)'
        /\ \A x : ~ At("tcl", {"requeue"}, x) /\ ~ At("tcl", {"watchTest"}, x)
        /\ \A x : ~ At("tcl", {"outWatch", "watchTest"}, x)
        /\ \A x, p : At("ct", p, x) => At("ct", p, x)'
    BY <1>1, <1>i, ServedOne DEF At
  <2>3. InputDue(c) \/ OutputDue(c) => ComingTo(c)'
    BY <1>1 DEF ServiceClient, ComingTo, HasInput, CanSend, HasList
  <2> QED BY <2>1, <2>2, <2>3, <1>i
<1>2. ASSUME NEW l \in Listeners, ServiceListener(l)
      PROVE  /\ \A x \in Listeners : AcceptSafe(x)'
             /\ \A x \in Clients : InputSafe(x)' /\ OutputSafe(x)'
  <2>1. UNCHANGED <<st, conn, mask, recvs, sends, cap>>
        /\ \A x \in Sockets : x # l => accepts'[x] = accepts[x]
    BY <1>2, <1>i DEF ServiceListener, SocketsOK
  <2>2. /\ \A x \in Sockets : x # l /\ ComingTo(x) => ComingTo(x)'
        /\ \A x : ~ At("tcl", {"requeue"}, x) /\ ~ At("tcl", {"watchTest"}, x)
        /\ \A x : ~ At("tcl", {"outWatch", "watchTest"}, x)
        /\ \A x, p : At("ct", p, x) => At("ct", p, x)'
    BY <1>2, <1>i, ServedOne DEF At
  <2>3. AcceptDue(l)' => ComingTo(l)'
    BY <1>2 DEF ServiceListener, ComingTo
  <2> QED BY <2>1, <2>2, <2>3, <1>i
<1>3. ASSUME NEW c \in Clients, ClientReturn(c)
      PROVE  /\ \A x \in Listeners : AcceptSafe(x)'
             /\ \A x \in Clients : InputSafe(x)' /\ OutputSafe(x)'
  <2>1. UNCHANGED <<st, conn, recvs, sends, cap, accepts>>
        /\ \A x \in Sockets : x # c => mask'[x] = mask[x]
    BY <1>3, <1>i DEF ClientReturn, SocketsOK
  <2>2. /\ \A x \in Sockets : x # c /\ ComingTo(x) => ComingTo(x)'
        /\ \A x : ~ At("tcl", {"requeue"}, x) /\ ~ At("tcl", {"watchTest"}, x)
        /\ \A x : ~ At("tcl", {"outWatch", "watchTest"}, x)
        /\ \A x, p : At("ct", p, x) => At("ct", p, x)'
    BY <1>3, <1>i, ServedOne DEF At
  <2>3. InputDue(c)' \/ OutputDue(c)' =>
          At("tcl", {"watchTest"}, c)' /\ At("tcl", {"outWatch", "watchTest"}, c)'
    <3>1. ASSUME st[c] = "open", NEW m \in SUBSET {"R", "W"}, m # {},
                 Goto("tcl", "watchTest", c)
          PROVE  At("tcl", {"watchTest"}, c)' /\ At("tcl", {"outWatch", "watchTest"}, c)'
      BY <3>1, <1>i DEF At, Goto, ThreadsOK
    <3>2. ASSUME mask' = [mask EXCEPT ![c] = {}]
          PROVE  ~ InputDue(c)' /\ ~ OutputDue(c)'
      BY <3>2, <1>i DEF SocketsOK
    <3>3. st[c] # "open" => ~ InputDue(c)' /\ ~ OutputDue(c)'
      BY <2>1
    <3> HIDE DEF InputDue, OutputDue
    <3>4. \/ st[c] # "open"
          \/ \E m \in SUBSET {"R", "W"} :
               /\ st[c] = "open" /\ mask' = [mask EXCEPT ![c] = m]
               /\ m = {} \/ (m # {} /\ Goto("tcl", "watchTest", c))
      BY <1>3 DEF ClientReturn
    <3> QED BY <3>1, <3>2, <3>3, <3>4
  <2> QED BY <2>1, <2>2, <2>3, <1>i
<1>4. ASSUME NEW l \in Listeners, ListenerReturn(l)
      PROVE  /\ \A x \in Listeners : AcceptSafe(x)'
             /\ \A x \in Clients : InputSafe(x)' /\ OutputSafe(x)'
  <2>1. UNCHANGED <<st, conn, mask, recvs, sends, cap, accepts>>
    BY <1>4 DEF ListenerReturn, sockVars
  <2>2. /\ \A x \in Sockets : x # l /\ ComingTo(x) => ComingTo(x)'
        /\ \A x : ~ At("tcl", {"requeue"}, x) /\ ~ At("tcl", {"watchTest"}, x)
        /\ \A x : ~ At("tcl", {"outWatch", "watchTest"}, x)
        /\ \A x, p : At("ct", p, x) => At("ct", p, x)'
    BY <1>4, <1>i, ServedOne DEF At
  <2>3. At("tcl", {"requeue"}, l)'
    BY <1>4, <1>i DEF ListenerReturn, Goto, ThreadsOK, At
  <2> QED BY <2>1, <2>2, <2>3, <1>i
<1> QED BY <1>1, <1>2, <1>3, <1>4 DEF Serving

\* IocpAcceptOne requeues the listener while connections wait.
LEMMA AcceptStays ==
  ASSUME IInv, Carried,
         Running /\ (TclLoop \/ TclStep \/ TclCall \/ CtTake \/ CtStep)
  PROVE  \A x \in Listeners : AcceptSafe(x)'
<1>i. /\ TypeOK /\ Places /\ ThreadsOK /\ SocketsOK /\ ListsOK /\ MarkIsBacked
      /\ "tcl" \in Threads /\ "ct" \in Threads /\ Listeners \subseteq Sockets
      /\ \A x \in Listeners : AcceptSafe(x)
  BY TypeParts, SafeIs DEF IInv, Sockets, Threads
<1>1. \A x \in Sockets : AcceptDue(x)' => st'[x] = "open"
  BY DEF AcceptDue
<1>2. CASE AcceptFrame
  BY <1>1, <1>2, <1>i DEF AcceptFrame, Carried, AcceptSafe
<1>3. ASSUME NEW l \in Listeners, Accepted(l)
      PROVE  \A x \in Listeners : AcceptSafe(x)'
  <2>1. /\ st' = st /\ accepts' = [accepts EXCEPT ![l] = @ + 1]
        /\ pc["ct"] = "idle" /\ Goto("ct", "zap", l)
    BY <1>3 DEF Accepted, CtFree
  <2>2. ComingTo(l)'
    BY <2>1, <1>i DEF ComingTo, At, Goto, ThreadsOK
  <2>3. \A x \in Sockets : x # l => /\ AcceptDue(x)' => AcceptDue(x)
                                    /\ At("tcl", {"requeue"}, x) => At("tcl", {"requeue"}, x)'
    BY <2>1, <1>i DEF AcceptDue, SocketsOK, At, Goto, ThreadsOK
  <2> QED BY <2>2, <2>3, <1>1, <1>i DEF Carried, AcceptSafe
<1>4. CASE Requeue
  <2>0. PICK l \in Sockets : l = sock["tcl"]
    BY <1>4, <1>i DEF Requeue, Places
  <2>1. /\ UNCHANGED <<st, accepts>> /\ l \in Sockets /\ pc["tcl"] = "requeue"
        /\ \A u \in Threads : pc[u] # "push"
        /\ \/ marked' = [marked EXCEPT ![l] = TRUE] /\ PushBack(l)
           \/ UNCHANGED chains /\ (st[l] = "freed" \/ ~ (accepts[l] > 0) \/ marked[l])
    BY <2>0, <1>4 DEF Requeue, sockVars, listVars, readySockets, LockFree
  <2>2. ASSUME AcceptDue(l)
        PROVE  ComingTo(l)'
    <3>1. CASE PushBack(l)
      <4>1. Links(chains', l)
        BY <2>1, <3>1, <1>i, PushAdds DEF ListsOK
      <4> QED BY <4>1 DEF ComingTo
    <3>2. CASE UNCHANGED chains /\ marked[l]
      <4>1. Linked(l)
        BY <2>1, <2>2, <3>2, <1>i DEF MarkIsBacked, Stray, Listed, Linked, AcceptDue
      <4> QED BY <3>2, <4>1, Lists DEF ComingTo
    <3> QED BY <2>1, <2>2, <3>1, <3>2 DEF AcceptDue
  <2>3. \A x \in Sockets : AcceptDue(x)' => AcceptDue(x)
    BY <2>1 DEF AcceptDue
  <2>4. \A x : x # l => ~ At("tcl", {"requeue"}, x)
    BY <2>0 DEF At
  <2> QED BY <2>2, <2>3, <2>4, <1>1, <1>i DEF Carried, AcceptSafe
<1> QED BY <1>2, <1>3, <1>4, <1>i, AcceptFrames DEF AcceptStep

\* IocpWatchProc sets the mask and then looks for input; OP_READ queues the input and
\* then looks at the mask.
LEMMA InputStays ==
  ASSUME IInv, Carried, ~ Serving,
         Running /\ (TclLoop \/ TclStep \/ TclCall \/ CtTake \/ CtStep)
  PROVE  \A x \in Clients : InputSafe(x)'
<1>i. /\ TypeOK /\ Places /\ ThreadsOK /\ SocketsOK
      /\ "tcl" \in Threads /\ "ct" \in Threads /\ Clients \subseteq Sockets
      /\ \A x \in Clients : InputSafe(x)
  BY TypeParts, SafeIs DEF IInv, Sockets, Threads
<1>1. \A x \in Sockets : InputDue(x)' => st'[x] = "open"
  BY DEF InputDue
<1>2. CASE InputFrame
  BY <1>1, <1>2, <1>i DEF InputFrame, Carried, InputSafe
<1>3. CASE WatchTest
  <2>0. PICK c \in Sockets : c = sock["tcl"]
    BY <1>3, <1>i DEF WatchTest, Places
  <2>1. UNCHANGED <<st, mask, recvs>> /\ pc["tcl"] = "watchTest"
    BY <1>3 DEF WatchTest, sockVars
  <2>2. InputDue(c) => ComingTo(c)'
    <3>1. InputDue(c) => Goto("tcl", "zap", c)
      BY <2>0, <1>3 DEF WatchTest, InputDue, HasInput
    <3> QED BY <3>1, <1>i DEF ComingTo, At, Goto, ThreadsOK
  <2>3. \A x \in Sockets : /\ InputDue(x)' => InputDue(x)
                           /\ At("ct", {"recvTest"}, x) => At("ct", {"recvTest"}, x)'
    BY <2>1, <1>3, <1>i DEF WatchTest, InputDue, At, Goto, Leave, ThreadsOK
  <2>4. \A x : x # c => ~ At("tcl", {"watchTest"}, x)
    BY <2>0 DEF At
  <2> QED BY <2>2, <2>3, <2>4, <1>1, <1>i DEF Carried, InputSafe
<1>4. ASSUME NEW c \in Clients, NEW m \in SUBSET {"R", "W"}, Watch(c, m)
      PROVE  \A x \in Clients : InputSafe(x)'
  <2>1. /\ UNCHANGED <<st, recvs>> /\ mask' = [mask EXCEPT ![c] = m] /\ pc["tcl"] = "idle"
        /\ \E p \in TclAt : \E s : Goto("tcl", p, s) /\ (m = {} \/ (p = "watchTest" /\ s = c))
    BY <1>4 DEF Watch, TclCalls, Leave, TclAt
  <2>2. InputDue(c)' => At("tcl", {"watchTest"}, c)'
    BY <2>1, <1>i DEF InputDue, SocketsOK, At, Goto, ThreadsOK
  <2>3. \A x \in Sockets : /\ x # c => (InputDue(x)' => InputDue(x))
                           /\ At("ct", {"recvTest"}, x) => At("ct", {"recvTest"}, x)'
                           /\ ~ At("tcl", {"watchTest"}, x)
    BY <2>1, <1>i DEF InputDue, SocketsOK, At, Goto, ThreadsOK
  <2> QED BY <2>2, <2>3, <1>1, <1>i DEF Carried, InputSafe
<1>5. CASE ReceivedTest
  <2>0. PICK c \in Sockets : c = sock["ct"]
    BY <1>5, <1>i DEF ReceivedTest, Places
  <2>1. UNCHANGED <<st, mask, recvs>> /\ pc["ct"] = "recvTest"
    BY <1>5 DEF ReceivedTest, sockVars
  <2>2. InputDue(c) => ComingTo(c)'
    <3>1. InputDue(c) => Goto("ct", "zap", c)
      BY <2>0, <1>5 DEF ReceivedTest, InputDue
    <3> QED BY <3>1, <1>i DEF ComingTo, At, Goto, ThreadsOK
  <2>3. \A x \in Sockets : /\ InputDue(x)' => InputDue(x)
                           /\ At("tcl", {"watchTest"}, x) => At("tcl", {"watchTest"}, x)'
    BY <2>1, <1>5, <1>i DEF ReceivedTest, InputDue, At, Goto, Leave, ThreadsOK
  <2>4. \A x : x # c => ~ At("ct", {"recvTest"}, x)
    BY <2>0 DEF At
  <2> QED BY <2>2, <2>3, <2>4, <1>1, <1>i DEF Carried, InputSafe
<1>6. ASSUME NEW c \in Clients, Received(c) \/ Connected(c)
      PROVE  \A x \in Clients : InputSafe(x)'
  <2>1. /\ UNCHANGED <<st, mask>> /\ \A x \in Sockets : x # c => recvs'[x] = recvs[x]
        /\ pc["ct"] = "idle" /\ \E p \in {"recvTest", "zap"} : Goto("ct", p, c)
    BY <1>6, <1>i DEF Received, Connected, CtFree, SocketsOK
  <2>2. At("ct", {"recvTest"}, c)' \/ ComingTo(c)'
    BY <2>1, <1>i DEF ComingTo, At, Goto, ThreadsOK
  <2>3. \A x \in Sockets : /\ x # c => (InputDue(x)' => InputDue(x))
                           /\ At("tcl", {"watchTest"}, x) => At("tcl", {"watchTest"}, x)'
                           /\ ~ At("ct", {"recvTest"}, x)
    BY <2>1, <1>i DEF InputDue, At, Goto, ThreadsOK
  <2> QED BY <2>2, <2>3, <1>1, <1>i DEF Carried, InputSafe
<1> QED BY <1>2, <1>3, <1>4, <1>5, <1>6, <1>i, InputFrames DEF InputStep, Asking, Serving

\* PostOverlappedSend counts first and tests then, OP_WRITE counts down and tests then.
LEMMA OutputStays ==
  ASSUME IInv, Carried, ~ Serving,
         Running /\ (TclLoop \/ TclStep \/ TclCall \/ CtTake \/ CtStep)
  PROVE  \A x \in Clients : OutputSafe(x)'
<1>i. /\ TypeOK /\ Places /\ ThreadsOK /\ SocketsOK
      /\ "tcl" \in Threads /\ "ct" \in Threads /\ Clients \subseteq Sockets
      /\ \A x \in Clients : OutputSafe(x)
  BY TypeParts, SafeIs DEF IInv, Sockets, Threads
<1>1. \A x \in Sockets : OutputDue(x)' => st'[x] = "open"
  BY DEF OutputDue
<1>2. CASE OutputFrame
  BY <1>1, <1>2, <1>i DEF OutputFrame, Carried, OutputSafe
<1>3. CASE WatchTest
  <2>0. PICK c \in Sockets : c = sock["tcl"]
    BY <1>3, <1>i DEF WatchTest, Places
  <2>1. UNCHANGED <<st, mask, sends, cap, conn>> /\ pc["tcl"] = "watchTest"
    BY <1>3 DEF WatchTest, sockVars
  <2>2. OutputDue(c) => ComingTo(c)'
    <3>1. OutputDue(c) => Goto("tcl", "zap", c)
      BY <2>0, <1>3 DEF WatchTest, OutputDue, CanSend, HasList
    <3> QED BY <3>1, <1>i DEF ComingTo, At, Goto, ThreadsOK
  <2>3. \A x \in Sockets : /\ OutputDue(x)' => OutputDue(x)
                           /\ At("ct", {"sentTest"}, x) => At("ct", {"sentTest"}, x)'
    BY <2>1, <1>3, <1>i DEF WatchTest, OutputDue, At, Goto, Leave, ThreadsOK
  <2>4. \A x : x # c => ~ At("tcl", {"outWatch", "watchTest"}, x)
    BY <2>0 DEF At
  <2> QED BY <2>1, <2>2, <2>3, <2>4, <1>1, <1>i DEF Carried, OutputSafe
<1>4. ASSUME NEW c \in Clients, NEW m \in SUBSET {"R", "W"}, Watch(c, m)
      PROVE  \A x \in Clients : OutputSafe(x)'
  <2>1. /\ UNCHANGED <<st, sends, cap, conn>> /\ mask' = [mask EXCEPT ![c] = m]
        /\ pc["tcl"] = "idle"
        /\ \E p \in TclAt : \E s : Goto("tcl", p, s) /\ (m = {} \/ (p = "watchTest" /\ s = c))
    BY <1>4 DEF Watch, TclCalls, Leave, TclAt
  <2>2. OutputDue(c)' => At("tcl", {"outWatch", "watchTest"}, c)'
    BY <2>1, <1>i DEF OutputDue, SocketsOK, At, Goto, ThreadsOK
  <2>3. \A x \in Sockets : /\ x # c => (OutputDue(x)' => OutputDue(x))
                           /\ At("ct", {"sentTest"}, x) => At("ct", {"sentTest"}, x)'
                           /\ ~ At("tcl", {"outWatch", "watchTest"}, x)
    BY <2>1, <1>i DEF OutputDue, SocketsOK, At, Goto, ThreadsOK
  <2> QED BY <2>1, <2>2, <2>3, <1>1, <1>i DEF Carried, OutputSafe
<1>5. CASE SentTest
  <2>0. PICK c \in Sockets : c = sock["ct"]
    BY <1>5, <1>i DEF SentTest, Places
  <2>1. /\ UNCHANGED <<st, mask, sends, conn>> /\ pc["ct"] = "sentTest"
        /\ \E p \in CtAt : \E s : Goto("ct", p, s)
    BY <1>5 DEF SentTest, Leave, CtAt
  <2>2. \/ cap' = cap /\ (OutputDue(c) => Goto("ct", "zap", c))
        \/ cap' = [cap EXCEPT ![c] = @ - 1]
    BY <2>0, <1>5 DEF SentTest, OutputDue
  <2>3. /\ \A x \in Sockets : OutputDue(x)' => OutputDue(x)
        /\ \A x : At("tcl", {"outWatch", "watchTest"}, x) => At("tcl", {"outWatch", "watchTest"}, x)'
        /\ \A x : x # c => ~ At("ct", {"sentTest"}, x)
    <3>1. ASSUME NEW x \in Sockets, OutputDue(x)'
          PROVE  OutputDue(x)
      <4>1. sends[x] \in Nat /\ cap[x] \in Nat /\ (cap'[x] = cap[x] \/ cap'[x] = cap[x] - 1)
        BY <2>2, <1>i DEF SocketsOK
      <4>2. sends[x] < cap'[x] => sends[x] < cap[x]
        BY <4>1
      <4> QED BY <3>1, <4>2, <2>1 DEF OutputDue
    <3>2. \A x : At("tcl", {"outWatch", "watchTest"}, x) => At("tcl", {"outWatch", "watchTest"}, x)'
      BY <2>1, <1>i DEF At, Goto, ThreadsOK
    <3>3. \A x : x # c => ~ At("ct", {"sentTest"}, x)
      BY <2>0 DEF At
    <3> QED BY <3>1, <3>2, <3>3
  <2>4. ASSUME OutputDue(c)', c \in Clients
        PROVE  ComingTo(c)' \/ At("tcl", {"outWatch", "watchTest"}, c)'
    <3>1. CASE Goto("ct", "zap", c)
      BY <3>1, <1>i DEF ComingTo, At, Goto, ThreadsOK
    <3>2. CASE cap' = [cap EXCEPT ![c] = @ - 1]
      <4>1. sends[c] \in Nat /\ cap[c] \in Nat /\ sends[c] < cap[c] - 1
        <5>1. sends[c] \in Nat /\ cap[c] \in Nat /\ cap'[c] = cap[c] - 1
          BY <3>2, <1>i DEF SocketsOK
        <5>2. sends'[c] = sends[c] /\ sends'[c] < cap'[c]
          BY <2>1, <2>4 DEF OutputDue
        <5> QED BY <5>1, <5>2
      <4>2. ~ (sends[c] + 1 >= cap[c])
        BY <4>1
      <4>3. OutputDue(c) /\ st'[c] = "open"
        BY <2>3, <2>4, <1>1
      <4>4. ComingTo(c) \/ At("tcl", {"outWatch", "watchTest"}, c)
        BY <4>2, <4>3, <2>4, <1>i DEF OutputSafe
      <4> QED BY <4>3, <4>4, <2>3 DEF Carried
    <3>3. OutputDue(c)
      BY <2>3, <2>4
    <3> QED BY <2>2, <3>1, <3>2, <3>3
  <2> QED BY <2>1, <2>3, <2>4, <1>1, <1>i DEF Carried, OutputSafe
<1>6. ASSUME NEW c \in Clients, Output(c)
      PROVE  \A x \in Clients : OutputSafe(x)'
  <2>1. /\ UNCHANGED <<st, mask, cap, conn>> /\ sends' = [sends EXCEPT ![c] = @ + 1]
        /\ pc["tcl"] = "idle" /\ Goto("tcl", "outTest", c)
    BY <1>6 DEF Output, TclCalls
  <2>2. \A x \in Sockets : /\ x # c => sends'[x] = sends[x]
                           /\ At("ct", {"sentTest"}, x) => At("ct", {"sentTest"}, x)'
                           /\ ~ At("tcl", {"outWatch", "watchTest"}, x)
    BY <2>1, <1>i DEF SocketsOK, At, Goto, ThreadsOK
  <2>3. ASSUME OutputDue(c)'
        PROVE  OutputDue(c) /\ ~ (sends[c] + 1 >= cap[c])
    <3>1. sends[c] \in Nat /\ cap[c] \in Nat /\ sends[c] + 1 < cap[c]
      BY <2>1, <2>3, <1>i DEF OutputDue, SocketsOK
    <3>2. sends[c] < cap[c] /\ ~ (sends[c] + 1 >= cap[c])
      BY <3>1
    <3> QED BY <3>2, <2>1, <2>3 DEF OutputDue
  <2>4. \A x \in Sockets : x # c => (OutputDue(x)' => OutputDue(x))
    BY <2>1, <2>2 DEF OutputDue
  <2> QED BY <2>1, <2>2, <2>3, <2>4, <1>1, <1>i DEF Carried, OutputSafe
<1>7. ASSUME NEW c \in Clients, OutputUndo(c)
      PROVE  \A x \in Clients : OutputSafe(x)'
  <2>1. /\ UNCHANGED <<st, mask, cap, conn>> /\ pc["tcl"] = "outUndo"
        /\ sends' = [sends EXCEPT ![c] = @ - 1] /\ Goto("tcl", "outWatch", c)
    BY <1>7 DEF OutputUndo
  <2>2. \A x \in Sockets : /\ x # c => sends'[x] = sends[x]
                           /\ At("ct", {"sentTest"}, x) => At("ct", {"sentTest"}, x)'
                           /\ ~ At("tcl", {"outWatch", "watchTest"}, x)
    BY <2>1, <1>i DEF SocketsOK, At, Goto, ThreadsOK
  <2>3. At("tcl", {"outWatch", "watchTest"}, c)'
    BY <2>1, <1>i DEF At, Goto, ThreadsOK
  <2>4. \A x \in Sockets : x # c => (OutputDue(x)' => OutputDue(x))
    BY <2>1, <2>2 DEF OutputDue
  <2> QED BY <2>1, <2>2, <2>3, <2>4, <1>1, <1>i DEF Carried, OutputSafe
<1>10. ASSUME NEW c \in Clients, OutputWatch(c)
      PROVE  \A x \in Clients : OutputSafe(x)'
  <2>1. /\ UNCHANGED <<st, sends, cap, conn>> /\ pc["tcl"] = "outWatch" /\ sock["tcl"] = c
        /\ mask' = [mask EXCEPT ![c] = @ \cup {"W"}] /\ Goto("tcl", "watchTest", c)
    BY <1>10 DEF OutputWatch
  <2>2. \A x \in Sockets : /\ x # c => mask'[x] = mask[x]
                           /\ At("ct", {"sentTest"}, x) => At("ct", {"sentTest"}, x)'
                           /\ x # c => ~ At("tcl", {"outWatch", "watchTest"}, x)
    BY <2>1, <1>i DEF SocketsOK, At, Goto, ThreadsOK
  <2>3. At("tcl", {"outWatch", "watchTest"}, c)'
    BY <2>1, <1>i DEF At, Goto, ThreadsOK
  <2>4. \A x \in Sockets : x # c => (OutputDue(x)' => OutputDue(x))
    BY <2>1, <2>2 DEF OutputDue
  <2> QED BY <2>1, <2>2, <2>3, <2>4, <1>1, <1>i DEF Carried, OutputSafe
<1>8. ASSUME NEW c \in Clients, Connected(c)
      PROVE  \A x \in Clients : OutputSafe(x)'
  <2>1. /\ UNCHANGED <<st, mask, sends, cap>> /\ pc["ct"] = "idle"
        /\ \/ conn' = [conn EXCEPT ![c] = "failed"] /\ Goto("ct", "recvTest", c)
           \/ conn' = [conn EXCEPT ![c] = "yes"] /\ Goto("ct", "zap", c)
    BY <1>8 DEF Connected, CtFree
  <2>2. OutputDue(c)' => ComingTo(c)'
    BY <2>1, <1>i DEF OutputDue, SocketsOK, ComingTo, At, Goto, ThreadsOK
  <2>3. \A x \in Sockets : /\ x # c => (OutputDue(x)' => OutputDue(x))
                           /\ At("tcl", {"outWatch", "watchTest"}, x) => At("tcl", {"outWatch", "watchTest"}, x)'
                           /\ ~ At("ct", {"sentTest"}, x)
    BY <2>1, <1>i DEF OutputDue, SocketsOK, At, Goto, ThreadsOK
  <2> QED BY <2>2, <2>3, <1>1, <1>i DEF Carried, OutputSafe
<1>9. ASSUME NEW c \in Clients, Sent(c)
      PROVE  \A x \in Clients : OutputSafe(x)'
  <2>1. /\ UNCHANGED <<st, mask, conn, cap>> /\ sends' = [sends EXCEPT ![c] = @ - 1]
        /\ pc["ct"] = "idle" /\ Goto("ct", "sentTest", c)
    BY <1>9 DEF Sent, CtFree
  <2>2. \A x \in Sockets : /\ x # c => sends'[x] = sends[x]
                           /\ At("tcl", {"outWatch", "watchTest"}, x) => At("tcl", {"outWatch", "watchTest"}, x)'
                           /\ ~ At("ct", {"sentTest"}, x)
    BY <2>1, <1>i DEF SocketsOK, At, Goto, ThreadsOK
  <2>3. At("ct", {"sentTest"}, c)'
    BY <2>1, <1>i DEF At, Goto, ThreadsOK
  <2>4. ASSUME OutputDue(c)'
        PROVE  OutputDue(c) \/ sends'[c] + 1 >= cap'[c]
    <3>1. sends[c] \in Nat /\ cap[c] \in Nat /\ sends'[c] = sends[c] - 1 /\ cap'[c] = cap[c]
      BY <2>1, <1>i DEF SocketsOK
    <3>2. sends[c] < cap[c] \/ sends'[c] + 1 >= cap'[c]
      BY <3>1
    <3> QED BY <3>2, <2>1, <2>4 DEF OutputDue
  <2>5. \A x \in Sockets : x # c => (OutputDue(x)' => OutputDue(x))
    BY <2>1, <2>2 DEF OutputDue
  <2> QED BY <2>2, <2>3, <2>4, <2>5, <1>1, <1>i DEF Carried, OutputSafe
<1> QED BY <1>2, <1>3, <1>4, <1>5, <1>6, <1>7, <1>8, <1>9, <1>10, <1>i, OutputFrames
    DEF OutputStep, Asking, Serving

-----------------------------------------------------------------------------
\* The theorems.

LEMMA InitHolds == Init => IInv
<1> SUFFICES ASSUME Init PROVE IInv
  OBVIOUS
<1>1. TypeOK
  <2>1. ThreadsOK
    BY DEF Init, ThreadsOK, Threads, TclAt, CtAt, Breaks
  <2>2. SocketsOK
    BY BoundsAssumption DEF Init, SocketsOK
  <2>3. ListsOK
    <3>1. <<>> \in Seq(Sockets)
      OBVIOUS
    <3> QED BY <3>1 DEF Init, ListsOK, ListTyped, Breaks
  <2> QED BY <2>1, <2>2, <2>3, TypeParts
<1>2. /\ chains = {} /\ front = None /\ lCount = 0 /\ evq = <<>> /\ \A t \in Threads : pc[t] = "idle"
      /\ \A s \in Sockets : st[s] \in {"open", "freed"} /\ mask[s] = {} /\ accepts[s] = 0
                            /\ ~ marked[s]
      /\ DOMAIN <<>> = {} /\ Clients \subseteq Sockets /\ Listeners \subseteq Sockets
      /\ "tcl" \in Threads /\ "ct" \in Threads
  BY DEF Init, Sockets, Threads
<1>3. Places /\ ListedOnce /\ MarkIsBacked /\ EventsAreForOpen /\ Asleep /\ Counted
      /\ SendCounted
  BY <1>2 DEF Places, At, ListedOnce, Linked, MarkIsBacked, EventsAreForOpen, Asleep, Counted,
          SendCounted
<1>4. AcceptComing /\ InputComing /\ OutputComing
  BY <1>2 DEF AcceptComing, AcceptDue, InputComing, InputDue, OutputComing, OutputDue
<1> QED BY <1>1, <1>3, <1>4 DEF IInv

LEMMA StepKeeps == IInv /\ [Next]_vars => IInv'
<1> SUFFICES ASSUME IInv, [Next]_vars PROVE IInv'
  OBVIOUS
<1>1. CASE UNCHANGED vars
  <2> USE <1>1 DEF vars, sockVars, listVars, readySockets
  <2>1. TypeOK'
    BY DEF IInv, TypeOK
  <2>2. Places' /\ Asleep' /\ Counted' /\ SendCounted'
    BY DEF IInv, Places, At, Asleep, Counted, SendCounted
  <2>3. ListedOnce' /\ MarkIsBacked' /\ EventsAreForOpen'
    BY DEF IInv, ListedOnce, MarkIsBacked, EventsAreForOpen, Stray, Listed, Linked, Pending, At
  <2>4. \A s : /\ Coming(s)' <=> Coming(s)
               /\ \A t, p : At(t, p, s)' <=> At(t, p, s)
    BY DEF Coming, Linked, Pending, At
  <2>5. AcceptComing' /\ InputComing' /\ OutputComing'
    BY <2>4
       DEF IInv, AcceptComing, AcceptDue, InputComing, InputDue, OutputComing, OutputDue
  <2> QED BY <2>1, <2>2, <2>3, <2>5 DEF IInv
<1>2. CASE Next
  <2>i. Running /\ (TclLoop \/ TclStep \/ TclCall \/ CtTake \/ CtStep)
    BY <1>2 DEF Next
  <2>1. TypeOK'
    BY <2>i, ThreadsStay, SocketsStay, ListsStay, TypePartsNext DEF IInv
  <2>2. Places'
    BY <2>i, PlacesStay DEF IInv
  <2>3. ListedOnce' /\ MarkIsBacked' /\ EventsAreForOpen'
    BY <2>i, <2>1, <2>2, MarksStay, EventsStay DEF IInv
  <2>4. Asleep' /\ Counted' /\ SendCounted'
    BY <2>i, AsleepStays, CountedStays, SendsStay DEF IInv
  <2>5. /\ \A x \in Listeners : AcceptSafe(x)'
        /\ \A x \in Clients : InputSafe(x)' /\ OutputSafe(x)'
    <3>1. CASE Serving
      BY <3>1, ServingIsSafe
    <3>2. CASE ~ Serving
      <4>1. Carried
        BY <2>i, <3>2, ComingStays DEF IInv
      <4> QED BY <2>i, <3>2, <4>1, AcceptStays, InputStays, OutputStays
    <3> QED BY <3>1, <3>2
  <2> QED BY <2>1, <2>2, <2>3, <2>4, <2>5, SafeIsNext DEF IInv
<1> QED BY <1>1, <1>2

\* IInv is an inductive invariant: ...
THEOREM Invariance == Spec => []IInv
BY InitHolds, StepKeeps, PTL DEF Spec

\* ... the types are right, no socket is on readySockets twice, and whatever is listed
\* is marked (IocpZapTclNotifier, IocpEventCheckProc, IocpAcceptOne, IocpLLPop);
THEOREM ListIsWellFormed == Spec => []WellFormed
<1>1. IInv => WellFormed
  BY DEF IInv, WellFormed
<1> QED BY <1>1, Invariance, PTL

\* an open socket that is marked is on the list or about to be, or the list was
\* emptied over it by the pop of FreeSocketInfo (Stray): in no other way does
\* markedReady silence a socket;
THEOREM MarksAreBacked == Spec => []MarkIsBacked
<1>1. IInv => MarkIsBacked
  BY DEF IInv
<1> QED BY <1>1, Invariance, PTL

\* no event is queued for a socket whose IocpClose2Proc is over;
THEOREM NoEventOutlives == Spec => []EventsAreForOpen
<1>1. IInv => EventsAreForOpen
  BY DEF IInv
<1> QED BY <1>1, Invariance, PTL

\* and no wake-up is lost: a Tcl thread that sleeps with no alert on its way, while
\* the completion thread is between two completions, has nothing to do but for
\* sockets that are stray.
THEOREM NoLostWakeup == Spec => []SleepsOnlyWhenIdle
<1>1. IInv => SleepsOnlyWhenIdle
  <2> SUFFICES ASSUME IInv, pc["tcl"] = "wait", ~ alert, pc["ct"] = "idle"
               PROVE  /\ lCount = 0 /\ front = None
                      /\ \A s \in Sockets : Wanted(s) => Stray(s)
    BY DEF SleepsOnlyWhenIdle
  <2>1. lCount = 0 /\ front = None /\ evq = <<>> /\ running = None
    BY DEF IInv, Asleep, Counted
  <2>2. \A s \in Sockets : Coming(s) => Linked(s)
    BY <2>1, SocketsAssumption DEF Coming, Pending, At, Threads
  <2>3. \A s : ~ At("tcl", {"requeue"}, s) /\ ~ At("tcl", {"outWatch", "watchTest"}, s)
               /\ ~ At("tcl", {"watchTest"}, s)
               /\ ~ At("ct", {"recvTest"}, s) /\ ~ At("ct", {"sentTest"}, s)
    BY DEF At
  <2>4. Clients \subseteq Sockets /\ Listeners \subseteq Sockets
    BY DEF Sockets
  <2>5. \A s \in Sockets : ~ Listed(s)
    <3>1. ASSUME NEW q \in chains, NEW i \in DOMAIN q
          PROVE  q[1] \in Sockets
      BY DEF IInv, TypeOK
    <3>2. None \notin Sockets
      BY SocketsAssumption
    <3> QED BY <2>1, <3>1, <3>2 DEF Listed, In
  <2>6. \A s \in Sockets : Wanted(s) => Coming(s)
    BY <2>3, <2>4
       DEF Wanted, IInv, AcceptComing, AcceptDue, InputComing, InputDue, HasInput,
           OutputComing, OutputDue, CanSend
  <2> QED BY <2>1, <2>2, <2>5, <2>6 DEF Stray
<1> QED BY <1>1, Invariance, PTL

=============================================================================
