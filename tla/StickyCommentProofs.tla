------------------------ MODULE StickyCommentProofs ------------------------
(***************************************************************************)
(* Safety of StickyComment for every set of deliveries, every number of    *)
(* pushes and comments, and every choice of faults.                        *)
(***************************************************************************)
EXTENDS StickyComment, WellFoundedInduction, TLAPS

Places == {"idle", "asked", "loading", "listing", "posting", "done"}

\* What a delivery has behind it where it is.
DeliveryInv ==
    \A d \in Deliveries :
        /\ pc[d] = "idle" => ref[d] = Main /\ ~applied[d]
        /\ pc[d] \in {"loading", "listing", "posting"} => command[d] # "none"
        /\ command[d] = "apply" => ref[d] = Main
        /\ command[d] = "apply" /\ pc[d] = "loading" => writer[d]
        /\ applied[d] => command[d] = "apply" /\ writer[d]
        /\ pc[d] = "asked" => command[d] \in {"apply", "recheck", "help"} /\ ref[d] = Main
        /\ pc[d] = "loading" /\ command[d] # "apply" => ref[d] # Main

\* A body speaks of the commit its delivery loaded, and a plan of a commit of
\* the pull request that was pushed.
Fits(b, h) == /\ b.about # Main => b.about <= h
              /\ b.says \in {"plan", "errors"} => b.about # Main

BodyInv ==
    /\ \A d \in Deliveries :
          /\ ref[d] # Main => ref[d] <= head
          /\ pc[d] \in {"listing", "posting"} => body[d].about = ref[d] /\ Fits(body[d], head)
    /\ \A i \in DOMAIN comments : Fits(comments[i].body, head)

\* No comment of the pull request has the plan of a newer commit.
Covers(n) ==
    \A i \in DOMAIN comments :
        comments[i].body.says \in {"plan", "errors"} => comments[i].body.about <= n

\* A delivery in hand alone is the only one, and unless it came late what it
\* loaded is as new as anything that was posted, whatever was pushed since.
AloneInv ==
    \A d \in Deliveries : alone[d] /\ d \in InHand =>
        /\ InHand = {d}
        /\ pc[d] # "asked" /\ ref[d] # Main /\ ~late[d] => Covers(ref[d])

\* A marked comment stays, so a delivery that found one edits one.
SeenInv ==
    \A d \in Deliveries : seen[d] =>
        /\ Marked # {}
        /\ pc[d] = "posting" => place[d] # 0

IInv == TypeOK /\ DeliveryInv /\ BodyInv /\ AloneInv /\ SeenInv

-----------------------------------------------------------------------------

\* What the constants are assumed to be.
LEMMA Bounds == /\ MaxPush \in Nat /\ 1 \in Commits /\ Commits \subseteq Nat
                /\ Main \notin Commits /\ Comments \in Nat
                /\ \A n \in Commits : 1 <= n
BY StickyAssumption DEF Commits

\* A set of numbers that has a member has a least one.
LEMMA LeastNumber ==
    ASSUME NEW S \in SUBSET Nat, S # {}
    PROVE  \E i \in S : \A j \in S : i <= j
<1> DEFINE less == OpToRel(<, Nat)
<1>1. \A i, j \in Nat : i < j => <<i, j>> \in less
  BY DEF OpToRel
<1>2. IsWellFoundedOn(less, Nat)
  BY NatLessThanWellFounded
<1> HIDE DEF less
<1>3. PICK i \in S : \A j \in S : ~(<<j, i>> \in less)
  BY <1>2, WFMin
<1>4. \A j \in S : ~(j < i)
  BY <1>1, <1>3
<1> QED
  BY <1>4

\* At the start there are only comments of people.
LEMMA InitInv == Init => IInv
<1> SUFFICES ASSUME Init PROVE IInv
  OBVIOUS
<1>1. Nothing \in Bodies /\ ByPerson \in [marked : BOOLEAN, body : Bodies]
  BY DEF Nothing, ByPerson, Bodies
<1>2. comments \in Seq([marked : BOOLEAN, body : Bodies])
  BY <1>1, Bounds DEF Init
<1>3. TypeOK
  BY <1>1, <1>2, Bounds DEF Init, TypeOK
<1>4. BodyInv
  BY DEF Init, BodyInv, Fits, ByPerson, Nothing
<1>5. DeliveryInv /\ AloneInv /\ SeenInv
  BY DEF Init, DeliveryInv, AloneInv, SeenInv, InHand
<1> QED
  BY <1>3, <1>4, <1>5 DEF IInv

\* A delivery takes its next step and touches no comment: it goes to a place,
\* with a commit loaded, a body, whether it applied, and a comment to edit.
Moves(d, to, n, b, a, i) ==
    /\ to \in Places \ {"idle", "asked"} /\ d \in InHand /\ pc' = [pc EXCEPT ![d] = to]
    /\ n \in Commits \union {Main} /\ ref' = [ref EXCEPT ![d] = n]
    /\ n # Main => n <= head
    /\ command[d] = "apply" => n = Main
    /\ alone[d] /\ ~late[d] /\ n # Main => Covers(n)
    /\ b \in Bodies /\ body' = [body EXCEPT ![d] = b]
    /\ to \in {"listing", "posting"} => b.about = n /\ Fits(b, head)
    /\ a \in BOOLEAN /\ applied' = [applied EXCEPT ![d] = a]
    /\ a => command[d] = "apply" /\ writer[d]
    /\ to # "done" => command[d] # "none"
    /\ to = "loading" => IF command[d] = "apply" THEN writer[d] ELSE n # Main
    /\ i \in 0..Len(comments) /\ place' = [place EXCEPT ![d] = i]
    /\ to = "posting" /\ seen[d] => i # 0
    /\ UNCHANGED <<head, comments, command, writer, seen, alone, late>>

\* A delivery that moves on keeps the invariant.
LEMMA MoveInv ==
    ASSUME IInv, NEW d \in Deliveries, NEW to, NEW n, NEW b, NEW a, NEW i,
           Moves(d, to, n, b, a, i)
    PROVE  IInv'
<1> USE DEF Moves
<1> USE DEF IInv
<1>1. /\ pc \in [Deliveries -> Places] /\ pc' \in [Deliveries -> Places] /\ pc'[d] = to
      /\ \A e \in Deliveries : e # d =>
            /\ pc'[e] = pc[e] /\ ref'[e] = ref[e] /\ body'[e] = body[e]
            /\ applied'[e] = applied[e] /\ place'[e] = place[e]
      /\ ref'[d] = n /\ body'[d] = b /\ applied'[d] = a
  BY DEF TypeOK, Places
<1>2. TypeOK'
  BY <1>1 DEF TypeOK, Places
<1>3. DeliveryInv'
  BY <1>1 DEF DeliveryInv, Places
<1>4. BodyInv'
  BY <1>1 DEF BodyInv, Fits
<1>5. InHand' \subseteq InHand
  BY <1>1 DEF InHand
<1>6. AloneInv'
  <2> SUFFICES ASSUME NEW e \in Deliveries, alone[e], e \in InHand'
               PROVE  /\ InHand' = {e}
                      /\ pc'[e] # "asked" /\ ref'[e] # Main /\ ~late[e] => Covers(ref[e])'
    BY DEF AloneInv
  <2>1. e \in InHand /\ InHand = {e} /\ e = d
    BY <1>5 DEF AloneInv
  <2>2. InHand' = {e}
    BY <1>5, <2>1
  <2> QED
    BY <1>1, <2>1, <2>2 DEF Covers
<1>7. SeenInv'
  <2>1. Marked' = Marked
    BY DEF Marked
  <2>2. \A e \in Deliveries : seen[e] /\ pc'[e] = "posting" => place'[e] # 0
    <3> SUFFICES ASSUME NEW e \in Deliveries, seen[e], pc'[e] = "posting" PROVE place'[e] # 0
      OBVIOUS
    <3>1. CASE e # d
      BY <3>1, <1>1 DEF SeenInv
    <3>2. CASE e = d
      BY <3>2, <1>1 DEF TypeOK
    <3> QED
      BY <3>1, <3>2
  <2> QED
    BY <2>1, <2>2 DEF SeenInv
<1> QED
  BY <1>2, <1>3, <1>4, <1>6, <1>7

\* A delivery arrives: it is the only one in hand, or none of those is alone.
Arrives(d, c, w, to, n) ==
    /\ c \in {"check", "recheck", "apply", "help"} /\ w \in BOOLEAN
    /\ to \in {"asked", "loading"} /\ Arrive(d, c, w, to)
    /\ n \in Commits \union {Main} /\ ref' = [ref EXCEPT ![d] = n]
    /\ late' \in [Deliveries -> BOOLEAN]
    /\ \A e \in Deliveries : e # d => late'[e] = late[e]
    /\ c = "check" => /\ n \in Commits /\ n <= head /\ to = "loading"
                      /\ ~late'[d] => n = head
    /\ c # "check" => n = Main /\ to = "asked"
    /\ comments' = comments \/ comments' = Append(comments, ByPerson)
    /\ UNCHANGED <<head, body, place, applied>>

\* A delivery that arrives keeps it.
LEMMA ArriveInv ==
    ASSUME IInv, NEW d \in Deliveries, NEW c, NEW w, NEW to, NEW n, Arrives(d, c, w, to, n)
    PROVE  IInv'
<1> USE DEF Arrives
<1> USE DEF IInv
<1>1. /\ pc[d] = "idle" /\ pc' = [pc EXCEPT ![d] = to]
      /\ command' = [command EXCEPT ![d] = c] /\ writer' = [writer EXCEPT ![d] = w]
      /\ seen' = [seen EXCEPT ![d] = Marked # {}]
      /\ alone' = [e \in Deliveries |->
                      alone[e] /\ (e \in InHand \union {d} => InHand = {})]
  BY DEF Arrive
<1>2. /\ pc' \in [Deliveries -> Places] /\ pc'[d] = to
      /\ \A e \in Deliveries : e # d =>
            /\ pc'[e] = pc[e] /\ ref'[e] = ref[e] /\ command'[e] = command[e]
            /\ writer'[e] = writer[e] /\ seen'[e] = seen[e]
      /\ ref'[d] = n /\ command'[d] = c /\ writer'[d] = w /\ seen'[d] = (Marked # {})
  BY <1>1 DEF TypeOK, Places
<1>3. /\ comments \in Seq([marked : BOOLEAN, body : Bodies])
      /\ comments' \in Seq([marked : BOOLEAN, body : Bodies])
      /\ Len(comments') \in Nat /\ Len(comments) <= Len(comments')
      /\ \A i \in DOMAIN comments : i \in DOMAIN comments' /\ comments'[i] = comments[i]
      /\ \A i \in DOMAIN comments' : i \in DOMAIN comments \/ comments'[i] = ByPerson
  <2>1. ByPerson \in [marked : BOOLEAN, body : Bodies]
    BY DEF ByPerson, Nothing, Bodies
  <2>2. comments \in Seq([marked : BOOLEAN, body : Bodies])
    BY DEF TypeOK
  <2>3. CASE comments' = Append(comments, ByPerson)
    <3>1. /\ Len(comments') = Len(comments) + 1 /\ Len(comments) \in Nat
          /\ comments' \in Seq([marked : BOOLEAN, body : Bodies])
          /\ DOMAIN comments = 1..Len(comments) /\ DOMAIN comments' = 1..(Len(comments) + 1)
          /\ \A i \in 1..Len(comments) : comments'[i] = comments[i]
          /\ comments'[Len(comments) + 1] = ByPerson
      BY <2>1, <2>2, <2>3
    <3> QED
      BY <2>2, <3>1
  <2>4. CASE comments' = comments
    BY <2>2, <2>4
  <2> QED
    BY <2>3, <2>4
<1>4. TypeOK'
  <2>1. place' \in [Deliveries -> 0..Len(comments')]
    BY <1>3 DEF TypeOK
  <2> QED
    BY <1>1, <1>2, <1>3, <2>1 DEF TypeOK, Places
<1>5. DeliveryInv'
  <2>1. \A e \in Deliveries : e # d =>
            /\ pc'[e] = "idle" => ref'[e] = Main /\ ~applied'[e]
            /\ pc'[e] \in {"loading", "listing", "posting"} => command'[e] # "none"
            /\ command'[e] = "apply" => ref'[e] = Main
            /\ command'[e] = "apply" /\ pc'[e] = "loading" => writer'[e]
            /\ applied'[e] => command'[e] = "apply" /\ writer'[e]
            /\ pc'[e] = "asked" => command'[e] \in {"apply", "recheck", "help"} /\ ref'[e] = Main
            /\ pc'[e] = "loading" /\ command'[e] # "apply" => ref'[e] # Main
    BY <1>2 DEF DeliveryInv
  <2>2. ~applied'[d]
    BY <1>1 DEF DeliveryInv
  <2> QED
    BY <1>2, <2>1, <2>2, Bounds DEF DeliveryInv
<1>6. BodyInv'
  <2>1. ASSUME NEW i \in DOMAIN comments' PROVE Fits(comments'[i].body, head)
    <3>1. CASE i \in DOMAIN comments
      BY <1>3, <3>1 DEF BodyInv
    <3>2. CASE comments'[i] = ByPerson
      BY <3>2 DEF Fits, ByPerson, Nothing
    <3> QED
      BY <1>3, <3>1, <3>2
  <2>2. ASSUME NEW e \in Deliveries
        PROVE  /\ ref'[e] # Main => ref'[e] <= head
               /\ pc'[e] \in {"listing", "posting"} =>
                     body'[e].about = ref'[e] /\ Fits(body'[e], head)
    BY <1>2 DEF BodyInv
  <2> QED
    BY <2>1, <2>2 DEF BodyInv
<1>7. AloneInv'
  <2>1. InHand' = InHand \union {d}
    BY <1>1, <1>2 DEF InHand
  <2> SUFFICES ASSUME NEW e \in Deliveries, alone'[e], e \in InHand'
               PROVE  /\ InHand' = {e}
                      /\ pc'[e] # "asked" /\ ref'[e] # Main /\ ~late'[e] => Covers(ref[e])'
    BY DEF AloneInv
  <2>2. InHand = {} /\ e = d
    BY <1>1, <2>1
  <2>3. ASSUME pc'[d] # "asked", ~late'[d], NEW i \in DOMAIN comments',
               comments'[i].body.says \in {"plan", "errors"}
        PROVE  comments'[i].body.about <= ref'[d]
    <3>1. ref'[d] = head
      BY <1>2, <2>3
    <3>2. i \in DOMAIN comments /\ comments'[i] = comments[i]
      BY <1>3, <2>3 DEF ByPerson, Nothing
    <3> QED
      BY <2>3, <3>1, <3>2 DEF BodyInv, Fits
  <2> QED
    BY <2>1, <2>2, <2>3 DEF Covers
<1>8. SeenInv'
  <2>1. Marked \subseteq Marked'
    BY <1>3 DEF Marked
  <2> QED
    BY <1>2, <2>1 DEF SeenInv
<1> QED
  BY <1>4, <1>5, <1>6, <1>7, <1>8

\* A push moves the head and nothing else.
LEMMA PushInv == ASSUME IInv, Push PROVE IInv'
<1> USE DEF IInv
<1>1. /\ UNCHANGED <<comments, command, writer, seen, alone, late, ref, pc, body, place, applied>>
      /\ head \in Nat /\ head' = head + 1 /\ head' \in Commits
  BY Bounds DEF Push, Given, TypeOK, Commits
<1>2. TypeOK' /\ DeliveryInv'
  BY <1>1 DEF TypeOK, DeliveryInv
<1>3. ASSUME NEW x \in Bodies, Fits(x, head) PROVE Fits(x, head')
  <2>1. x.about # Main => x.about \in Nat
    BY Bounds DEF Bodies
  <2> QED
    BY <1>1, <1>3, <2>1 DEF Fits
<1>4. ASSUME NEW i \in DOMAIN comments PROVE Fits(comments[i].body, head')
  <2> DEFINE Comment == [marked : BOOLEAN, body : Bodies]
  <2>1. comments \in Seq(Comment)
    BY DEF TypeOK
  <2>2. comments[i] \in Comment
    <3> HIDE DEF Comment
    <3> QED
      BY <2>1, <1>4
  <2>3. comments[i].body \in Bodies
    BY <2>2
  <2> QED
    BY <1>3, <2>3 DEF BodyInv
<1>5. ASSUME NEW e \in Deliveries
      PROVE  /\ ref[e] # Main => ref[e] <= head'
             /\ pc[e] \in {"listing", "posting"} =>
                   body[e].about = ref[e] /\ Fits(body[e], head')
  <2>1. (ref[e] # Main => ref[e] \in Nat) /\ body[e] \in Bodies
    BY Bounds DEF TypeOK
  <2> QED
    BY <1>1, <1>3, <2>1 DEF BodyInv
<1>6. BodyInv'
  BY <1>1, <1>4, <1>5 DEF BodyInv
<1>7. InHand' = InHand /\ Marked' = Marked
  BY <1>1 DEF InHand, Marked
<1>8. AloneInv' /\ SeenInv'
  BY <1>1, <1>7 DEF AloneInv, Covers, SeenInv
<1> QED
  BY <1>2, <1>6, <1>8

\* The ways to arrive.
LEMMA ArrivalInv ==
    ASSUME IInv, NEW d \in Deliveries,
           \/ \E sha \in Commits : PullRequest(d, sha)
           \/ \E w \in BOOLEAN : Command(d, "apply", w)
           \/ \E c \in {"recheck", "help"} : Command(d, c, FALSE)
    PROVE  IInv'
<1>1. head \in Commits /\ head \in Nat /\ late \in [Deliveries -> BOOLEAN]
  BY Bounds DEF IInv, TypeOK
<1>2. ASSUME NEW sha \in Commits, PullRequest(d, sha)
      PROVE  IInv'
  <2>1. /\ Arrive(d, "check", FALSE, "loading") /\ ref' = [ref EXCEPT ![d] = sha]
        /\ sha <= head /\ late' = [late EXCEPT ![d] = sha # head]
        /\ UNCHANGED <<head, comments, body, place, applied>>
    BY <1>2 DEF PullRequest
  <2>2. /\ late' \in [Deliveries -> BOOLEAN] /\ (~late'[d] => sha = head)
        /\ \A e \in Deliveries : e # d => late'[e] = late[e]
    BY <1>1, <2>1
  <2> QED
    <3>1. Arrives(d, "check", FALSE, "loading", sha)
      BY <2>1, <2>2 DEF Arrives
    <3> QED
      BY <3>1, ArriveInv
<1>4. ASSUME NEW c \in {"apply", "recheck", "help"}, NEW w \in BOOLEAN, Command(d, c, w)
      PROVE  IInv'
  <2>1. /\ Arrive(d, c, w, "asked")
        /\ comments' = comments \/ comments' = Append(comments, ByPerson)
        /\ UNCHANGED <<head, ref, late, body, place, applied>>
    BY <1>4 DEF Command
  <2>2. ref[d] = Main /\ ref' = [ref EXCEPT ![d] = Main]
    BY <2>1 DEF Arrive, IInv, DeliveryInv, TypeOK
  <2>3. /\ late' = late /\ late' \in [Deliveries -> BOOLEAN]
        /\ Main \in Commits \union {Main} /\ c # "check" /\ c \in {"check", "recheck", "apply", "help"}
    BY <1>1, <2>1
  <2> QED
    <3>1. Arrives(d, c, w, "asked", Main)
      BY <2>1, <2>2, <2>3 DEF Arrives
    <3> QED
      BY <3>1, ArriveInv
<1> QED
  BY <1>2, <1>4

\* What a delivery that is in hand knows of itself.
LEMMA Known ==
    ASSUME IInv, NEW d \in Deliveries
    PROVE  /\ ref[d] \in Commits \union {Main} /\ body[d] \in Bodies
           /\ applied[d] \in BOOLEAN /\ place[d] \in 0..Len(comments)
           /\ ref' = ref => ref' = [ref EXCEPT ![d] = ref[d]]
           /\ body' = body => body' = [body EXCEPT ![d] = body[d]]
           /\ applied' = applied => applied' = [applied EXCEPT ![d] = applied[d]]
           /\ place' = place => place' = [place EXCEPT ![d] = place[d]]
           /\ ref[d] # Main => ref[d] <= head
           /\ command[d] = "apply" => ref[d] = Main
           /\ applied[d] => command[d] = "apply" /\ writer[d]
           /\ pc[d] \in {"loading", "listing", "posting"} => command[d] # "none"
           /\ pc[d] # "idle" /\ pc[d] # "done" => d \in InHand
           /\ alone[d] /\ ~late[d] /\ pc[d] \in {"loading", "listing", "posting"}
                 /\ ref[d] # Main => Covers(ref[d])
           /\ pc[d] = "asked" => command[d] # "none" /\ ref[d] = Main
           /\ pc[d] = "loading" =>
                 IF command[d] = "apply" THEN writer[d] ELSE ref[d] # Main
           /\ \A n \in Commits \union {Main},
                 s \in {"nothing", "plan", "errors", "applied", "refused", "failed", "help"} :
                    [says |-> s, about |-> n] \in Bodies
<1>1. ref[d] \in Commits \union {Main} /\ body[d] \in Bodies
  BY DEF IInv, TypeOK
<1>2. /\ applied[d] \in BOOLEAN /\ place[d] \in 0..Len(comments)
      /\ ref' = ref => ref' = [ref EXCEPT ![d] = ref[d]]
      /\ body' = body => body' = [body EXCEPT ![d] = body[d]]
      /\ applied' = applied => applied' = [applied EXCEPT ![d] = applied[d]]
      /\ place' = place => place' = [place EXCEPT ![d] = place[d]]
  BY DEF IInv, TypeOK
<1>3. /\ ref[d] # Main => ref[d] <= head
      /\ command[d] = "apply" => ref[d] = Main
      /\ applied[d] => command[d] = "apply" /\ writer[d]
      /\ pc[d] \in {"loading", "listing", "posting"} => command[d] # "none"
      /\ pc[d] = "asked" => command[d] # "none" /\ ref[d] = Main
      /\ pc[d] = "loading" => IF command[d] = "apply" THEN writer[d] ELSE ref[d] # Main
  BY DEF IInv, DeliveryInv, BodyInv
<1>4. pc[d] # "idle" /\ pc[d] # "done" => d \in InHand
  BY DEF InHand
<1>5. alone[d] /\ ~late[d] /\ pc[d] \in {"loading", "listing", "posting"}
         /\ ref[d] # Main => Covers(ref[d])
  BY <1>4 DEF IInv, AloneInv
<1>6. \A n \in Commits \union {Main},
         s \in {"nothing", "plan", "errors", "applied", "refused", "failed", "help"} :
            [says |-> s, about |-> n] \in Bodies
  BY DEF Bodies
<1> QED
  BY <1>1, <1>2, <1>3, <1>4, <1>5, <1>6

\* A delivery says what it has to say of the commit it loaded.
Says(d, s, a) ==
    /\ pc[d] \in {"asked", "loading"} /\ Say(d, s)
    /\ s \in {"plan", "errors", "applied", "refused", "failed", "help"}
    /\ s \in {"plan", "errors"} => pc[d] = "loading" /\ command[d] # "apply"
    /\ a \in BOOLEAN /\ applied' = [applied EXCEPT ![d] = a]
    /\ a => command[d] = "apply" /\ writer[d]
    /\ UNCHANGED <<head, comments, Given, ref, place>>

\* A delivery that has something to say keeps it.
LEMMA SayInv ==
    ASSUME IInv, NEW d \in Deliveries, NEW s, NEW a, Says(d, s, a)
    PROVE  IInv'
<1> USE DEF Says
<1> DEFINE b == [says |-> s, about |-> ref[d]]
<1>1. b \in Bodies /\ b.about = ref[d] /\ b.says = s
  BY Known
<1>2. Fits(b, head)
  BY <1>1, Known DEF Fits
<1>3. body' = [body EXCEPT ![d] = b] /\ pc' = [pc EXCEPT ![d] = "listing"]
  BY DEF Say
<1>4. UNCHANGED <<head, comments, command, writer, seen, alone, late>> /\ place' = place /\ ref' = ref
  BY DEF Given
<1>5. /\ ref[d] # Main => ref[d] <= head
      /\ command[d] = "apply" => ref[d] = Main
      /\ alone[d] /\ ~late[d] /\ ref[d] # Main => Covers(ref[d])
      /\ command[d] # "none" /\ d \in InHand
      /\ ref[d] \in Commits \union {Main} /\ ref' = [ref EXCEPT ![d] = ref[d]]
      /\ place[d] \in 0..Len(comments) /\ place' = [place EXCEPT ![d] = place[d]]
  BY <1>4, Known
<1> HIDE DEF b
<1>6. "listing" \in Places \ {"idle", "asked"}
  BY DEF Places
<1>7. Moves(d, "listing", ref[d], b, a, place[d])
  BY <1>1, <1>2, <1>3, <1>4, <1>5, <1>6 DEF Moves
<1> QED
  BY <1>7, MoveInv

\* All that a delivery does before it posts.
LEMMA WorkInv ==
    ASSUME IInv, NEW d \in Deliveries,
           \/ Help(d) \/ Recheck(d) \/ Authorize(d)
           \/ Unparsed(d) \/ LoadFails(d) \/ Reconcile(d) \/ List(d)
    PROVE  IInv'
<1> PICK a \in BOOLEAN :
      /\ a = applied[d]
      /\ applied' = applied => applied' = [applied EXCEPT ![d] = a]
      /\ a => command[d] = "apply" /\ writer[d]
  <2>1. applied \in [Deliveries -> BOOLEAN]
    BY DEF IInv, TypeOK
  <2>2. applied[d] => command[d] = "apply" /\ writer[d]
    BY DEF IInv, DeliveryInv
  <2> QED
    BY <2>1, <2>2
<1>2. CASE Help(d)
  <2>1. Says(d, "help", a)
    BY <1>2 DEF Help, Says
  <2> QED
    BY <2>1, SayInv
<1>3. CASE Authorize(d)
  <2>1. CASE Say(d, "refused")
    <3>1. Says(d, "refused", a)
      BY <1>3, <2>1 DEF Authorize, Says
    <3> QED
      BY <3>1, SayInv
  <2>2. CASE ~Say(d, "refused")
    <3>1. /\ pc[d] = "asked" /\ command[d] = "apply" /\ writer[d]
          /\ pc' = [pc EXCEPT ![d] = "loading"]
          /\ body' = body /\ ref' = ref /\ place' = place /\ applied' = applied
          /\ UNCHANGED <<head, comments, command, writer, seen, alone, late>>
      BY <1>3, <2>2 DEF Authorize, Given
    <3>2. Moves(d, "loading", ref[d], body[d], applied[d], place[d])
      BY <3>1, Known DEF Moves, Places
    <3> QED
      BY <3>2, MoveInv
  <2> QED
    BY <2>1, <2>2
<1>4. CASE Recheck(d)
  <2>1. CASE Say(d, "failed") /\ UNCHANGED ref
    <3>1. Says(d, "failed", a)
      BY <1>4, <2>1 DEF Recheck, Says
    <3> QED
      BY <3>1, SayInv
  <2>2. CASE ~(Say(d, "failed") /\ UNCHANGED ref)
    <3>1. /\ pc[d] = "asked" /\ command[d] = "recheck"
          /\ pc' = [pc EXCEPT ![d] = "loading"] /\ ref' = [ref EXCEPT ![d] = head]
          /\ body' = body /\ place' = place /\ applied' = applied
          /\ UNCHANGED <<head, comments, command, writer, seen, alone, late>>
      BY <1>4, <2>2 DEF Recheck, Given
    <3>2. head \in Commits /\ head \in Nat /\ head # Main
      BY Bounds DEF IInv, TypeOK
    <3>4. /\ d \in InHand /\ body[d] \in Bodies /\ place[d] \in 0..Len(comments)
          /\ body' = [body EXCEPT ![d] = body[d]] /\ place' = [place EXCEPT ![d] = place[d]]
      BY <3>1, Known
    <3>5. applied' = [applied EXCEPT ![d] = a] /\ a \in BOOLEAN /\ (a => command[d] = "apply" /\ writer[d])
      BY <3>1
    <3>6. "loading" \in Places \ {"idle", "asked"} /\ "loading" \notin {"listing", "posting"}
      BY DEF Places
    <3> PICK n : n = head
      OBVIOUS
    <3>7. /\ n \in Commits \union {Main} /\ ref' = [ref EXCEPT ![d] = n]
          /\ n <= head /\ n # Main /\ n = head
      BY <3>1, <3>2
    <3>9. Covers(n)
      BY <3>7 DEF IInv, BodyInv, Fits, Covers
    <3>8. command[d] # "apply" /\ command[d] # "none"
      BY <3>1
    <3>3. Moves(d, "loading", n, body[d], a, place[d])
      BY <3>1, <3>4, <3>5, <3>6, <3>7, <3>8, <3>9 DEF Moves
    <3> QED
      BY <3>3, MoveInv
  <2> QED
    BY <2>1, <2>2
<1>5. CASE Unparsed(d)
  <2>1. CASE command[d] = "apply"
    <3>1. Says(d, "failed", a)
      BY <1>5, <2>1 DEF Unparsed, Says
    <3> QED
      BY <3>1, SayInv
  <2>2. CASE command[d] # "apply"
    <3>1. Says(d, "errors", a)
      BY <1>5, <2>2 DEF Unparsed, Says
    <3> QED
      BY <3>1, SayInv
  <2> QED
    BY <2>1, <2>2
<1>6. CASE LoadFails(d)
  <2>1. CASE command[d] = "apply"
    <3>1. Says(d, "failed", a)
      BY <1>6, <2>1 DEF LoadFails, Says
    <3> QED
      BY <3>1, SayInv
  <2>2. CASE command[d] # "apply"
    <3>1. /\ pc[d] = "loading" /\ pc' = [pc EXCEPT ![d] = "done"]
          /\ body' = body /\ ref' = ref /\ place' = place /\ applied' = applied
          /\ UNCHANGED <<head, comments, command, writer, seen, alone, late>>
      BY <1>6, <2>2 DEF LoadFails, Given
    <3>2. Moves(d, "done", ref[d], body[d], applied[d], place[d])
      BY <3>1, Known DEF Moves, Places
    <3> QED
      BY <3>2, MoveInv
  <2> QED
    BY <2>1, <2>2
<1>7. CASE Reconcile(d)
  <2>1. CASE command[d] = "apply"
    <3>1. writer[d]
      BY <1>7, <2>1, Known DEF Reconcile
    <3> QED
      <4>1. Says(d, "applied", TRUE)
        BY <1>7, <2>1, <3>1 DEF Reconcile, Says
      <4> QED
        BY <4>1, SayInv
  <2>2. CASE command[d] # "apply"
    <3>1. Says(d, "plan", FALSE)
      BY <1>7, <2>2 DEF Reconcile, Says
    <3> QED
      BY <3>1, SayInv
  <2> QED
    BY <2>1, <2>2
<1>8. CASE List(d)
  <2>1. /\ pc[d] = "listing" /\ body' = body /\ ref' = ref /\ applied' = applied
        /\ UNCHANGED <<head, comments, command, writer, seen, alone, late>>
        /\ body[d].about = ref[d] /\ Fits(body[d], head)
    BY <1>8 DEF List, Given, IInv, BodyInv
  <2>2. CASE pc' = [pc EXCEPT ![d] = "done"] /\ UNCHANGED place
    <3>1. Moves(d, "done", ref[d], body[d], applied[d], place[d])
      BY <2>1, <2>2, Known DEF Moves, Places
    <3> QED
      BY <3>1, MoveInv
  <2>3. CASE /\ pc' = [pc EXCEPT ![d] = "posting"] /\ Marked = {}
             /\ place' = [place EXCEPT ![d] = 0]
    <3>1. ~seen[d]
      BY <2>3 DEF IInv, SeenInv
    <3>2. 0 \in 0..Len(comments)
      BY DEF IInv, TypeOK
    <3>3. Moves(d, "posting", ref[d], body[d], applied[d], 0)
      BY <2>1, <2>3, <3>1, <3>2, Known DEF Moves, Places
    <3> QED
      BY <3>3, MoveInv
  <2>4. CASE /\ pc' = [pc EXCEPT ![d] = "posting"] /\ Marked # {}
             /\ place' = [place EXCEPT ![d] = CHOOSE i \in Marked : \A j \in Marked : i <= j]
    <3> DEFINE first == CHOOSE i \in Marked : \A j \in Marked : i <= j
    <3>1. Marked \subseteq Nat
      BY DEF Marked, IInv, TypeOK
    <3>2. \E i \in Marked : \A j \in Marked : i <= j
      BY <2>4, <3>1, LeastNumber
    <3>3. first \in Marked
      BY <3>2
    <3>4. first \in 0..Len(comments) /\ first # 0
      <4>1. Marked \subseteq 1..Len(comments) /\ Len(comments) \in Nat
        <5>1. comments \in Seq([marked : BOOLEAN, body : Bodies])
          BY DEF IInv, TypeOK
        <5>2. DOMAIN comments = 1..Len(comments) /\ Len(comments) \in Nat
          BY <5>1
        <5> QED
          BY <5>2 DEF Marked
      <4> HIDE DEF first
      <4> QED
        BY <3>3, <4>1
    <3> HIDE DEF first
    <3>5. Moves(d, "posting", ref[d], body[d], applied[d], first)
      BY <2>1, <2>4, <3>4, Known DEF Moves, Places, first
    <3> QED
      BY <3>5, MoveInv
  <2> QED
    BY <1>8, <2>2, <2>3, <2>4 DEF List, Listed
<1> QED
  BY <1>2, <1>3, <1>4, <1>5, <1>6, <1>7, <1>8

\* What was said is put in the marked comment that was found, or added.
LEMMA PostInv ==
    ASSUME IInv, NEW d \in Deliveries, Post(d)
    PROVE  IInv'
<1> USE DEF IInv
<1> DEFINE c == [marked |-> TRUE, body |-> body[d]]
           Comment == [marked : BOOLEAN, body : Bodies]
<1>1. /\ pc[d] = "posting" /\ pc' = [pc EXCEPT ![d] = "done"]
      /\ UNCHANGED <<head, command, writer, seen, alone, late, ref, body, place, applied>>
      /\ \/ comments' = comments
         \/ place[d] = 0 /\ comments' = Append(comments, c)
         \/ place[d] # 0 /\ comments' = [comments EXCEPT ![place[d]] = c]
  BY DEF Post, Given
<1>2. /\ pc' \in [Deliveries -> Places] /\ pc'[d] = "done"
      /\ \A e \in Deliveries : e # d => pc'[e] = pc[e]
      /\ InHand' \subseteq InHand
  BY <1>1 DEF TypeOK, Places, InHand
<1>3. c \in Comment /\ Fits(c.body, head) /\ c.marked /\ c.body = body[d]
  BY <1>1 DEF TypeOK, BodyInv
<1>4. comments \in Seq(Comment) /\ place[d] \in 0..Len(comments)
  BY DEF TypeOK
<1> HIDE DEF c, Comment
<1>5. /\ comments' \in Seq(Comment) /\ Len(comments) <= Len(comments')
      /\ Len(comments) \in Nat /\ Len(comments') \in Nat
      /\ \A i \in DOMAIN comments : i \in DOMAIN comments' /\ comments'[i] \in {comments[i], c}
      /\ \A i \in DOMAIN comments' : i \in DOMAIN comments \/ comments'[i] = c
  <2>1. CASE comments' = comments
    BY <1>4, <2>1
  <2>2. CASE place[d] = 0 /\ comments' = Append(comments, c)
    <3>1. /\ Len(comments') = Len(comments) + 1 /\ Len(comments) \in Nat
          /\ comments' \in Seq(Comment)
          /\ DOMAIN comments = 1..Len(comments) /\ DOMAIN comments' = 1..(Len(comments) + 1)
          /\ \A i \in 1..Len(comments) : comments'[i] = comments[i]
          /\ comments'[Len(comments) + 1] = c
      BY <1>3, <1>4, <2>2
    <3> QED
      BY <3>1
  <2>3. CASE place[d] # 0 /\ comments' = [comments EXCEPT ![place[d]] = c]
    <3>1. place[d] \in DOMAIN comments
      BY <1>4, <2>3
    <3> QED
      BY <1>3, <1>4, <2>3, <3>1
  <2> QED
    BY <1>1, <2>1, <2>2, <2>3
<1>6. TypeOK'
  <2>1. place' \in [Deliveries -> 0..Len(comments')]
    BY <1>1, <1>5 DEF TypeOK
  <2> QED
    BY <1>1, <1>2, <1>5, <2>1 DEF TypeOK, Places, Comment
<1>7. DeliveryInv'
  BY <1>1, <1>2 DEF DeliveryInv
<1>8. BodyInv'
  <2>1. \A i \in DOMAIN comments' : Fits(comments'[i].body, head')
    BY <1>1, <1>3, <1>5 DEF BodyInv
  <2>2. \A e \in Deliveries :
           /\ ref'[e] # Main => ref'[e] <= head'
           /\ pc'[e] \in {"listing", "posting"} =>
                 body'[e].about = ref'[e] /\ Fits(body'[e], head')
    BY <1>1, <1>2 DEF BodyInv
  <2> QED
    BY <2>1, <2>2 DEF BodyInv
<1>9. AloneInv'
  <2> SUFFICES ASSUME NEW e \in Deliveries, alone[e], e \in InHand' PROVE FALSE
    BY <1>1 DEF AloneInv
  <2>1. e \in InHand /\ InHand = {e} /\ e # d
    BY <1>2 DEF AloneInv, InHand
  <2>2. d \in InHand
    BY <1>1 DEF InHand
  <2> QED
    BY <2>1, <2>2
<1>10. SeenInv'
  <2>1. Marked \subseteq Marked'
    BY <1>3, <1>5 DEF Marked
  <2> QED
    BY <1>1, <1>2, <2>1 DEF SeenInv
<1> QED
  BY <1>6, <1>7, <1>8, <1>9, <1>10

\* Every step keeps the invariant.
LEMMA StepInv == IInv /\ [Next]_vars => IInv'
<1> SUFFICES ASSUME IInv, [Next]_vars PROVE IInv'
  OBVIOUS
<1>1. CASE UNCHANGED vars
  <2>1. InHand' = InHand /\ Marked' = Marked
    BY <1>1 DEF vars, InHand, Marked
  <2>2. TypeOK'
    BY <1>1 DEF vars, IInv, TypeOK
  <2>3. DeliveryInv' /\ BodyInv' /\ AloneInv' /\ SeenInv'
    BY <1>1, <2>1 DEF vars, IInv, DeliveryInv, BodyInv, AloneInv, Covers, SeenInv
  <2> QED
    BY <2>2, <2>3 DEF IInv
<1>2. CASE Next
  BY <1>2, PushInv, ArrivalInv, WorkInv, PostInv DEF Next, Handle
<1> QED
  BY <1>1, <1>2

\* The inductive invariant.
THEOREM Invariant == Spec => []IInv
BY InitInv, StepInv, PTL DEF Spec

\* Type correctness; in particular a delivery edits a comment that exists.
THEOREM TypeCorrect == Spec => []TypeOK
<1>1. IInv => TypeOK
  BY DEF IInv
<1> QED
  BY <1>1, Invariant, PTL

\* What a command applies is the default branch, asked for by a writer.
THEOREM ReviewStays == Spec => []ReviewIsNotSkipped
<1>1. IInv => ReviewIsNotSkipped
  BY DEF IInv, DeliveryInv, ReviewIsNotSkipped
<1> QED
  BY <1>1, Invariant, PTL

\* Only its own post ends a delivery that has its comment in hand.
LEMMA PostsIt ==
    ASSUME IInv, [Next]_vars, NEW d \in Deliveries, pc[d] = "posting", pc'[d] = "done"
    PROVE  Post(d)
<1>1. ~UNCHANGED vars
  BY DEF vars
<1>2. ~Push
  BY DEF Push
<1>3. PICK e \in Deliveries : Handle(e)
  BY <1>1, <1>2 DEF Next
<1>4. \E to : pc' = [pc EXCEPT ![e] = to]
  BY <1>3 DEF Handle, PullRequest, Command, Arrive, Help, Recheck, Authorize, Unparsed,
              LoadFails, Reconcile, Say, List, Post
<1>5. e = d
  BY <1>4 DEF IInv, TypeOK
<1> QED
  BY <1>3, <1>5 DEF Handle, PullRequest, Command, Arrive, Help, Recheck, Authorize, Unparsed,
                    LoadFails, Reconcile, Say, List

\* A delivery that arrived when there was a marked comment adds none.
THEOREM CommentsAreEdited == Spec => RerunsUpdateInPlace
<1>1. ASSUME IInv, [Next]_vars, NEW d \in Deliveries,
             pc[d] = "posting", pc'[d] = "done", seen[d]
      PROVE  Len(comments') = Len(comments)
  <2>1. Post(d) /\ place[d] # 0
    BY <1>1, PostsIt DEF IInv, SeenInv
  <2>2. comments \in Seq([marked : BOOLEAN, body : Bodies])
    BY <1>1 DEF IInv, TypeOK
  <2> QED
    BY <2>1, <2>2 DEF Post
<1>2. IInv /\ [Next]_vars =>
        [\A d \in Deliveries : pc[d] = "posting" /\ pc'[d] = "done" /\ seen[d] =>
            Len(comments') = Len(comments)]_vars
  BY <1>1
<1> QED
  BY <1>2, Invariant, PTL DEF Spec, RerunsUpdateInPlace

\* A delivery that was handled alone and did not come late never takes the
\* comment back to an older commit, nor to the default branch.
THEOREM PlansDoNotGoBack == Spec => NewestPlanStays
<1>1. ASSUME IInv, [Next]_vars, NEW d \in Deliveries, NEW i \in DOMAIN comments,
             alone[d], ~late[d]
      PROVE  ~TakesBack(d, i)
  <2> SUFFICES ASSUME pc[d] = "posting", pc'[d] = "done",
                      comments'[i].body # comments[i].body,
                      comments'[i].body.says \in {"plan", "errors"}
               PROVE  /\ comments'[i].body.about # Main
                      /\ comments[i].body.says \in {"plan", "errors"} =>
                            ~(comments'[i].body.about < comments[i].body.about)
    BY DEF TakesBack
  <2>1. Post(d)
    BY <1>1, PostsIt
  <2>2. comments'[i].body = body[d]
    <3> DEFINE Comment == [marked : BOOLEAN, body : Bodies]
               c == [marked |-> TRUE, body |-> body[d]]
    <3>1. comments \in Seq(Comment) /\ body[d] \in Bodies
      BY <1>1 DEF IInv, TypeOK
    <3>2. \/ comments' = comments \/ comments' = Append(comments, c)
          \/ comments' = [comments EXCEPT ![place[d]] = c]
      BY <2>1 DEF Post
    <3>3. c.body = body[d]
      OBVIOUS
    <3>4. comments'[i] \in {comments[i], c}
      <4> HIDE DEF Comment, c
      <4> QED
        BY <3>1, <3>2
    <3> HIDE DEF c
    <3> QED
      BY <3>3, <3>4
  <2>3. body[d].about = ref[d] /\ ref[d] # Main
    BY <1>1, <2>2 DEF IInv, BodyInv, Fits
  <2>4. Covers(ref[d])
    BY <1>1, <2>3 DEF IInv, AloneInv, InHand
  <2>5. ref[d] \in Nat
    BY <1>1, <2>3, Bounds DEF IInv, TypeOK
  <2>6. comments[i].body.says \in {"plan", "errors"} =>
           comments[i].body.about \in Nat /\ comments[i].body.about <= ref[d]
    <3> DEFINE Comment == [marked : BOOLEAN, body : Bodies]
    <3>1. comments \in Seq(Comment)
      BY <1>1 DEF IInv, TypeOK
    <3>2. comments[i] \in Comment
      <4> HIDE DEF Comment
      <4> QED
        BY <3>1
    <3>3. Fits(comments[i].body, head)
      BY <1>1 DEF IInv, BodyInv
    <3> QED
      BY <2>4, <3>2, <3>3, Bounds DEF Bodies, Fits, Covers
  <2> QED
    BY <2>2, <2>3, <2>5, <2>6
<1>2. IInv /\ [Next]_vars =>
        [\A d \in Deliveries, i \in DOMAIN comments :
            alone[d] /\ ~late[d] => ~TakesBack(d, i)]_vars
  BY <1>1
<1> QED
  BY <1>2, Invariant, PTL DEF Spec, NewestPlanStays
=============================================================================
