--------------------------- MODULE SharingProofs ---------------------------
(***************************************************************************)
(* What holds of Sharing for any Users, Expenses and handlers, however     *)
(* these interleave: first of the social graph it stands on, by the rules  *)
(* of FriendshipRules, then of what a route shows and lets be Liked.        *)
(***************************************************************************)
EXTENDS Sharing, TLAPS

----------------------------------------------------------------------------
(* The social graph.  Exclusive is inductive as it stands.                 *)

LEMMA InitExclusive == Graph!Init => Graph!Exclusive
  BY DEF Graph!Init, Graph!Exclusive, Graph!Both

\* Equal unordered pairs have the same two Users, in one order or the other.
LEMMA SamePair ==
    ASSUME NEW a, NEW b, NEW c, NEW d, {a, b} = {c, d}
    PROVE  (a = c /\ b = d) \/ (a = d /\ b = c)
  <1>1. a \in {c, d} /\ b \in {c, d} /\ c \in {a, b} /\ d \in {a, b}
    OBVIOUS
  <1>. QED
    BY <1>1

LEMMA NextExclusive == Graph!Exclusive /\ [Graph!Next]_(Graph!vars) => Graph!Exclusive'
  <1> SUFFICES ASSUME Graph!Exclusive, [Graph!Next]_(Graph!vars) PROVE Graph!Exclusive'
    OBVIOUS
  <1> USE DEF Graph!Exclusive, Graph!Blocked, Graph!Both
  <1>1. ASSUME NEW u \in User, NEW v \in User, Graph!Send(u, v) PROVE Graph!Exclusive'
    <2>1. /\ <<u, v>> \notin offers /\ <<v, u>> \notin offers
          /\ <<u, v>> \notin blocks /\ <<v, u>> \notin blocks
          /\ {u, v} \notin friends /\ u # v
      BY <1>1 DEF Graph!Send
    <2>2. {v, u} = {u, v}
      OBVIOUS
    <2>3. ASSUME NEW a \in User, NEW b \in User, <<a, b>> \in blocks
          PROVE  /\ a # b /\ {a, b} \notin friends' /\ <<b, a>> \notin blocks'
                 /\ Graph!Both(a, b) \cap offers' = {}
      BY <1>1, <2>1, <2>3 DEF Graph!Send
    <2>4. ASSUME NEW a \in User, NEW b \in User, <<a, b>> \in offers'
          PROVE  a # b /\ {a, b} \notin friends' /\ <<b, a>> \notin offers'
      <3>1. CASE <<a, b>> \in offers
        <4>1. <<a, b>> # <<v, u>> /\ <<a, b>> # <<u, v>>
          BY <3>1, <2>1
        <4>2. <<b, a>> # <<u, v>>
          BY <4>1
        <4>. QED
          BY <1>1, <3>1, <4>2 DEF Graph!Send
      <3>2. CASE a = u /\ b = v
        BY <1>1, <2>1, <3>2 DEF Graph!Send
      <3>. QED
        BY <1>1, <2>4, <3>1, <3>2 DEF Graph!Send
    <2>. QED
      BY <1>1, <2>3, <2>4 DEF Graph!Send
  <1>2. ASSUME NEW u \in User, NEW v \in User, Graph!Accept(u, v) PROVE Graph!Exclusive'
    <2>1. \A a, b \in User : <<a, b>> \in blocks => {a, b} # {u, v}
      BY <1>2, SamePair DEF Graph!Accept
    <2>2. \A a, b \in User : <<a, b>> \in offers' => {a, b} # {u, v}
      BY <1>2, SamePair DEF Graph!Accept
    <2>. QED
      BY <1>2, <2>1, <2>2 DEF Graph!Accept
  <1>3. ASSUME NEW u \in User, NEW v \in User, Graph!Remove(u, v) PROVE Graph!Exclusive'
    BY <1>3 DEF Graph!Remove
  <1>4. ASSUME NEW u \in User, NEW v \in User, Graph!Unfriend(u, v) PROVE Graph!Exclusive'
    BY <1>4 DEF Graph!Unfriend
  <1>5. ASSUME NEW u \in User, NEW v \in User, Graph!Block(u, v) PROVE Graph!Exclusive'
    <2>1. /\ <<u, v>> \notin offers' /\ <<v, u>> \notin offers'
          /\ <<u, v>> \notin blocks /\ <<v, u>> \notin blocks
          /\ {u, v} \notin friends' /\ u # v
      BY <1>5 DEF Graph!Block
    <2>2. offers' \subseteq offers /\ friends' \subseteq friends
      BY <1>5 DEF Graph!Block
    <2>3. ASSUME NEW a \in User, NEW b \in User, <<a, b>> \in blocks'
          PROVE  /\ a # b /\ {a, b} \notin friends' /\ <<b, a>> \notin blocks'
                 /\ Graph!Both(a, b) \cap offers' = {}
      <3>1. CASE <<a, b>> \in blocks
        <4>1. <<b, a>> # <<u, v>>
          BY <3>1, <2>1
        <4>. QED
          BY <1>5, <2>2, <3>1, <4>1 DEF Graph!Block
      <3>2. CASE a = u /\ b = v
        BY <1>5, <2>1, <3>2 DEF Graph!Block
      <3>. QED
        BY <1>5, <2>3, <3>1, <3>2 DEF Graph!Block
    <2>. QED
      BY <2>2, <2>3
  <1>6. ASSUME NEW u \in User, NEW v \in User, Graph!Unblock(u, v) PROVE Graph!Exclusive'
    BY <1>6 DEF Graph!Unblock
  <1>7. CASE UNCHANGED Graph!vars
    BY <1>7 DEF Graph!vars
  <1>. QED
    BY <1>1, <1>2, <1>3, <1>4, <1>5, <1>6, <1>7 DEF Graph!Next

\* Whatever Users do to each other, two of them have at most one of a Block, a
\* Friendship and a pending request: what the checks of `send` and the sweeps of
\* `accept` and `create` (blocks) are there for.
THEOREM AlwaysExclusive == Graph!Spec => []Graph!Exclusive
  BY InitExclusive, NextExclusive, PTL DEF Graph!Spec

----------------------------------------------------------------------------
(* The types.                                                              *)

\* What a handler at p holds in its locals j, and its response if it has answered.
Fits(p, j, shown) ==
    /\ p \in Pc /\ j \in JobType
    /\ p # "idle" => j.me \in User
    /\ p \in {"gate:block", "gate:friends"} =>
          j.e \in Expense /\ j.saw \in Visibility /\ j.route \in {"like", "unlike", "likers"}
    /\ p \in {"like", "unlike", "likers"} => j.e \in Expense /\ j.route = p
    /\ p = "likers:find" => j.e \in Expense /\ j.route = "likers"
    /\ p \in {"friend:friends", "friend:find"} =>
          j.route = "friend" /\ j.owner \in User /\ j.owner # j.me
    /\ p \in {"board:both", "board:friends", "board:blocks", "board:sum"} => j.route = "board"
    /\ p = "feed:find" => j.route = "feed"
    /\ p = "answered" =>
          /\ j.route \in {"friend", "board", "feed", "likers"}
          /\ j.route = "friend" => j.owner \in User /\ j.owner # j.me
          /\ j.route = "likers" => j.e \in Expense
          /\ j.route # "likers" => shown \subseteq Expense

JobOK == \A h \in Slot : Fits(pc[h], job[h], answer[h])

\* The four ways a handler's step ends, from what it does to the handler itself.
LEMMA Remembered ==
    ASSUME TypeOK, NEW h \in Slot, pc' \in [Slot -> Pc], Remember
    PROVE  /\ alone' \in [Slot -> BOOLEAN]
           /\ pc'[h] # "idle" => ever'[h] = ever[h] \cup Grounds(job[h].me)'
           /\ alone'[h] /\ pc'[h] # "idle" => alone[h] /\ tables' = tables
  BY DEF Remember, TypeOK

LEMMA Going ==
    ASSUME TypeOK, JobOK, NEW h \in Slot, NEW where, NEW locals,
           Goto(h, where, locals), Reads, Fits(where, locals, answer[h])
    PROVE  /\ TypeOK' /\ JobOK'
           /\ pc'[h] = where /\ job'[h] = locals /\ answer'[h] = answer[h]
           /\ \A g \in Slot \ {h} : pc'[g] = pc[g] /\ job'[g] = job[g] /\ answer'[g] = answer[g]
  <1>1. pc' \in [Slot -> Pc] /\ job' \in [Slot -> JobType] /\ answer' = answer
    BY DEF Goto, TypeOK, Fits
  <1>2. alone' \in [Slot -> BOOLEAN]
    BY <1>1, Remembered DEF Reads, Remember
  <1>3. /\ pc'[h] = where /\ job'[h] = locals /\ answer'[h] = answer[h]
        /\ \A g \in Slot \ {h} : pc'[g] = pc[g] /\ job'[g] = job[g] /\ answer'[g] = answer[g]
    BY DEF Goto, TypeOK
  <1>4. TypeOK'
    BY <1>1, <1>2 DEF TypeOK, Reads, tables, graph, Graph!TypeOK, Exists
  <1>5. JobOK'
    <2> SUFFICES ASSUME NEW g \in Slot PROVE Fits(pc'[g], job'[g], answer'[g])
      BY DEF JobOK
    <2> QED
      BY <1>3 DEF JobOK
  <1> QED
    BY <1>3, <1>4, <1>5

LEMMA Answering ==
    ASSUME TypeOK, JobOK, NEW h \in Slot, NEW shows,
           shows \subseteq Expense \cup User,
           AnswerWith(h, shows), Reads, Fits("answered", job[h], shows)
    PROVE  /\ TypeOK' /\ JobOK'
           /\ pc'[h] = "answered" /\ job'[h] = job[h] /\ answer'[h] = shows
           /\ \A g \in Slot \ {h} : pc'[g] = pc[g] /\ job'[g] = job[g] /\ answer'[g] = answer[g]
  <1>1. /\ pc' \in [Slot -> Pc] /\ job' = job
        /\ answer' \in [Slot -> SUBSET (Expense \cup User)]
    BY DEF AnswerWith, TypeOK, Fits
  <1>2. alone' \in [Slot -> BOOLEAN]
    BY <1>1, Remembered DEF Reads, Remember
  <1>3. /\ pc'[h] = "answered" /\ job'[h] = job[h] /\ answer'[h] = shows
        /\ \A g \in Slot \ {h} : pc'[g] = pc[g] /\ job'[g] = job[g] /\ answer'[g] = answer[g]
    BY DEF AnswerWith, TypeOK
  <1>4. TypeOK'
    BY <1>1, <1>2 DEF TypeOK, Reads, tables, graph, Graph!TypeOK, Exists
  <1>5. JobOK'
    <2> SUFFICES ASSUME NEW g \in Slot PROVE Fits(pc'[g], job'[g], answer'[g])
      BY DEF JobOK
    <2> QED
      BY <1>3 DEF JobOK
  <1> QED
    BY <1>3, <1>4, <1>5

LEMMA Finishing ==
    ASSUME TypeOK, JobOK, NEW h \in Slot, Done(h), Remember
    PROVE  /\ pc' \in [Slot -> Pc] /\ job' \in [Slot -> JobType]
           /\ answer' \in [Slot -> SUBSET (Expense \cup User)]
           /\ alone' \in [Slot -> BOOLEAN] /\ JobOK'
           /\ pc'[h] = "idle"
           /\ \A g \in Slot \ {h} : pc'[g] = pc[g] /\ job'[g] = job[g] /\ answer'[g] = answer[g]
  <1>1. /\ pc' \in [Slot -> Pc]
        /\ answer' \in [Slot -> SUBSET (Expense \cup User)]
    BY DEF Done, TypeOK, Pc
  <1>2. NoJob \in JobType
    BY DEF NoJob, Locals, JobType
  <1>3. job' \in [Slot -> JobType]
    BY <1>2 DEF Done, TypeOK
  <1>4. /\ pc'[h] = "idle" /\ job'[h] = NoJob
        /\ \A g \in Slot \ {h} : pc'[g] = pc[g] /\ job'[g] = job[g] /\ answer'[g] = answer[g]
    BY DEF Done, TypeOK
  <1>5. alone' \in [Slot -> BOOLEAN]
    BY <1>1, Remembered DEF Remember
  <1>6. JobOK'
    <2> SUFFICES ASSUME NEW g \in Slot PROVE Fits(pc'[g], job'[g], answer'[g])
      BY DEF JobOK
    <2>1. CASE g = h
      BY <1>2, <1>4, <2>1 DEF Fits, Pc
    <2>2. CASE g # h
      BY <1>4, <2>2 DEF JobOK
    <2> QED
      BY <2>1, <2>2
  <1> QED
    BY <1>1, <1>3, <1>4, <1>5, <1>6

\* A handler that gives up changes no table.
LEMMA GivingUp ==
    ASSUME TypeOK, JobOK, NEW h \in Slot, Done(h), Reads
    PROVE  TypeOK' /\ JobOK'
  BY Finishing DEF TypeOK, Reads, tables, graph, Graph!TypeOK, Exists

LEMMA GraphTyped == Graph!TypeOK /\ [Graph!Next]_(Graph!vars) => Graph!TypeOK'
  <1> USE DEF Graph!TypeOK
  <1>1. ASSUME Graph!TypeOK, NEW u \in User, NEW v \in User,
               \/ Graph!Send(u, v) \/ Graph!Accept(u, v) \/ Graph!Remove(u, v)
               \/ Graph!Unfriend(u, v) \/ Graph!Block(u, v) \/ Graph!Unblock(u, v)
        PROVE  Graph!TypeOK'
    BY <1>1 DEF Graph!Send, Graph!Accept, Graph!Remove, Graph!Unfriend, Graph!Block,
                Graph!Unblock, Graph!Both
  <1> QED
    BY <1>1 DEF Graph!Next, Graph!vars

LEMMA InitTyped == Init => TypeOK /\ JobOK
  <1>1. NoJob \in JobType
    BY DEF NoJob, Locals, JobType
  <1> QED
    BY <1>1 DEF Init, TypeOK, JobOK, Fits, Graph!Init, Graph!TypeOK, Pc, Exists, Visibility

LEMMA NextTyped == TypeOK /\ JobOK /\ [Next]_vars => TypeOK' /\ JobOK'
  <1> SUFFICES ASSUME TypeOK, JobOK, [Next]_vars
               PROVE  TypeOK' /\ JobOK'
    OBVIOUS
  <1>1. ASSUME NEW h \in Slot
        PROVE  Fits(pc[h], job[h], answer[h]) /\ job[h] \in JobType
    BY <1>1 DEF JobOK, TypeOK
  <1>2. ASSUME NEW h \in Slot, NEW u \in User, NEW e \in Expense,
               NEW route \in {"like", "unlike", "likers"}, GateFind(h, u, route, e)
        PROVE  TypeOK' /\ JobOK'
    <2> DEFINE locals == Locals(u, route, e, None, visibility[e], {}, {})
               where == IF Owner[e] = u THEN route ELSE "gate:block"
    <2>1. Fits(where, locals, answer[h])
      BY <1>2 DEF Fits, GateFind, Locals, JobType, Pc, Exists
    <2>2. Goto(h, where, locals) /\ Reads
      BY <1>2 DEF GateFind
    <2> HIDE DEF locals, where
    <2> QED
      BY <2>1, <2>2, Going
  <1>3. ASSUME NEW h \in Slot, GateCheckBlock(h) \/ GateCheckFriends(h)
        PROVE  TypeOK' /\ JobOK'
    <2>1. /\ job[h].me \in User /\ job[h].e \in Expense /\ job[h].saw \in Visibility
          /\ job[h].route \in {"like", "unlike", "likers"}
      BY <1>1, <1>3 DEF GateCheckBlock, GateCheckFriends, Fits, Pc
    <2>2. Fits("gate:friends", job[h], answer[h])
      BY <1>1, <2>1 DEF Fits, Pc
    <2>3. Fits(job[h].route, job[h], answer[h])
      BY <1>1, <2>1 DEF Fits, Pc
    <2> QED
      BY <1>3, <2>2, <2>3, Going, GivingUp DEF GateCheckBlock, GateCheckFriends
  <1>4. ASSUME NEW h \in Slot, Like(h) \/ Unlike(h)
        PROVE  TypeOK' /\ JobOK'
    <2>1. job[h].me \in User /\ job[h].e \in Expense
      BY <1>1, <1>4 DEF Like, Unlike, Fits
    <2>2. likes' \subseteq User \X {e \in Expense : Exists(e)}
      BY <1>4, <2>1 DEF Like, Unlike, TypeOK
    <2> QED
      BY <1>4, <2>2, Finishing DEF Like, Unlike, TypeOK, graph, Graph!TypeOK, Exists
  <1>5. ASSUME NEW h \in Slot, LikersReadBlocks(h)
        PROVE  TypeOK' /\ JobOK'
    <2> DEFINE locals == Locals(job[h].me, "likers", job[h].e, None, None, {}, Invisible(job[h].me))
    <2>1. Fits("likers:find", locals, answer[h])
      BY <1>1, <1>5 DEF LikersReadBlocks, Fits, Locals, JobType, Pc, Invisible
    <2>2. Goto(h, "likers:find", locals) /\ Reads
      BY <1>5 DEF LikersReadBlocks
    <2> HIDE DEF locals
    <2> QED
      BY <2>1, <2>2, Going
  <1>6. ASSUME NEW h \in Slot, LikersFind(h)
        PROVE  TypeOK' /\ JobOK'
    <2> DEFINE shows == {u \in User \ job[h].ids : <<u, job[h].e>> \in likes}
    <2>1. shows \subseteq User
      OBVIOUS
    <2>2. AnswerWith(h, shows) /\ Reads
      BY <1>6 DEF LikersFind
    <2> HIDE DEF shows
    <2>3. Fits("answered", job[h], shows)
      BY <1>1, <1>6 DEF LikersFind, Fits, Pc
    <2> QED
      BY <2>1, <2>2, <2>3, Answering
  <1>7. ASSUME NEW h \in Slot, NEW u \in User, NEW o \in User, FriendExpensesCheckBlock(h, u, o)
        PROVE  TypeOK' /\ JobOK'
    <2> DEFINE locals == Locals(u, "friend", None, o, None, {}, {})
    <2>1. Fits("friend:friends", locals, answer[h])
      BY <1>7 DEF FriendExpensesCheckBlock, Fits, Locals, JobType, Pc
    <2>2. Goto(h, "friend:friends", locals) /\ Reads
      BY <1>7 DEF FriendExpensesCheckBlock
    <2> HIDE DEF locals
    <2> QED
      BY <2>1, <2>2, Going
  <1>8. ASSUME NEW h \in Slot, FriendExpensesCheckFriends(h)
        PROVE  TypeOK' /\ JobOK'
    <2>1. Fits("friend:find", job[h], answer[h])
      BY <1>1, <1>8 DEF FriendExpensesCheckFriends, Fits, Pc
    <2> QED
      BY <1>8, <2>1, Going, GivingUp DEF FriendExpensesCheckFriends
  <1>9. ASSUME NEW h \in Slot, FriendExpensesFind(h)
        PROVE  TypeOK' /\ JobOK'
    <2> DEFINE shows == {e \in Expense : Owner[e] = job[h].owner /\ Shareable(e)}
    <2>1. Fits("answered", job[h], shows) /\ shows \subseteq Expense
      BY <1>1, <1>9 DEF FriendExpensesFind, Fits, Pc
    <2>2. AnswerWith(h, shows) /\ Reads
      BY <1>9 DEF FriendExpensesFind
    <2> HIDE DEF shows
    <2> QED
      BY <2>1, <2>2, Answering
  <1>10. ASSUME NEW h \in Slot, NEW u \in User, BoardStart(h, u)
         PROVE  TypeOK' /\ JobOK'
    <2> DEFINE locals == Locals(u, "board", None, None, None, {}, {})
    <2>1. Fits("board:both", locals, answer[h])
      BY DEF Fits, Locals, JobType, Pc
    <2>2. Goto(h, "board:both", locals) /\ Reads
      BY <1>10 DEF BoardStart
    <2> HIDE DEF locals
    <2> QED
      BY <2>1, <2>2, Going
  <1>11. ASSUME NEW h \in Slot, BoardReadFriends(h)
         PROVE  TypeOK' /\ JobOK'
    <2> DEFINE locals == Locals(job[h].me, "board", None, None, None,
                                FriendsOf(job[h].me), job[h].ids)
               where == IF pc[h] = "board:both" THEN "board:blocks" ELSE "board:sum"
    <2>1. Fits(where, locals, answer[h])
      BY <1>1, <1>11 DEF BoardReadFriends, Fits, Locals, JobType, Pc, FriendsOf
    <2>2. Goto(h, where, locals) /\ Reads
      BY <1>11 DEF BoardReadFriends
    <2> HIDE DEF locals, where
    <2> QED
      BY <2>1, <2>2, Going
  <1>12. ASSUME NEW h \in Slot, BoardReadBlocks(h)
         PROVE  TypeOK' /\ JobOK'
    <2> DEFINE locals == Locals(job[h].me, "board", None, None, None,
                                job[h].owners, Invisible(job[h].me))
               where == IF pc[h] = "board:both" THEN "board:friends" ELSE "board:sum"
    <2>1. Fits(where, locals, answer[h])
      BY <1>1, <1>12 DEF BoardReadBlocks, Fits, Locals, JobType, Pc, Invisible
    <2>2. Goto(h, where, locals) /\ Reads
      BY <1>12 DEF BoardReadBlocks
    <2> HIDE DEF locals, where
    <2> QED
      BY <2>1, <2>2, Going
  <1>13. ASSUME NEW h \in Slot, BoardSum(h)
         PROVE  TypeOK' /\ JobOK'
    <2> DEFINE shows == {e \in Expense : /\ Owner[e] \in {job[h].me} \cup (job[h].owners \ job[h].ids)
                                         /\ Shareable(e)}
    <2>1. Fits("answered", job[h], shows) /\ shows \subseteq Expense
      BY <1>1, <1>13 DEF BoardSum, Fits, Pc
    <2>2. AnswerWith(h, shows) /\ Reads
      BY <1>13 DEF BoardSum
    <2> HIDE DEF shows
    <2> QED
      BY <2>1, <2>2, Answering
  <1>14. ASSUME NEW h \in Slot, NEW u \in User, FeedReadBlocks(h, u)
         PROVE  TypeOK' /\ JobOK'
    <2> DEFINE locals == Locals(u, "feed", None, None, None, {}, Invisible(u))
    <2>1. Fits("feed:find", locals, answer[h])
      BY DEF Fits, Locals, JobType, Pc, Invisible
    <2>2. Goto(h, "feed:find", locals) /\ Reads
      BY <1>14 DEF FeedReadBlocks
    <2> HIDE DEF locals
    <2> QED
      BY <2>1, <2>2, Going
  <1>15. ASSUME NEW h \in Slot, FeedFind(h)
         PROVE  TypeOK' /\ JobOK'
    <2> DEFINE shows == {e \in Expense : visibility[e] = "public" /\ Owner[e] \notin job[h].ids}
    <2>1. Fits("answered", job[h], shows) /\ shows \subseteq Expense
      BY <1>1, <1>15 DEF FeedFind, Fits, Pc
    <2>2. AnswerWith(h, shows) /\ Reads
      BY <1>15 DEF FeedFind
    <2> HIDE DEF shows
    <2> QED
      BY <2>1, <2>2, Answering
  <1>16. ASSUME NEW h \in Slot, Return(h)
         PROVE  TypeOK' /\ JobOK'
    BY <1>16, GivingUp DEF Return
  <1>17. ASSUME NEW e \in Expense,
                Delete(e) \/ \E v \in Visibility : Log(e, v) \/ Edit(e, v)
         PROVE  TypeOK' /\ JobOK'
    <2>1. UNCHANGED <<graph, pc, job, answer>> /\ alone' \in [Slot -> BOOLEAN]
      BY <1>17 DEF Delete, Log, Edit, TypeOK, Remember
    <2>2. /\ visibility' \in [Expense -> Visibility \cup {"unlogged", "deleted"}]
          /\ likes' \subseteq User \X {f \in Expense : visibility'[f] \in Visibility}
      BY <1>17 DEF Delete, Log, Edit, TypeOK, Exists, Visibility
    <2> QED
      BY <2>1, <2>2 DEF TypeOK, JobOK, Exists, graph, Graph!TypeOK
  <1>18. CASE ChangeGraph
    <2>1. Graph!TypeOK'
      BY <1>18, GraphTyped DEF ChangeGraph, TypeOK
    <2> QED
      BY <1>18, <2>1 DEF ChangeGraph, TypeOK, JobOK, Remember, Exists
  <1>19. CASE UNCHANGED vars
    BY <1>19 DEF vars, graph, TypeOK, JobOK, Exists, Graph!TypeOK
  <1> QED
    BY <1>2, <1>3, <1>4, <1>5, <1>6, <1>7, <1>8, <1>9, <1>10, <1>11, <1>12, <1>13,
       <1>14, <1>15, <1>16, <1>17, <1>18, <1>19
    DEF Next, Handler

LEMMA Typed == Spec => [](TypeOK /\ JobOK)
  BY InitTyped, NextTyped, PTL DEF Spec

\* Every Like is on an Expense that exists, through every Like, edit and delete,
\* and the locals of every handler keep their types.
THEOREM SharingTyped == Spec => []TypeOK
  BY Typed, PTL

----------------------------------------------------------------------------
(* What a handler knows, and what it may take for right while it is alone. *)

\* That the rules of the graph hold here is a refinement: every other step of
\* Sharing leaves the graph alone.
THEOREM ImplementsGraph == Spec => Graph!Spec
  <1>1. Init => Graph!Init
    BY DEF Init
  <1>2. [Next]_vars => [Graph!Next]_(Graph!vars)
    BY DEF Next, Handler, vars, graph, Graph!vars, tables, Reads, GateFind, GateCheckBlock,
           GateCheckFriends, Like, Unlike, LikersReadBlocks, LikersFind,
           FriendExpensesCheckBlock, FriendExpensesCheckFriends, FriendExpensesFind,
           BoardStart, FeedReadBlocks, BoardReadFriends, BoardReadBlocks, BoardSum,
           FeedFind, Return, Delete, Log, Edit, ChangeGraph
  <1> QED
    BY <1>1, <1>2, PTL DEF Spec, Graph!Spec

Backed(me, e, known) ==
    \/ Owner[e] = me
    \/ /\ <<"shareable", e>> \in known
       /\ <<"unblocked", Owner[e]>> \in known
       /\ <<"public", e>> \in known \/ <<"friend", Owner[e]>> \in known

\* What a handler at p with the locals j has read is among what it remembers.
Knows(p, j, shown, known) ==
    /\ p = "gate:block" =>
          /\ j.saw # "private" => <<"shareable", j.e>> \in known
          /\ j.saw = "public" => <<"public", j.e>> \in known
    /\ p = "gate:friends" =>
          <<"shareable", j.e>> \in known /\ <<"unblocked", Owner[j.e]>> \in known
    /\ p \in {"like", "unlike", "likers"} => Backed(j.me, j.e, known)
    /\ p \in {"friend:friends", "friend:find"} => <<"unblocked", j.owner>> \in known
    /\ p = "friend:find" => <<"friend", j.owner>> \in known
    /\ p \in {"board:both", "board:friends", "board:blocks", "board:sum"} =>
          \A o \in j.owners : <<"friend", o>> \in known
    /\ p \in {"board:friends", "board:sum", "feed:find"} =>
          \A o \in User \ j.ids : <<"unblocked", o>> \in known
    /\ p = "answered" /\ j.route # "likers" => \A e \in shown : Backed(j.me, e, known)

\* What ShownExactly asks of a response.
Exact(j, shown) ==
    LET me == j.me
        sees == {e \in Expense : CanSee(me, e)}
    IN  /\ j.route = "likers" => j.e \in sees
        /\ shown =
             CASE j.route = "friend" -> {e \in sees : Owner[e] = j.owner}
               [] j.route = "board" -> {e \in sees : visibility[e] # "private" /\
                                            Owner[e] \in {me} \cup FriendsOf(me)}
               [] j.route = "feed" -> {e \in sees : visibility[e] = "public"}
               [] j.route = "likers" ->
                     {u \in User : <<u, j.e>> \in likes /\ ~Graph!Blocked(me, u)}

\* What it has read is what the tables hold.
Right(p, j, shown) ==
    /\ p = "gate:block" => Exists(j.e) /\ j.saw = visibility[j.e]
    /\ p = "gate:friends" =>
          visibility[j.e] = "friend_only" /\ Owner[j.e] \notin Invisible(j.me)
    /\ p \in {"like", "unlike", "likers", "likers:find"} => CanSee(j.me, j.e)
    /\ p \in {"friend:friends", "friend:find"} => j.owner \notin Invisible(j.me)
    /\ p = "friend:find" => j.owner \in FriendsOf(j.me)
    /\ p \in {"likers:find", "board:friends", "board:sum", "feed:find"} =>
          j.ids = Invisible(j.me)
    /\ p \in {"board:blocks", "board:sum"} => j.owners = FriendsOf(j.me)
    /\ p = "answered" => Exact(j, shown)

Informed(h) ==
    /\ Knows(pc[h], job[h], answer[h], ever[h])
    /\ pc[h] # "idle" /\ alone[h] => Right(pc[h], job[h], answer[h])

AllInformed == \A h \in Slot : Informed(h)

LEMMA KnowsMore ==
    ASSUME NEW p, NEW j, NEW shown, NEW known, NEW more, Knows(p, j, shown, known)
    PROVE  Knows(p, j, shown, known \cup more)
  <1>1. \A me, e : Backed(me, e, known) => Backed(me, e, known \cup more)
    BY DEF Backed
  <1> QED
    BY <1>1 DEF Knows

LEMMA GroundsAre ==
    ASSUME NEW u
    PROVE  /\ \A e \in Expense : Exists(e) /\ visibility[e] # "private" =>
                                    <<"shareable", e>> \in Grounds(u)
           /\ \A e \in Expense : visibility[e] = "public" => <<"public", e>> \in Grounds(u)
           /\ \A o \in FriendsOf(u) : <<"friend", o>> \in Grounds(u)
           /\ \A v \in User : v \notin Invisible(u) => <<"unblocked", v>> \in Grounds(u)
  BY DEF Grounds, Invisible, Graph!Blocked

\* While the tables stay as they are, so does what speaks for an Expense.
LEMMA SameTables ==
    ASSUME NEW h \in Slot, tables' = tables
    PROVE  /\ Grounds(job[h].me)' = Grounds(job'[h].me)
           /\ Right(pc[h], job[h], answer[h])' <=> Right(pc'[h], job'[h], answer'[h])
  <1>1. /\ UNCHANGED <<offers, friends, blocks, visibility, likes>>
    BY DEF tables, graph
  <1>2. Grounds(job[h].me)' = Grounds(job'[h].me)
    BY <1>1 DEF Grounds, Exists, FriendsOf, Graph!Blocked
  <1>3. Exact(job[h], answer[h])' <=> Exact(job'[h], answer'[h])
    BY <1>1 DEF Exact, CanSee, Exists, FriendsOf, Graph!Blocked
  <1>4. Right(pc[h], job[h], answer[h])' <=> Right(pc'[h], job'[h], answer'[h])
    BY <1>1, <1>3 DEF Right, CanSee, Exists, FriendsOf, Invisible, Graph!Blocked
  <1> QED
    BY <1>2, <1>4

\* A handler that takes no step stays informed, whatever the others do.
LEMMA Kept ==
    ASSUME TypeOK, NEW h \in Slot, Informed(h), Remember, pc' \in [Slot -> Pc],
           pc'[h] = pc[h], job'[h] = job[h], answer'[h] = answer[h]
    PROVE  Informed(h)'
  <1>1. CASE pc[h] = "idle"
    BY <1>1 DEF Informed, Knows
  <1>2. CASE pc[h] # "idle"
    <2>1. ever'[h] = ever[h] \cup Grounds(job[h].me)'
      BY <1>2, Remembered
    <2>2. Knows(pc'[h], job'[h], answer'[h], ever'[h])
      BY <2>1, KnowsMore DEF Informed
    <2>3. alone'[h] => Right(pc[h], job[h], answer[h])'
      BY <1>2, Remembered, SameTables DEF Informed
    <2> QED
      BY <2>2, <2>3 DEF Informed, Knows, Backed
  <1> QED
    BY <1>1, <1>2

\* A handler that reads is informed of what the tables hold as it reads.
LEMMA Learned ==
    ASSUME TypeOK, NEW h \in Slot, Reads, pc' \in [Slot -> Pc],
           Knows(pc'[h], job'[h], answer'[h], ever[h] \cup Grounds(job'[h].me)),
           alone[h] => Right(pc'[h], job'[h], answer'[h])
    PROVE  Informed(h)'
  <1>1. CASE pc'[h] = "idle"
    BY <1>1 DEF Informed, Knows
  <1>2. CASE pc'[h] # "idle"
    <2>1. ever'[h] = ever[h] \cup Grounds(job'[h].me)
      BY <1>2, Remembered, SameTables DEF Reads
    <2>2. alone'[h] => Right(pc[h], job[h], answer[h])'
      BY <1>2, Remembered, SameTables DEF Reads
    <2> QED
      BY <2>1, <2>2 DEF Informed, Knows, Backed
  <1> QED
    BY <1>1, <1>2

LEMMA GoingInformed ==
    ASSUME TypeOK, TypeOK', AllInformed, NEW h \in Slot, NEW where, NEW locals,
           Goto(h, where, locals), Reads,
           Knows(where, locals, answer[h], ever[h] \cup Grounds(locals.me)),
           alone[h] => Right(where, locals, answer[h])
    PROVE  AllInformed'
  <1>1. /\ pc' \in [Slot -> Pc]
        /\ pc'[h] = where /\ job'[h] = locals /\ answer'[h] = answer[h]
        /\ \A g \in Slot \ {h} : pc'[g] = pc[g] /\ job'[g] = job[g] /\ answer'[g] = answer[g]
    BY DEF Goto, TypeOK
  <1>2. Informed(h)'
    BY <1>1, Learned
  <1>3. ASSUME NEW g \in Slot \ {h} PROVE Informed(g)'
    BY <1>1, <1>3, Kept DEF AllInformed, Reads
  <1> QED
    BY <1>2, <1>3 DEF AllInformed

LEMMA AnsweringInformed ==
    ASSUME TypeOK, TypeOK', AllInformed, NEW h \in Slot, NEW shows,
           AnswerWith(h, shows), Reads,
           Knows("answered", job[h], shows, ever[h] \cup Grounds(job[h].me)),
           alone[h] => Exact(job[h], shows)
    PROVE  AllInformed'
  <1>1. /\ pc' \in [Slot -> Pc]
        /\ pc'[h] = "answered" /\ job'[h] = job[h] /\ answer'[h] = shows
        /\ \A g \in Slot \ {h} : pc'[g] = pc[g] /\ job'[g] = job[g] /\ answer'[g] = answer[g]
    BY DEF AnswerWith, TypeOK
  <1>2. alone[h] => Right("answered", job[h], shows)
    BY DEF Right
  <1>3. Informed(h)'
    BY <1>1, <1>2, Learned
  <1>4. ASSUME NEW g \in Slot \ {h} PROVE Informed(g)'
    BY <1>1, <1>4, Kept DEF AllInformed, Reads
  <1> QED
    BY <1>3, <1>4 DEF AllInformed

LEMMA FinishingInformed ==
    ASSUME TypeOK, JobOK, AllInformed, NEW h \in Slot, Done(h), Remember
    PROVE  AllInformed'
  <1>1. /\ pc' \in [Slot -> Pc] /\ pc'[h] = "idle"
        /\ \A g \in Slot \ {h} : pc'[g] = pc[g] /\ job'[g] = job[g] /\ answer'[g] = answer[g]
    BY Finishing
  <1>2. Informed(h)'
    BY <1>1 DEF Informed, Knows
  <1>3. ASSUME NEW g \in Slot \ {h} PROVE Informed(g)'
    BY <1>1, <1>3, Kept DEF AllInformed
  <1> QED
    BY <1>2, <1>3 DEF AllInformed

\* Steps of no handler.
LEMMA OthersInformed ==
    ASSUME TypeOK, AllInformed, UNCHANGED <<pc, job, answer>>, Remember
    PROVE  AllInformed'
  BY Kept DEF AllInformed, TypeOK

LEMMA NextInformed ==
    /\ TypeOK /\ JobOK /\ AllInformed /\ Graph!Exclusive /\ [Next]_vars
    /\ TypeOK' /\ JobOK'
    => AllInformed'
  <1> SUFFICES ASSUME TypeOK, JobOK, AllInformed, Graph!Exclusive, [Next]_vars, TypeOK'
               PROVE  AllInformed'
    OBVIOUS
  <1>1. ASSUME NEW h \in Slot
        PROVE  /\ Fits(pc[h], job[h], answer[h])
               /\ \A g : Knows(pc[h], job[h], answer[h], ever[h] \cup Grounds(g))
               /\ pc[h] # "idle" /\ alone[h] => Right(pc[h], job[h], answer[h])
    BY KnowsMore DEF JobOK, AllInformed, Informed
  <1>2. ASSUME NEW h \in Slot, NEW u \in User, NEW e \in Expense,
               NEW route \in {"like", "unlike", "likers"}, GateFind(h, u, route, e)
        PROVE  AllInformed'
    <2> DEFINE locals == Locals(u, route, e, None, visibility[e], {}, {})
               where == IF Owner[e] = u THEN route ELSE "gate:block"
    <2>1. Knows(where, locals, answer[h], ever[h] \cup Grounds(u))
      BY <1>2, GroundsAre DEF GateFind, Knows, Locals, Backed
    <2>2. Right(where, locals, answer[h])
      BY <1>2 DEF GateFind, Right, Locals, CanSee
    <2>3. Goto(h, where, locals) /\ Reads /\ locals.me = u
      BY <1>2 DEF GateFind, Locals
    <2> HIDE DEF locals, where
    <2> QED
      BY <2>1, <2>2, <2>3, GoingInformed
  <1>3. ASSUME NEW h \in Slot, GateCheckBlock(h), Owner[job[h].e] \notin Invisible(job[h].me),
               job[h].saw # "private"
        PROVE  AllInformed'
    <2> DEFINE where == IF job[h].saw = "public" THEN job[h].route ELSE "gate:friends"
               known == ever[h] \cup Grounds(job[h].me)
    <2>1. /\ job[h].e \in Expense /\ job[h].me \in User /\ job[h].saw \in Visibility
          /\ job[h].route \in {"like", "unlike", "likers"} /\ pc[h] = "gate:block"
          /\ Owner[job[h].e] \in User
      BY <1>1, <1>3, OwnerAssumption DEF GateCheckBlock, Fits
    <2>2. /\ <<"shareable", job[h].e>> \in known
          /\ job[h].saw = "public" => <<"public", job[h].e>> \in known
          /\ <<"unblocked", Owner[job[h].e]>> \in known
      BY <1>1, <1>3, <2>1, GroundsAre DEF Knows
    <2>3. Knows(where, job[h], answer[h], known)
      <3> HIDE DEF known
      <3> QED
        BY <2>1, <2>2 DEF Knows, Backed
    <2>4. alone[h] => Right(where, job[h], answer[h])
      BY <1>1, <1>3, <2>1 DEF Right, CanSee, Visibility, Invisible, Graph!Blocked
    <2>5. Goto(h, where, job[h]) /\ Reads
      BY <1>3 DEF GateCheckBlock
    <2> HIDE DEF where
    <2> QED
      BY <2>3, <2>4, <2>5, GoingInformed
  <1>4. ASSUME NEW h \in Slot, GateCheckFriends(h), Owner[job[h].e] \in FriendsOf(job[h].me)
        PROVE  AllInformed'
    <2> DEFINE known == ever[h] \cup Grounds(job[h].me)
    <2>1. /\ job[h].e \in Expense /\ job[h].me \in User
          /\ job[h].route \in {"like", "unlike", "likers"} /\ pc[h] = "gate:friends"
      BY <1>1, <1>4 DEF GateCheckFriends, Fits
    <2>2. Backed(job[h].me, job[h].e, known)
      BY <1>1, <1>4, <2>1, GroundsAre DEF Knows, Backed
    <2>3. Knows(job[h].route, job[h], answer[h], known)
      <3> HIDE DEF known
      <3> QED
        BY <2>1, <2>2 DEF Knows
    <2>4. alone[h] => Right(job[h].route, job[h], answer[h])
      <3> SUFFICES ASSUME alone[h] PROVE Right(job[h].route, job[h], answer[h])
        OBVIOUS
      <3>1. /\ visibility[job[h].e] = "friend_only"
            /\ Owner[job[h].e] \notin Invisible(job[h].me) /\ Owner[job[h].e] \in User
        BY <1>1, <2>1, OwnerAssumption DEF Right
      <3>2. CanSee(job[h].me, job[h].e)
        BY <1>4, <2>1, <3>1 DEF CanSee, Exists, Visibility, Invisible, Graph!Blocked
      <3> QED
        BY <2>1, <3>2 DEF Right
    <2>5. Goto(h, job[h].route, job[h]) /\ Reads
      BY <1>4 DEF GateCheckFriends
    <2> QED
      BY <2>3, <2>4, <2>5, GoingInformed
  <1>5. ASSUME NEW h \in Slot, Done(h), Remember
        PROVE  AllInformed'
    BY <1>5, FinishingInformed
  <1>6. ASSUME NEW h \in Slot, LikersReadBlocks(h)
        PROVE  AllInformed'
    <2> DEFINE locals == Locals(job[h].me, "likers", job[h].e, None, None, {}, Invisible(job[h].me))
    <2>1. Knows("likers:find", locals, answer[h], ever[h] \cup Grounds(locals.me))
      BY DEF Knows
    <2>2. alone[h] => Right("likers:find", locals, answer[h])
      BY <1>1, <1>6 DEF LikersReadBlocks, Right, Locals
    <2>3. Goto(h, "likers:find", locals) /\ Reads
      BY <1>6 DEF LikersReadBlocks
    <2> HIDE DEF locals
    <2> QED
      BY <2>1, <2>2, <2>3, GoingInformed
  <1>7. ASSUME NEW h \in Slot, LikersFind(h)
        PROVE  AllInformed'
    <2> DEFINE shows == {u \in User \ job[h].ids : <<u, job[h].e>> \in likes}
    <2>1. pc[h] = "likers:find" /\ job[h].route = "likers" /\ job[h].e \in Expense
      BY <1>1, <1>7 DEF LikersFind, Fits
    <2>2. Knows("answered", job[h], shows, ever[h] \cup Grounds(job[h].me))
      BY <2>1 DEF Knows
    <2>3. alone[h] => Exact(job[h], shows)
      BY <1>1, <2>1 DEF Right, Exact, Invisible, Graph!Blocked
    <2>4. AnswerWith(h, shows) /\ Reads
      BY <1>7 DEF LikersFind
    <2> HIDE DEF shows
    <2> QED
      BY <2>2, <2>3, <2>4, AnsweringInformed
  <1>8. ASSUME NEW h \in Slot, NEW u \in User, NEW o \in User, FriendExpensesCheckBlock(h, u, o)
        PROVE  AllInformed'
    <2> DEFINE locals == Locals(u, "friend", None, o, None, {}, {})
    <2>1. Knows("friend:friends", locals, answer[h], ever[h] \cup Grounds(u))
      BY <1>8, GroundsAre DEF FriendExpensesCheckBlock, Knows, Locals
    <2>2. Right("friend:friends", locals, answer[h])
      BY <1>8 DEF FriendExpensesCheckBlock, Right, Locals
    <2>3. Goto(h, "friend:friends", locals) /\ Reads /\ locals.me = u
      BY <1>8 DEF FriendExpensesCheckBlock, Locals
    <2> HIDE DEF locals
    <2> QED
      BY <2>1, <2>2, <2>3, GoingInformed
  <1>9. ASSUME NEW h \in Slot, FriendExpensesCheckFriends(h),
               job[h].owner \in FriendsOf(job[h].me)
        PROVE  AllInformed'
    <2>1. Knows("friend:find", job[h], answer[h], ever[h] \cup Grounds(job[h].me))
      BY <1>1, <1>9, GroundsAre DEF FriendExpensesCheckFriends, Knows
    <2>2. alone[h] => Right("friend:find", job[h], answer[h])
      BY <1>1, <1>9 DEF FriendExpensesCheckFriends, Right
    <2> QED
      BY <1>9, <2>1, <2>2, GoingInformed DEF FriendExpensesCheckFriends
  <1>10. ASSUME NEW h \in Slot, FriendExpensesFind(h)
         PROVE  AllInformed'
    <2> DEFINE shows == {e \in Expense : Owner[e] = job[h].owner /\ Shareable(e)}
               known == ever[h] \cup Grounds(job[h].me)
    <2>1. /\ pc[h] = "friend:find" /\ job[h].route = "friend"
          /\ job[h].owner \in User /\ job[h].owner # job[h].me
      BY <1>1, <1>10 DEF FriendExpensesFind, Fits
    <2>2. ASSUME NEW e \in shows
          PROVE  Backed(job[h].me, e, known)
      <3>1. <<"shareable", e>> \in known
        BY GroundsAre DEF Shareable, SHAREABLE_VISIBILITIES, Exists, Visibility
      <3>2. <<"unblocked", Owner[e]>> \in known /\ <<"friend", Owner[e]>> \in known
        BY <1>1, <2>1 DEF Knows
      <3> QED
        BY <3>1, <3>2 DEF Backed
    <2>3. Knows("answered", job[h], shows, known)
      <3> HIDE DEF known, shows
      <3> QED
        BY <2>2 DEF Knows
    <2>4. alone[h] => Exact(job[h], shows)
      <3> SUFFICES ASSUME alone[h] PROVE Exact(job[h], shows)
        OBVIOUS
      <3>1. job[h].owner \notin Invisible(job[h].me) /\ job[h].owner \in FriendsOf(job[h].me)
        BY <1>1, <2>1 DEF Right
      <3>2. ASSUME NEW e \in Expense, Owner[e] = job[h].owner
            PROVE  Shareable(e) <=> CanSee(job[h].me, e)
        BY <2>1, <3>1, <3>2
        DEF CanSee, Shareable, SHAREABLE_VISIBILITIES, Exists, Visibility, Invisible, Graph!Blocked
      <3> QED
        BY <2>1, <3>2 DEF Exact
    <2>5. AnswerWith(h, shows) /\ Reads
      BY <1>10 DEF FriendExpensesFind
    <2> HIDE DEF shows
    <2> QED
      BY <2>3, <2>4, <2>5, AnsweringInformed
  <1>11. ASSUME NEW h \in Slot, NEW u \in User, BoardStart(h, u)
         PROVE  AllInformed'
    <2> DEFINE locals == Locals(u, "board", None, None, None, {}, {})
    <2>1. Knows("board:both", locals, answer[h], ever[h] \cup Grounds(locals.me))
      BY DEF Knows, Locals
    <2>2. Right("board:both", locals, answer[h])
      BY DEF Right
    <2>3. Goto(h, "board:both", locals) /\ Reads
      BY <1>11 DEF BoardStart
    <2> HIDE DEF locals
    <2> QED
      BY <2>1, <2>2, <2>3, GoingInformed
  <1>12. ASSUME NEW h \in Slot, BoardReadFriends(h)
         PROVE  AllInformed'
    <2> DEFINE locals == Locals(job[h].me, "board", None, None, None,
                                FriendsOf(job[h].me), job[h].ids)
               where == IF pc[h] = "board:both" THEN "board:blocks" ELSE "board:sum"
    <2>1. Knows(where, locals, answer[h], ever[h] \cup Grounds(job[h].me))
      BY <1>1, <1>12, GroundsAre DEF BoardReadFriends, Knows, Locals
    <2>2. alone[h] => Right(where, locals, answer[h])
      BY <1>1, <1>12 DEF BoardReadFriends, Right, Locals
    <2>3. Goto(h, where, locals) /\ Reads /\ locals.me = job[h].me
      BY <1>12 DEF BoardReadFriends, Locals
    <2> HIDE DEF locals, where
    <2> QED
      BY <2>1, <2>2, <2>3, GoingInformed
  <1>13. ASSUME NEW h \in Slot, BoardReadBlocks(h)
         PROVE  AllInformed'
    <2> DEFINE locals == Locals(job[h].me, "board", None, None, None,
                                job[h].owners, Invisible(job[h].me))
               where == IF pc[h] = "board:both" THEN "board:friends" ELSE "board:sum"
    <2>1. Knows(where, locals, answer[h], ever[h] \cup Grounds(job[h].me))
      BY <1>1, <1>13, GroundsAre DEF BoardReadBlocks, Knows, Locals
    <2>2. alone[h] => Right(where, locals, answer[h])
      BY <1>1, <1>13 DEF BoardReadBlocks, Right, Locals
    <2>3. Goto(h, where, locals) /\ Reads /\ locals.me = job[h].me
      BY <1>13 DEF BoardReadBlocks, Locals
    <2> HIDE DEF locals, where
    <2> QED
      BY <2>1, <2>2, <2>3, GoingInformed
  <1>14. ASSUME NEW h \in Slot, BoardSum(h)
         PROVE  AllInformed'
    <2> DEFINE shows == {e \in Expense : /\ Owner[e] \in {job[h].me} \cup (job[h].owners \ job[h].ids)
                                         /\ Shareable(e)}
               known == ever[h] \cup Grounds(job[h].me)
    <2>1. pc[h] = "board:sum" /\ job[h].route = "board" /\ job[h].me \in User
      BY <1>1, <1>14 DEF BoardSum, Fits
    <2>2. ASSUME NEW e \in shows
          PROVE  Backed(job[h].me, e, known)
      <3>1. <<"shareable", e>> \in known
        BY GroundsAre DEF Shareable, SHAREABLE_VISIBILITIES, Exists, Visibility
      <3>2. CASE Owner[e] # job[h].me
        <4>1. <<"unblocked", Owner[e]>> \in known /\ <<"friend", Owner[e]>> \in known
          BY <1>1, <2>1, <3>2, OwnerAssumption DEF Knows
        <4> QED
          BY <3>1, <4>1 DEF Backed
      <3> QED
        BY <3>2 DEF Backed
    <2>3. Knows("answered", job[h], shows, known)
      <3> HIDE DEF known, shows
      <3> QED
        BY <2>1, <2>2 DEF Knows
    <2>4. alone[h] => Exact(job[h], shows)
      <3> SUFFICES ASSUME alone[h] PROVE Exact(job[h], shows)
        OBVIOUS
      <3>1. job[h].ids = Invisible(job[h].me) /\ job[h].owners = FriendsOf(job[h].me)
        BY <1>1, <2>1 DEF Right
      <3>2. ASSUME NEW e \in Expense
            PROVE  /\ Owner[e] \in {job[h].me} \cup (job[h].owners \ job[h].ids) /\ Shareable(e)
                      <=> /\ CanSee(job[h].me, e) /\ visibility[e] # "private"
                          /\ Owner[e] \in {job[h].me} \cup FriendsOf(job[h].me)
        BY <2>1, <3>1, OwnerAssumption
        DEF CanSee, Shareable, SHAREABLE_VISIBILITIES, Exists, Visibility, Invisible, Graph!Blocked
      <3> QED
        BY <2>1, <3>2 DEF Exact
    <2>5. AnswerWith(h, shows) /\ Reads
      BY <1>14 DEF BoardSum
    <2> HIDE DEF shows
    <2> QED
      BY <2>3, <2>4, <2>5, AnsweringInformed
  <1>15. ASSUME NEW h \in Slot, NEW u \in User, FeedReadBlocks(h, u)
         PROVE  AllInformed'
    <2> DEFINE locals == Locals(u, "feed", None, None, None, {}, Invisible(u))
    <2>1. Knows("feed:find", locals, answer[h], ever[h] \cup Grounds(u))
      BY GroundsAre DEF Knows, Locals
    <2>2. Right("feed:find", locals, answer[h])
      BY DEF Right, Locals
    <2>3. Goto(h, "feed:find", locals) /\ Reads /\ locals.me = u
      BY <1>15 DEF FeedReadBlocks, Locals
    <2> HIDE DEF locals
    <2> QED
      BY <2>1, <2>2, <2>3, GoingInformed
  <1>16. ASSUME NEW h \in Slot, FeedFind(h)
         PROVE  AllInformed'
    <2> DEFINE shows == {e \in Expense : visibility[e] = "public" /\ Owner[e] \notin job[h].ids}
               known == ever[h] \cup Grounds(job[h].me)
    <2>1. pc[h] = "feed:find" /\ job[h].route = "feed" /\ job[h].me \in User
      BY <1>1, <1>16 DEF FeedFind, Fits
    <2>2. ASSUME NEW e \in shows
          PROVE  Backed(job[h].me, e, known)
      <3>1. <<"shareable", e>> \in known /\ <<"public", e>> \in known
        BY GroundsAre DEF Exists, Visibility
      <3>2. <<"unblocked", Owner[e]>> \in known
        BY <1>1, <2>1, OwnerAssumption DEF Knows
      <3> QED
        BY <3>1, <3>2 DEF Backed
    <2>3. Knows("answered", job[h], shows, known)
      <3> HIDE DEF known, shows
      <3> QED
        BY <2>1, <2>2 DEF Knows
    <2>4. alone[h] => Exact(job[h], shows)
      <3> SUFFICES ASSUME alone[h] PROVE Exact(job[h], shows)
        OBVIOUS
      <3>1. job[h].ids = Invisible(job[h].me)
        BY <1>1, <2>1 DEF Right
      \* Nobody has blocked himself, so his own are among them.
      <3>2. job[h].me \notin job[h].ids
        BY <2>1, <3>1 DEF Invisible, Graph!Exclusive
      <3>3. ASSUME NEW e \in Expense, visibility[e] = "public"
            PROVE  Owner[e] \notin job[h].ids <=> CanSee(job[h].me, e)
        BY <2>1, <3>1, <3>2, <3>3, OwnerAssumption
        DEF CanSee, Exists, Visibility, Invisible, Graph!Blocked
      <3> QED
        BY <2>1, <3>3 DEF Exact
    <2>5. AnswerWith(h, shows) /\ Reads
      BY <1>16 DEF FeedFind
    <2> HIDE DEF shows
    <2> QED
      BY <2>3, <2>4, <2>5, AnsweringInformed
  <1>17. CASE \/ \E e \in Expense : Delete(e) \/ \E v \in Visibility : Log(e, v) \/ Edit(e, v)
              \/ ChangeGraph
    BY <1>17, OthersInformed DEF Delete, Log, Edit, ChangeGraph
  <1>18. CASE UNCHANGED vars
    <2>1. UNCHANGED <<pc, job, answer, ever, alone, tables>>
      BY <1>18 DEF vars, tables
    <2>2. ASSUME NEW h \in Slot PROVE Informed(h)'
      BY <1>1, <2>1, SameTables DEF AllInformed, Informed, Knows, Backed
    <2> QED
      BY <2>2 DEF AllInformed
  <1>19. ASSUME NEW h \in Slot, GateCheckBlock(h) \/ GateCheckFriends(h)
         PROVE  AllInformed'
    BY <1>3, <1>4, <1>5, <1>19 DEF GateCheckBlock, GateCheckFriends, Reads
  <1>20. ASSUME NEW h \in Slot, FriendExpensesCheckFriends(h)
         PROVE  AllInformed'
    BY <1>5, <1>9, <1>20 DEF FriendExpensesCheckFriends, Reads
  <1>21. ASSUME NEW h \in Slot, Like(h) \/ Unlike(h) \/ Return(h)
         PROVE  AllInformed'
    BY <1>5, <1>21 DEF Like, Unlike, Return, Reads
  <1> QED
    BY <1>2, <1>6, <1>7, <1>8, <1>10, <1>11, <1>12, <1>13, <1>14, <1>15, <1>16, <1>17,
       <1>18, <1>19, <1>20, <1>21
    DEF Next, Handler

LEMMA AlwaysInformed == Spec => [](TypeOK /\ JobOK /\ AllInformed)
  <1>1. Init => AllInformed
    BY DEF Init, AllInformed, Informed, Knows
  <1>2. Spec => []Graph!Exclusive
    BY ImplementsGraph, AlwaysExclusive, PTL
  <1> QED
    BY <1>1, <1>2, Typed, NextInformed, PTL DEF Spec

\* VisibilityGate and the queries behind GET /feed, /leaderboard and
\* /users/:username/expenses: whatever changes while they run, an Expense they
\* show was shareable, its owner across no Block, and it public or its owner a
\* Friend, each at some moment of the request.
THEOREM AlwaysVouched == Spec => []ShownIsVouched
  <1>1. AllInformed => ShownIsVouched
    BY DEF AllInformed, Informed, Knows, ShownIsVouched, Lists, Vouched, Backed
  <1> QED
    BY <1>1, AlwaysInformed, PTL

\* VisibilityGate before PUT /expenses/:id/likes, likewise.
THEOREM LikesVouched == Spec => LikedIsVouched
  <1>1. AllInformed /\ [Next]_vars =>
          [\A h \in Slot : pc[h] = "like" /\ likes' # likes /\ pc'[h] # "like" =>
              Vouched(h, job[h].e)]_vars
    BY DEF AllInformed, Informed, Knows, Vouched, Backed
  <1> QED
    BY <1>1, AlwaysInformed, PTL DEF Spec, LikedIsVouched

\* The same routes and the list of likers show exactly what they are for to a
\* caller during whose request no table changed.
THEOREM AlwaysExact == Spec => []ShownExactly
  <1>1. AllInformed => ShownExactly
    BY DEF AllInformed, Informed, Right, Exact, ShownExactly
  <1> QED
    BY <1>1, AlwaysInformed, PTL
=============================================================================
