----------------------------- MODULE RowProofs -----------------------------
(* Theorems about RowCalls, for any users, tables, rows, requests and       *)
(* bounds.                                                                  *)
EXTENDS RowProperties, SequenceTheorems, TLAPS

----------------------------------------------------------------------------
(* What the helpers return.                                                 *)

LEMMA CallFacts ==
    ASSUME TypeOK, NEW c \in Calls, call[c].pc # "idle"
    PROVE  /\ call[c] \in CallRow
           /\ First(c) \in Item /\ First(c).rows \in SUBSET Ids
<1>1. call[c] \in CallRow
  BY DEF TypeOK, Idle
<1>2. call[c].items \in Seq(Item) /\ call[c].items # <<>>
  BY <1>1 DEF CallRow
<1>3. First(c) \in Item
  BY <1>2, HeadTailProperties DEF First
<1> QED BY <1>1, <1>3 DEF Item

LEMMA FollowingType ==
    ASSUME NEW me \in CallRow
    PROVE  /\ Following(me) \in CallRow \cup {Idle}
           /\ Following(me).pc \in {"idle", "cache"}
           /\ Following(me).pc = "cache" => /\ Following(me).user = me.user
                                            /\ Following(me).table = me.table
<1>1. Nothing \in Answer
  BY DEF Nothing, Answer, Row
<1>2. CASE Len(me.items) = 1
  BY <1>2 DEF Following, Idle
<1>3. CASE Len(me.items) # 1
  <2>1. Tail(me.items) \in Seq(Item) \ {<<>>}
    <3>1. me.items \in Seq(Item) /\ me.items # <<>> /\ Len(me.items) \in Nat
      BY DEF CallRow
    <3>2. Tail(me.items) \in Seq(Item) /\ Len(Tail(me.items)) = Len(me.items) - 1
      BY <3>1, HeadTailProperties
    <3>3. Tail(me.items) # <<>>
      <4>1. SUFFICES ASSUME Tail(me.items) = <<>>
                     PROVE  Len(me.items) = 1
        BY <1>3
      <4>2. Len(Tail(me.items)) = 0
        BY <4>1, EmptySeq, Zenon
      <4> QED BY <3>1, <3>2, <4>2
    <3> QED BY <3>2, <3>3
  <2> QED BY <1>1, <1>3, <2>1 DEF Following, CallRow, Places
<1> QED BY <1>2, <1>3

LEMMA FilteredType ==
    ASSUME NEW me \in CallRow, NEW r \in (SUBSET Ids) \cup {NoRestriction}
    PROVE  /\ Filtered(me, r) \in CallRow
           /\ Filtered(me, r).open = me.open
           /\ me.open => Filtered(me, r).restriction = r
           /\ Filtered(me, r).user = me.user /\ Filtered(me, r).table = me.table
           /\ Filtered(me, r).method = me.method /\ Filtered(me, r).items = me.items
BY DEF Filtered, CallRow

LEMMA FilterType ==
    ASSUME TypeOK, NEW c \in Calls, call[c].pc # "idle"
    PROVE  /\ Filter(c) \in (SUBSET Ids) \cup {NoRestriction}
           /\ Filter(c) \in {First(c).rows, NoRestriction}
BY CallFacts DEF Filter

LEMMA ReadType ==
    ASSUME TypeOK, NEW me \in CallRow
    PROVE  /\ Read(me) \in Answer
           /\ Read(me).asked = Selected(Current(me))
           /\ Selected(Current(me)) \in SUBSET Ids
<1>1. Selected(Current(me)) \in SUBSET Ids
  BY DEF Selected, Current, CallRow
<1>2. row[me.table] \in [Ids -> Row]
  BY DEF TypeOK, CallRow
<1> QED BY <1>1, <1>2 DEF Read, Answer, Row

(* Parameters keep their index, and the index of new ones comes next.       *)
LEMMA ParamsKept ==
    ASSUME TypeOK, NEW t \in Tables, NEW p \in SUBSET Ids, AddParams(t, p)
    PROVE  /\ params' \in [Tables -> Seq(SUBSET Ids)]
           /\ \A s \in Tables : Len(params'[s]) >= Len(params[s])
           /\ \A s \in Tables : \A i \in 1 .. Len(params[s]) : params'[s][i] = params[s][i]
           /\ IndexOf(t, p) \in 1 .. Len(params'[t])
           /\ params'[t][IndexOf(t, p)] = p
           /\ IndexOf(t, p) \in 1 .. Len(params[t]) => params[t][IndexOf(t, p)] = p
<1>1. params \in [Tables -> Seq(SUBSET Ids)] /\ params[t] \in Seq(SUBSET Ids)
  BY DEF TypeOK
<1>2. CASE Known(t, p) = {}
  <2>1. params' = [params EXCEPT ![t] = Append(@, p)]
    BY <1>2 DEF AddParams
  <2>2. IndexOf(t, p) = Len(params[t]) + 1
    BY <1>2 DEF IndexOf
  <2>3. /\ Append(params[t], p) \in Seq(SUBSET Ids)
        /\ Len(Append(params[t], p)) = Len(params[t]) + 1
        /\ Append(params[t], p)[Len(params[t]) + 1] = p
        /\ \A i \in 1 .. Len(params[t]) : Append(params[t], p)[i] = params[t][i]
    BY <1>1
  <2>4. \A s \in Tables : params'[s] = IF s = t THEN Append(params[t], p) ELSE params[s]
    BY <1>1, <2>1
  <2>5. \A s \in Tables : Len(params[s]) \in Nat
    BY <1>1
  <2>6. params' \in [Tables -> Seq(SUBSET Ids)]
    BY <1>1, <2>1, <2>3
  <2> QED BY <2>2, <2>3, <2>4, <2>5, <2>6
<1>3. CASE Known(t, p) # {}
  <2>1. IndexOf(t, p) \in Known(t, p)
    BY <1>3 DEF IndexOf
  <2>2. IndexOf(t, p) \in 1 .. Len(params[t]) /\ params[t][IndexOf(t, p)] = p
    BY <1>1, <2>1 DEF Known, Compare
  <2>3. params' = params
    BY <1>3 DEF AddParams
  <2>4. \A s \in Tables : Len(params[s]) \in Nat
    BY <1>1
  <2> QED BY <1>1, <2>2, <2>3, <2>4
<1> QED BY <1>2, <1>3

(* Rows and histories after a write.                                        *)
LEMMA WriteType ==
    ASSUME TypeOK, NEW me \in CallRow, NEW S, NEW live \in BOOLEAN, WriteRows(me, S, live)
    PROVE  /\ row' \in [Tables -> [Ids -> Row]]
           /\ writes' \in Nat /\ writes' = writes + 1
           /\ wrote' \in [Users -> [Tables -> [Ids -> Nat]]]
           /\ \A t \in Tables, i \in Ids :
                 row'[t][i] = IF t = me.table /\ i \in S THEN [live |-> live, write |-> writes + 1]
                              ELSE row[t][i]
<1>1. me.table \in Tables /\ me.user \in Users
  BY DEF CallRow
<1>2. row \in [Tables -> [Ids -> Row]] /\ writes \in Nat /\ wrote \in [Users -> [Tables -> [Ids -> Nat]]]
  BY DEF TypeOK
<1>3. writes' = writes + 1 /\ writes' \in Nat
  BY <1>2 DEF WriteRows
<1>4. [live |-> live, write |-> writes + 1] \in Row
  BY <1>2 DEF Row
<1>5. row' = [row EXCEPT ![me.table] = [i \in Ids |->
                  IF i \in S THEN [live |-> live, write |-> writes + 1] ELSE row[me.table][i]]]
  BY DEF WriteRows
<1>6. wrote' = [wrote EXCEPT ![me.user][me.table] = [i \in Ids |->
                    IF i \in S THEN writes + 1 ELSE wrote[me.user][me.table][i]]]
  BY DEF WriteRows
<1>7. row' \in [Tables -> [Ids -> Row]]
  BY <1>1, <1>2, <1>4, <1>5
<1>8. wrote' \in [Users -> [Tables -> [Ids -> Nat]]]
  BY <1>1, <1>2, <1>3, <1>6
<1>9. \A t \in Tables, i \in Ids :
         row'[t][i] = IF t = me.table /\ i \in S THEN [live |-> live, write |-> writes + 1]
                      ELSE row[t][i]
  BY <1>1, <1>2, <1>5
<1> QED BY <1>3, <1>7, <1>8, <1>9

(* A call that moves on, and the rest of the state when nothing else does.  *)
LEMMA GoType ==
    ASSUME TypeOK, NEW c \in Calls, NEW me \in CallRow, NEW pc \in Places, Go(c, me, pc)
    PROVE  call' \in [Calls -> CallRow \cup {Idle}]
<1>1. [me EXCEPT !.pc = pc] \in CallRow
  BY DEF CallRow
<1> QED BY <1>1 DEF Go, TypeOK

LEMMA EndType ==
    ASSUME TypeOK, NEW c \in Calls, NEW me \in CallRow \cup {Idle}, call' = [call EXCEPT ![c] = me]
    PROVE  call' \in [Calls -> CallRow \cup {Idle}]
BY DEF TypeOK

LEMMA CallOnly ==
    ASSUME TypeOK, call' \in [Calls -> CallRow \cup {Idle}],
           UNCHANGED <<row, registered, writes, params, cache, cached, made, wrote>>
    PROVE  TypeOK'
BY DEF TypeOK

(* The cache after a write.                                                 *)
LEMMA DeleteType ==
    ASSUME TypeOK, NEW u \in Users, NEW t \in Tables, DeleteInCache(u, t)
    PROVE  /\ cache' = [v \in Users |-> [s \in Tables |-> cache'[v][s]]]
           /\ cached' \in SUBSET Users
           /\ \A v \in Users, s \in Tables : cache'[v][s] \in {<<>>, cache[v][s]}
<1>1. /\ cache = [v \in Users |-> [s \in Tables |-> cache[v][s]]]
      /\ cached \in SUBSET Users /\ View \in Tables
  BY CallsAssumption DEF TypeOK
<1>2. CASE u \notin cached
  BY <1>1, <1>2 DEF DeleteInCache
<1>3. CASE u \in cached /\ t \in Wide
  BY <1>1, <1>3 DEF DeleteInCache, Empty
<1>4. CASE u \in cached /\ t \notin Wide /\ cache[u][t] = <<>>
  BY <1>1, <1>4 DEF DeleteInCache
<1>5. CASE u \in cached /\ t \notin Wide /\ cache[u][t] # <<>>
  <2>1. cache' = [cache EXCEPT ![u][View] = <<>>, ![u][t] = <<>>] /\ cached' = cached
    BY <1>5 DEF DeleteInCache
  <2>2. cache' = [v \in Users |-> [s \in Tables |->
                    IF v = u /\ s \in {View, t} THEN <<>> ELSE cache[v][s]]]
    BY <1>1, <2>1
  <2>3. \A v \in Users, s \in Tables :
           cache'[v][s] = IF v = u /\ s \in {View, t} THEN <<>> ELSE cache[v][s]
    BY <2>2
  <2>4. cache' = [v \in Users |-> [s \in Tables |-> cache'[v][s]]]
    BY <2>2, <2>3, Zenon
  <2> QED BY <1>1, <2>1, <2>3, <2>4
<1> QED BY <1>2, <1>3, <1>4, <1>5

----------------------------------------------------------------------------
(* Type correctness.                                                        *)

LEMMA InitTyped == Init => TypeOK
<1> SUFFICES ASSUME Init PROVE TypeOK
  OBVIOUS
<1>1. row \in [Tables -> [Ids -> Row]]
  BY CallsAssumption DEF Init, Row
<1>2. \A u \in Users, t \in Tables : cache[u][t] = <<>>
  BY DEF Init, Empty
<1>3. \A u \in Users, t \in Tables :
         /\ cache[u][t] \in [DOMAIN cache[u][t] -> Answer]
         /\ DOMAIN cache[u][t] \subseteq 1 .. Len(params[t])
  <2> SUFFICES ASSUME NEW u \in Users, NEW t \in Tables
               PROVE  /\ cache[u][t] \in [DOMAIN cache[u][t] -> Answer]
                      /\ DOMAIN cache[u][t] \subseteq 1 .. Len(params[t])
    OBVIOUS
  <2>1. cache[u][t] = <<>>
    BY <1>2
  <2> QED BY <2>1
<1>4. cache = [u \in Users |-> [t \in Tables |-> cache[u][t]]]
  BY DEF Init, Empty
<1>5. params \in [Tables -> Seq(SUBSET Ids)]
  BY DEF Init, Empty
<1>6. call \in [Calls -> CallRow \cup {Idle}] /\ made \in 0 .. MaxCalls
  BY CallsAssumption DEF Init
<1> QED BY <1>1, <1>3, <1>4, <1>5, <1>6 DEF Init, TypeOK

LEMMA StartTyped ==
    ASSUME TypeOK, NEW c \in Calls, NEW u \in Users, NEW t \in Tables, NEW m \in Methods,
           NEW q \in Requests, Start(c, u, t, m, q)
    PROVE  TypeOK'
<1> DEFINE me == [pc |-> "cache", user |-> u, table |-> t, method |-> m, items |-> q, open |-> TRUE,
                  restriction |-> NoRestriction, fresh |-> "unused", target |-> {}, answer |-> Nothing]
<1>1. Nothing \in Answer /\ q \in Seq(Item) \ {<<>>}
  BY CallsAssumption DEF Nothing, Answer, Row
<1>2. me \in CallRow
  BY <1>1 DEF CallRow, Places
<1>3. call' = [call EXCEPT ![c] = me]
  BY DEF Start
<1> HIDE DEF me
<1>4. call' \in [Calls -> CallRow \cup {Idle}]
  BY <1>2, <1>3, EndType
<1>5. made' \in 0 .. MaxCalls
  BY CallsAssumption DEF Start, TypeOK
<1> QED BY <1>4, <1>5 DEF Start, TypeOK

LEMMA InvalidateTyped ==
    ASSUME TypeOK, NEW c \in Calls, Invalidate(c)
    PROVE  TypeOK'
<1>1. call[c] \in CallRow /\ call[c].user \in Users /\ call[c].table \in Tables
  BY CallFacts DEF Invalidate, At, CallRow
<1>2. call' \in [Calls -> CallRow \cup {Idle}]
  BY <1>1, GoType DEF Invalidate, Places
<1>3. DeleteInCache(call[c].user, call[c].table)
  BY DEF Invalidate
<1>4. /\ cache' = [v \in Users |-> [s \in Tables |-> cache'[v][s]]]
      /\ cached' \in SUBSET Users
      /\ \A v \in Users, s \in Tables : cache'[v][s] \in {<<>>, cache[v][s]}
  BY <1>1, <1>3, DeleteType
<1>5. \A v \in Users, s \in Tables :
         /\ cache'[v][s] \in [DOMAIN cache'[v][s] -> Answer]
         /\ DOMAIN cache'[v][s] \subseteq 1 .. Len(params[s])
  <2> SUFFICES ASSUME NEW v \in Users, NEW s \in Tables
               PROVE  /\ cache'[v][s] \in [DOMAIN cache'[v][s] -> Answer]
                      /\ DOMAIN cache'[v][s] \subseteq 1 .. Len(params[s])
    OBVIOUS
  <2>1. CASE cache'[v][s] = <<>>
    BY <2>1
  <2>2. CASE cache'[v][s] = cache[v][s]
    BY <2>2 DEF TypeOK
  <2> QED BY <1>4, <2>1, <2>2
<1> QED BY <1>2, <1>4, <1>5 DEF Invalidate, TypeOK

(* Answers stay filed under known parameters when new ones are added.       *)
LEMMA ParamsTyped ==
    ASSUME TypeOK, NEW t \in Tables, NEW p \in SUBSET Ids, AddParams(t, p),
           NEW u \in Users, NEW s \in Tables
    PROVE  DOMAIN cache[u][s] \subseteq 1 .. Len(params'[s])
<1>1. params \in [Tables -> Seq(SUBSET Ids)] /\ params' \in [Tables -> Seq(SUBSET Ids)]
  BY ParamsKept DEF TypeOK
<1>2. Len(params[s]) \in Nat /\ Len(params'[s]) \in Nat
  BY <1>1
<1>3. Len(params'[s]) >= Len(params[s])
  BY ParamsKept
<1>4. DOMAIN cache[u][s] \subseteq 1 .. Len(params[s])
  BY DEF TypeOK
<1> QED BY <1>2, <1>3, <1>4

(* A reading of LookUp: the parameters, and the answer found.               *)
LEMMA LookUpFacts ==
    ASSUME TypeOK, NEW c \in Calls, LookUp(c)
    PROVE  LET me == call[c]  p == First(c).rows  t == me.table
               i == IndexOf(t, p)  mine == cache[me.user][t] IN
           /\ me \in CallRow /\ me.user \in Users /\ t \in Tables /\ p \in SUBSET Ids
           /\ me.method = "SELECT"
           /\ \/ UNCHANGED params /\ Go(c, me, "filter")
              \/ AddParams(t, p) /\ Go(c, me, "filter")
              \/ /\ AddParams(t, p) /\ i \in DOMAIN mine /\ mine[i] \in Answer
                 /\ Go(c, [me EXCEPT !.answer = mine[i]], "store")
<1>1. /\ call[c] \in CallRow /\ call[c].user \in Users /\ call[c].table \in Tables
      /\ First(c).rows \in SUBSET Ids
  BY CallFacts DEF LookUp, At, CallRow
<1> DEFINE mine == cache[call[c].user][call[c].table]
<1>2. \A i \in DOMAIN mine : mine[i] \in Answer
  BY <1>1 DEF TypeOK
<1> QED BY <1>1, <1>2 DEF LookUp

LEMMA LookUpTyped ==
    ASSUME TypeOK, NEW c \in Calls, LookUp(c)
    PROVE  TypeOK'
<1> DEFINE me == call[c]  p == First(c).rows  t == me.table
           i == IndexOf(t, p)  mine == cache[me.user][t]
<1>1. UNCHANGED <<row, registered, writes, cache, cached, made, wrote>>
  BY DEF LookUp
<1>2. me \in CallRow /\ me.user \in Users /\ t \in Tables /\ p \in SUBSET Ids
  BY LookUpFacts
<1>3. CASE UNCHANGED params /\ Go(c, me, "filter")
  BY <1>1, <1>2, <1>3, GoType, CallOnly DEF Places
<1>4. CASE AddParams(t, p) /\ call' \in [Calls -> CallRow \cup {Idle}]
  <2>1. params' \in [Tables -> Seq(SUBSET Ids)]
    BY <1>2, <1>4, ParamsKept
  <2>2. \A u \in Users, s \in Tables : DOMAIN cache[u][s] \subseteq 1 .. Len(params'[s])
    BY <1>2, <1>4, ParamsTyped
  <2> QED BY <1>1, <1>4, <2>1, <2>2 DEF TypeOK
<1>5. CASE AddParams(t, p) /\ Go(c, me, "filter")
  BY <1>2, <1>4, <1>5, GoType DEF Places
<1>6. CASE AddParams(t, p) /\ mine[i] \in Answer /\ Go(c, [me EXCEPT !.answer = mine[i]], "store")
  <2>1. [me EXCEPT !.answer = mine[i]] \in CallRow
    BY <1>2, <1>6 DEF CallRow
  <2> QED BY <1>4, <1>6, <2>1, GoType DEF Places
<1> QED BY <1>3, <1>5, <1>6, LookUpFacts

(* The call as an UPDATE starts to be built.                                *)
BuildsOn(me) == [me EXCEPT !.fresh = IF me.open THEN "unused" ELSE "open"]

LEMMA BuildFacts ==
    ASSUME NEW c \in Calls, BuildUpdate(c), call[c] \in CallRow
    PROVE  LET me == call[c]  new == BuildsOn(me) IN
           /\ Go(c, new, "columns") /\ new \in CallRow
           /\ new.user = me.user /\ new.table = me.table /\ new.method = me.method
           /\ new.items = me.items /\ new.restriction = me.restriction
           /\ new.fresh = "unused" => me.open
<1>1. Go(c, BuildsOn(call[c]), "columns")
  BY DEF BuildUpdate, BuildsOn
<1> QED BY <1>1 DEF CallRow, BuildsOn

(* The call when the UPDATE is built, as far as its rows go.                 *)
Named(c) == First(c).byId /\ BuildOpen(call[c])
Names(c) ==
    [call[c] EXCEPT
       !.restriction = IF Named(c) /\ call[c].fresh = "unused" THEN First(c).rows ELSE @,
       !.target = IF Named(c) THEN First(c).rows ELSE Selected(BuildRestriction(call[c]))]

LEMMA NameFacts ==
    ASSUME TypeOK, NEW c \in Calls, NameRow(c)
    PROVE  LET me == call[c]  new == Names(c) IN
           /\ Go(c, new, "update") /\ new \in CallRow
           /\ new.user = me.user /\ new.table = me.table /\ new.method = me.method
           /\ new.items = me.items
<1>1. call[c] \in CallRow /\ First(c).rows \in SUBSET Ids
  BY CallFacts DEF NameRow, At
<1>2. Go(c, Names(c), "update")
  BY DEF NameRow, Names, Named
<1>3. Selected(BuildRestriction(call[c])) \in SUBSET Ids
  BY <1>1 DEF Selected, BuildRestriction, CallRow
<1> QED BY <1>1, <1>2, <1>3 DEF CallRow, Names

(* A record's id is lost only on a closed handle.                           *)
LEMMA NamedOrNot ==
    ASSUME TypeOK, NEW c \in Calls, NameRow(c), First(c).byId,
           call[c].fresh = "unused" => call[c].restriction \in {First(c).rows, NoRestriction}
    PROVE  Names(c).target = First(c).rows \/ Unnamed(Names(c))
<1>1. call[c] \in CallRow /\ First(c).rows \in SUBSET Ids
  BY CallFacts DEF NameRow, At
<1>2. CASE Named(c)
  BY <1>1, <1>2 DEF Names, CallRow
<1>3. CASE ~Named(c)
  <2>1. /\ Names(c).restriction = call[c].restriction /\ Names(c).fresh = call[c].fresh
        /\ Names(c).open = call[c].open
        /\ Names(c).target = Selected(BuildRestriction(call[c]))
    BY <1>1, <1>3 DEF Names, CallRow
  <2>2. call[c].fresh = "closed" \/ (call[c].fresh = "unused" /\ ~call[c].open)
    BY <1>1, <1>3 DEF Named, BuildOpen, CallRow
  <2> QED BY <1>1, <2>1, <2>2 DEF Unnamed, Selected, BuildRestriction
<1> QED BY <1>2, <1>3

(* The steps that change nothing but the call.                              *)
LEMMA QuietTyped ==
    ASSUME TypeOK, NEW c \in Calls,
           \/ Verify(c) \/ SetupFilter(c) \/ SelectRows(c) \/ BuildUpdate(c)
           \/ NameRow(c) \/ RereadRows(c) \/ GetRows(c) \/ GuardDelete(c) \/ CloseHandle(c)
           \/ CloseFresh(c) \/ StatementFails(c)
    PROVE  TypeOK'
<1>1. UNCHANGED <<row, registered, writes, params, cache, cached, made, wrote>>
  BY DEF Verify, SetupFilter, SelectRows, BuildUpdate, NameRow, RereadRows, GetRows, GuardDelete,
         CloseHandle, CloseFresh, StatementFails
<1>2. call[c].pc # "idle"
  BY DEF Verify, SetupFilter, SelectRows, BuildUpdate, NameRow, RereadRows, GetRows, GuardDelete,
         CloseHandle, CloseFresh, StatementFails, At
<1>3. call[c] \in CallRow /\ First(c) \in Item /\ First(c).rows \in SUBSET Ids
  BY <1>2, CallFacts
<1>4. Filter(c) \in (SUBSET Ids) \cup {NoRestriction}
  BY <1>2, FilterType
<1>5. Filtered(call[c], Filter(c)) \in CallRow
  BY <1>3, <1>4, FilteredType
<1>6. CASE call' = [call EXCEPT ![c] = Idle]
  BY <1>1, <1>6, EndType, CallOnly
<1>7. CASE Verify(c)
  <2>1. CASE call[c].table \in registered
    BY <1>1, <1>3, <1>7, <2>1, GoType, CallOnly DEF Verify, Places
  <2> QED BY <1>6, <1>7, <2>1 DEF Verify
<1>8. CASE SetupFilter(c)
  BY <1>1, <1>5, <1>8, GoType, CallOnly DEF SetupFilter, Places
<1>9. CASE SelectRows(c)
  <2>1. Read(call[c]) \in Answer
    BY <1>3, ReadType
  <2>2. [call[c] EXCEPT !.answer = Read(call[c])] \in CallRow
    BY <1>3, <2>1 DEF CallRow
  <2> QED BY <1>1, <1>9, <2>2, GoType, CallOnly DEF SelectRows, Places
<1>10. CASE BuildUpdate(c)
  <2>1. Go(c, BuildsOn(call[c]), "columns") /\ BuildsOn(call[c]) \in CallRow
    BY <1>3, <1>10, BuildFacts
  <2> QED BY <1>1, <2>1, GoType, CallOnly DEF Places
<1>14. CASE NameRow(c)
  <2>1. Go(c, Names(c), "update") /\ Names(c) \in CallRow
    BY <1>14, NameFacts
  <2> QED BY <1>1, <2>1, GoType, CallOnly DEF Places
<1>15. CASE CloseFresh(c)
  <2> DEFINE new == [call[c] EXCEPT !.fresh = "closed"]
  <2>1. new \in CallRow /\ call' = [call EXCEPT ![c] = new]
    BY <1>3, <1>15 DEF CallRow, CloseFresh
  <2> HIDE DEF new
  <2> QED BY <1>1, <2>1, EndType, CallOnly
<1>11. CASE RereadRows(c)
  BY <1>1, <1>3, <1>11, FollowingType, EndType, CallOnly DEF RereadRows
<1>12. CASE GetRows(c)
  BY <1>1, <1>5, <1>12, GoType, CallOnly DEF GetRows, Places
<1>13. CASE GuardDelete(c)
  <2>1. CASE Go(c, call[c], "delete")
    BY <1>1, <1>3, <2>1, GoType, CallOnly DEF Places
  <2> QED BY <1>6, <1>13, <2>1 DEF GuardDelete
<1>16. CASE CloseHandle(c)
  <2>1. [call[c] EXCEPT !.open = FALSE] \in CallRow
    BY <1>3 DEF CallRow
  <2>2. call' = [call EXCEPT ![c] = [call[c] EXCEPT !.open = FALSE]]
    BY <1>16 DEF CloseHandle
  <2> QED BY <1>1, <2>1, <2>2, EndType, CallOnly
<1>17. CASE StatementFails(c)
  BY <1>6, <1>17 DEF StatementFails
<1> QED
  BY <1>7, <1>8, <1>9, <1>10, <1>11, <1>12, <1>13, <1>14, <1>15, <1>16,
     <1>17

(* A write: its statement, and what the call does next.                     *)
LEMMA WriteTyped ==
    ASSUME TypeOK, NEW me \in CallRow, NEW S, NEW live \in BOOLEAN, WriteRows(me, S, live),
           call' \in [Calls -> CallRow \cup {Idle}],
           UNCHANGED <<registered, params, cache, cached, made>>
    PROVE  TypeOK'
<1>1. /\ row' \in [Tables -> [Ids -> Row]] /\ writes' \in Nat
      /\ wrote' \in [Users -> [Tables -> [Ids -> Nat]]]
  BY WriteType
<1> QED BY <1>1 DEF TypeOK

LEMMA WritingTyped ==
    ASSUME TypeOK, NEW c \in Calls, InsertRow(c) \/ UpdateRows(c) \/ DeleteRows(c)
    PROVE  TypeOK'
<1>1. call[c] \in CallRow
  BY CallFacts DEF InsertRow, UpdateRows, DeleteRows, At
<1>2. UNCHANGED <<registered, params, cache, cached, made>>
  BY DEF InsertRow, UpdateRows, DeleteRows
<1>3. CASE InsertRow(c)
  <2>1. call' \in [Calls -> CallRow \cup {Idle}]
    BY <1>1, <1>3, FollowingType, EndType DEF InsertRow
  <2> QED BY <1>1, <1>2, <1>3, <2>1, WriteTyped DEF InsertRow
<1>4. CASE UpdateRows(c)
  <2>1. call' \in [Calls -> CallRow \cup {Idle}]
    BY <1>1, <1>4, GoType DEF UpdateRows, Places
  <2> QED BY <1>1, <1>2, <1>4, <2>1, WriteTyped DEF UpdateRows
<1>5. CASE DeleteRows(c)
  <2>1. CASE /\ call' = [call EXCEPT ![c] = Idle]
             /\ UNCHANGED <<row, writes, wrote>>
    BY <1>2, <2>1, EndType, CallOnly
  <2>2. CASE /\ WriteRows(call[c], LiveIn(call[c].table, call[c].restriction), FALSE)
             /\ call' = [call EXCEPT ![c] = Following(call[c])]
    <3>1. call' \in [Calls -> CallRow \cup {Idle}]
      BY <1>1, <2>2, FollowingType, EndType
    <3> QED BY <1>1, <1>2, <2>2, <3>1, WriteTyped
  <2> QED BY <1>5, <2>1, <2>2 DEF DeleteRows
<1> QED BY <1>3, <1>4, <1>5

(* A reading of StoreAnswer.                                                *)
LEMMA StoreFacts ==
    ASSUME TypeOK, NEW c \in Calls, StoreAnswer(c)
    PROVE  LET u == call[c].user  t == call[c].table  p == First(c).rows  i == IndexOf(t, p) IN
           /\ call[c] \in CallRow /\ u \in Users /\ t \in Tables /\ call[c].answer \in Answer
           /\ p \in SUBSET Ids /\ AddParams(t, p)
           /\ cache' = [v \in Users |-> [s \in Tables |-> cache'[v][s]]]
           /\ \A v \in Users, s \in Tables :
                 cache'[v][s] = IF v = u /\ s = t
                                THEN [j \in DOMAIN cache[u][t] \cup {i} |->
                                        IF j = i THEN call[c].answer ELSE cache[u][t][j]]
                                ELSE cache[v][s]
<1> DEFINE u == call[c].user  t == call[c].table  p == First(c).rows  i == IndexOf(t, p)
           new == [j \in DOMAIN cache[u][t] \cup {i} |->
                     IF j = i THEN call[c].answer ELSE cache[u][t][j]]
<1>1. /\ call[c] \in CallRow /\ u \in Users /\ t \in Tables /\ call[c].answer \in Answer
      /\ p \in SUBSET Ids
  BY CallFacts DEF StoreAnswer, At, CallRow
<1>2. AddParams(t, p) /\ cache' = [cache EXCEPT ![u][t] = new]
  BY DEF StoreAnswer
<1> HIDE DEF new
<1>3. /\ cache' = [v \in Users |-> [s \in Tables |-> cache'[v][s]]]
      /\ \A v \in Users, s \in Tables :
            cache'[v][s] = IF v = u /\ s = t THEN new ELSE cache[v][s]
  <2> HIDE DEF u, t
  <2>1. cache = [v \in Users |-> [s \in Tables |-> cache[v][s]]]
    BY DEF TypeOK
  <2>2. cache' = [v \in Users |-> [s \in Tables |->
                      IF v = u /\ s = t THEN new ELSE cache[v][s]]]
    BY <1>1, <1>2, <2>1
  <2>3. \A v \in Users, s \in Tables :
           cache'[v][s] = IF v = u /\ s = t THEN new ELSE cache[v][s]
    BY <2>2
  <2>4. cache' = [v \in Users |-> [s \in Tables |-> cache'[v][s]]]
    BY <2>2, <2>3, Zenon
  <2> QED BY <2>3, <2>4
<1> QED BY <1>1, <1>2, <1>3 DEF new

LEMMA StoreTyped ==
    ASSUME TypeOK, NEW c \in Calls, StoreAnswer(c)
    PROVE  TypeOK'
<1> DEFINE u == call[c].user  t == call[c].table  a == call[c].answer  p == First(c).rows
           i == IndexOf(t, p)
<1>1. /\ call[c] \in CallRow /\ u \in Users /\ t \in Tables /\ a \in Answer
      /\ p \in SUBSET Ids /\ AddParams(t, p)
      /\ cache' = [v \in Users |-> [s \in Tables |-> cache'[v][s]]]
      /\ \A v \in Users, s \in Tables :
            cache'[v][s] = IF v = u /\ s = t
                           THEN [j \in DOMAIN cache[u][t] \cup {i} |->
                                   IF j = i THEN a ELSE cache[u][t][j]]
                           ELSE cache[v][s]
  BY StoreFacts
<1>2. call' \in [Calls -> CallRow \cup {Idle}]
  BY <1>1, FollowingType, EndType DEF StoreAnswer
<1>3. params' \in [Tables -> Seq(SUBSET Ids)] /\ i \in 1 .. Len(params'[t])
  BY <1>1, ParamsKept
<1>4. UNCHANGED <<row, registered, writes, made, wrote>> /\ cached' \in SUBSET Users
  BY <1>1 DEF StoreAnswer, TypeOK
<1> HIDE DEF i, a, u, t, p
<1>5. ASSUME NEW v \in Users, NEW s \in Tables
      PROVE  /\ cache'[v][s] \in [DOMAIN cache'[v][s] -> Answer]
             /\ DOMAIN cache'[v][s] \subseteq 1 .. Len(params'[s])
  <2>1. /\ cache[v][s] \in [DOMAIN cache[v][s] -> Answer]
        /\ DOMAIN cache[v][s] \subseteq 1 .. Len(params'[s])
    BY <1>1, ParamsTyped DEF TypeOK
  <2>2. CASE ~(v = u /\ s = t)
    BY <1>1, <2>1, <2>2
  <2>3. CASE v = u /\ s = t
    <3>1. cache'[v][s] = [j \in DOMAIN cache[v][s] \cup {i} |->
                             IF j = i THEN a ELSE cache[v][s][j]]
      BY <1>1, <2>3
    <3>2. i \in 1 .. Len(params'[s])
      BY <1>3, <2>3
    <3>3. DOMAIN cache'[v][s] = DOMAIN cache[v][s] \cup {i}
      BY <3>1
    <3>4. \A j \in DOMAIN cache[v][s] : cache[v][s][j] \in Answer
      BY <2>1
    <3>5. cache'[v][s] \in [DOMAIN cache[v][s] \cup {i} -> Answer]
      BY <1>1, <3>1, <3>4
    <3> QED BY <2>1, <3>2, <3>3, <3>5
  <2> QED BY <2>2, <2>3
<1> QED BY <1>1, <1>2, <1>3, <1>4, <1>5 DEF TypeOK

LEMMA StepTyped == TypeOK /\ [Next]_vars => TypeOK'
<1> SUFFICES ASSUME TypeOK, [Next]_vars
             PROVE  TypeOK'
  OBVIOUS
<1>1. CASE UNCHANGED vars
  BY <1>1 DEF TypeOK, vars
<1>2. ASSUME NEW t \in Tables, Reregister(t)
      PROVE  TypeOK'
  BY <1>2, CallsAssumption DEF Reregister, TypeOK
<1>3. ASSUME NEW c \in Calls, NEW u \in Users, NEW t \in Tables, NEW m \in Methods,
             NEW q \in Requests, Start(c, u, t, m, q)
      PROVE  TypeOK'
  BY <1>3, StartTyped
<1>4. ASSUME NEW c \in Calls, Handle(c) \/ CloseHandle(c) \/ CloseFresh(c) \/ StatementFails(c)
      PROVE  TypeOK'
  BY <1>4, InvalidateTyped, LookUpTyped, QuietTyped, WritingTyped, StoreTyped DEF Handle
<1> QED BY <1>1, <1>2, <1>3, <1>4 DEF Next

(* Every reachable state is typed: in particular an answer in the cache is  *)
(* filed under an index that the parameters of its table have.              *)
THEOREM RowTypeCorrect == Spec => []TypeOK
<1> QED BY InitTyped, StepTyped, PTL DEF Spec

----------------------------------------------------------------------------
(* The steps of a call, and the answers that are filed.                     *)

LEMMA Moved ==
    ASSUME TypeOK, CallsInStep, NEW c \in Calls, NEW me, call' = [call EXCEPT ![c] = me],
           me.pc # "idle" => InStep(me)
    PROVE  CallsInStep'
<1>1. \A d \in Calls : call'[d] = IF d = c THEN me ELSE call[d]
  BY DEF TypeOK
<1>2. ASSUME NEW d \in Calls, call'[d].pc # "idle"
      PROVE  InStep(call'[d])
  BY <1>1, <1>2 DEF CallsInStep
<1> QED BY <1>2 DEF CallsInStep

(* The same when only the place of the call is new.                         *)
LEMMA Went ==
    ASSUME TypeOK, CallsInStep, NEW c \in Calls, NEW me \in CallRow, NEW pc \in Places,
           Go(c, me, pc), InStep([me EXCEPT !.pc = pc])
    PROVE  CallsInStep'
<1>1. call' = [call EXCEPT ![c] = [me EXCEPT !.pc = pc]]
  BY DEF Go
<1> QED BY <1>1, Moved

LEMMA FollowingInStep ==
    ASSUME NEW me \in CallRow, Following(me).pc # "idle"
    PROVE  InStep(Following(me))
BY FollowingType DEF InStep

LEMMA StepInStep ==
    ASSUME TypeOK, CacheCovers, CallsInStep, [Next]_vars
    PROVE  CallsInStep'
<1>1. CASE UNCHANGED call
  BY <1>1 DEF CallsInStep
<1>2. ASSUME NEW c \in Calls, call' = [call EXCEPT ![c] = Idle]
      PROVE  CallsInStep'
  BY <1>2, Moved DEF Idle
<1>3. ASSUME NEW c \in Calls, NEW u \in Users, NEW t \in Tables, NEW m \in Methods,
             NEW q \in Requests, Start(c, u, t, m, q)
      PROVE  CallsInStep'
  <2> DEFINE me == [pc |-> "cache", user |-> u, table |-> t, method |-> m, items |-> q,
                    open |-> TRUE, restriction |-> NoRestriction, fresh |-> "unused",
                    target |-> {}, answer |-> Nothing]
  <2>1. call' = [call EXCEPT ![c] = me]
    BY <1>3 DEF Start
  <2>2. InStep(me)
    BY DEF InStep
  <2> HIDE DEF me
  <2> QED BY <2>1, <2>2, Moved
<1>4. ASSUME NEW c \in Calls, call[c].pc # "idle",
             Handle(c) \/ CloseHandle(c) \/ CloseFresh(c) \/ StatementFails(c)
      PROVE  CallsInStep'
  <2> DEFINE me == call[c]  asked == First(c).rows
  <2>1. /\ me \in CallRow /\ First(c) \in Item /\ asked \in SUBSET Ids
        /\ Filter(c) \in (SUBSET Ids) \cup {NoRestriction}
        /\ Filter(c) \in {asked, NoRestriction} /\ InStep(me)
    BY <1>4, CallFacts, FilterType DEF CallsInStep
  <2>2. asked = Head(me.items).rows
    BY DEF First
  <2>3. /\ Filtered(me, Filter(c)) \in CallRow
        /\ Filtered(me, Filter(c)).open = me.open
        /\ me.open => Filtered(me, Filter(c)).restriction = Filter(c)
        /\ Filtered(me, Filter(c)).method = me.method /\ Filtered(me, Filter(c)).items = me.items
    BY <2>1, FilteredType
  <2>4. CASE Invalidate(c)
    <3>1. InStep([me EXCEPT !.pc = "filter"]) \/ me.method # "DELETE"
      BY <2>1 DEF InStep, CallRow
    <3>2. InStep([me EXCEPT !.pc = "verify"])
      BY <2>1 DEF InStep, CallRow
    <3> QED BY <2>1, <2>4, <3>1, <3>2, Went DEF Invalidate, Places
  <2>5. CASE LookUp(c)
    <3> DEFINE i == IndexOf(me.table, asked)  mine == cache[me.user][me.table]
    <3>1. /\ me.user \in Users /\ me.table \in Tables /\ me.method = "SELECT"
          /\ \/ UNCHANGED params /\ Go(c, me, "filter")
             \/ AddParams(me.table, asked) /\ Go(c, me, "filter")
             \/ /\ AddParams(me.table, asked) /\ i \in DOMAIN mine /\ mine[i] \in Answer
                /\ Go(c, [me EXCEPT !.answer = mine[i]], "store")
      BY <2>5, LookUpFacts
    <3>2. CASE Go(c, me, "filter")
      <4>1. InStep([me EXCEPT !.pc = "filter"])
        BY <2>1, <3>1 DEF InStep, CallRow
      <4> QED BY <2>1, <3>2, <4>1, Went DEF Places
    <3>3. CASE /\ AddParams(me.table, asked) /\ i \in DOMAIN mine /\ mine[i] \in Answer
               /\ Go(c, [me EXCEPT !.answer = mine[i]], "store")
      <4>1. i \in 1 .. Len(params[me.table])
        BY <3>1, <3>3 DEF TypeOK
      <4>2. params[me.table][i] = asked
        BY <2>1, <3>1, <3>3, <4>1, ParamsKept
      <4>3. asked \subseteq mine[i].asked
        BY <3>1, <3>3, <4>2 DEF CacheCovers
      <4> DEFINE new == [me EXCEPT !.answer = mine[i]]
      <4> HIDE DEF mine, i
      <4>4. new \in CallRow
        BY <2>1, <3>3 DEF CallRow
      <4>5. InStep([new EXCEPT !.pc = "store"])
        BY <2>1, <2>2, <4>3 DEF InStep, CallRow
      <4> HIDE DEF new
      <4>6. Go(c, new, "store")
        BY <3>3 DEF new
      <4> QED BY <4>4, <4>5, <4>6, Went DEF Places
    <3> QED BY <3>1, <3>2, <3>3
  <2>6. CASE Verify(c)
    <3>1. InStep([me EXCEPT !.pc = "insert"])
      BY <2>1 DEF InStep, CallRow
    <3>2. me.method # "CREATE" => InStep([me EXCEPT !.pc = "filter"])
      BY <2>1 DEF InStep, CallRow
    <3> QED BY <1>2, <2>1, <2>6, <3>1, <3>2, Went DEF Verify, Places
  <2>7. CASE SetupFilter(c)
    <3> DEFINE new == Filtered(me, Filter(c))
    <3>1. me.method \in Methods /\ me.method # "CREATE" /\ me.pc = "filter"
      BY <2>1, <2>7 DEF InStep, SetupFilter, At, CallRow
    <3> HIDE DEF new
    <3>2. InStep([new EXCEPT !.pc = "select"])
      BY <2>1, <2>2, <2>3 DEF InStep, CallRow, new
    <3>3. InStep([new EXCEPT !.pc = "build"])
      BY <2>1, <2>2, <2>3 DEF InStep, CallRow, new
    <3>4. me.method = "DELETE" => InStep([new EXCEPT !.pc = "get"])
      BY <2>1, <2>3 DEF InStep, CallRow, new
    <3>5. \/ Go(c, new, "select")
          \/ Go(c, new, "build")
          \/ me.method = "DELETE" /\ Go(c, new, "get")
      BY <2>7, <3>1 DEF SetupFilter, Methods, new
    <3>6. new \in CallRow
      BY <2>3 DEF new
    <3> QED BY <3>2, <3>3, <3>4, <3>5, <3>6, Went DEF Places
  <2>8. CASE SelectRows(c)
    <3> DEFINE new == [me EXCEPT !.answer = Read(me)]
    <3>1. /\ Read(me) \in Answer
          /\ Read(me).asked = IF Current(me) = NoRestriction THEN Ids ELSE Current(me)
      BY <2>1, ReadType DEF Selected
    <3>2. Current(me) \in {asked, NoRestriction}
      BY <2>1, <2>2, <2>8 DEF InStep, Current, SelectRows, At
    <3>3. asked \subseteq Read(me).asked
      BY <2>1, <3>1, <3>2
    <3>4. new \in CallRow
      BY <2>1, <3>1 DEF CallRow
    <3>5. InStep([new EXCEPT !.pc = "store"])
      BY <2>1, <2>2, <3>3 DEF InStep, CallRow
    <3> HIDE DEF new
    <3>6. Go(c, new, "store")
      BY <2>8 DEF SelectRows, new
    <3> QED BY <3>4, <3>5, <3>6, Went DEF Places
  <2>9. CASE BuildUpdate(c)
    <3> DEFINE new == BuildsOn(me)
    <3>1. /\ Go(c, new, "columns") /\ new \in CallRow /\ new.items = me.items
          /\ new.restriction = me.restriction
          /\ new.fresh = "unused" => me.open
      BY <2>1, <2>9, BuildFacts
    <3>2. me.open => me.restriction \in {asked, NoRestriction}
      BY <2>1, <2>9 DEF InStep, BuildUpdate, At, First
    <3> HIDE DEF new
    <3>3. InStep([new EXCEPT !.pc = "columns"])
      BY <3>1, <3>2 DEF InStep, CallRow, First
    <3> QED BY <3>1, <3>3, Went DEF Places
  <2>17. CASE NameRow(c)
    <3> DEFINE new == Names(c)
    <3>1. Go(c, new, "update") /\ new \in CallRow /\ new.items = me.items
      BY <2>17, NameFacts
    <3>2. First(c).byId => new.target = asked \/ Unnamed(new)
      BY <2>1, <2>17, NamedOrNot DEF InStep, NameRow, At, First
    <3> HIDE DEF new
    <3>3. InStep([new EXCEPT !.pc = "update"])
      BY <3>1, <3>2 DEF InStep, CallRow, First, Unnamed
    <3> QED BY <3>1, <3>3, Went DEF Places
  <2>18. CASE CloseFresh(c)
    <3> DEFINE new == [me EXCEPT !.fresh = "closed"]
    <3>1. call' = [call EXCEPT ![c] = new]
      BY <2>18 DEF CloseFresh
    <3>2. InStep(new)
      BY <2>1, <2>18 DEF InStep, CallRow, CloseFresh, At
    <3> HIDE DEF new
    <3> QED BY <3>1, <3>2, Moved
  <2>10. CASE InsertRow(c) \/ RereadRows(c) \/ StoreAnswer(c)
    <3>1. call' = [call EXCEPT ![c] = Following(me)]
      BY <2>10 DEF InsertRow, RereadRows, StoreAnswer
    <3> QED BY <2>1, <3>1, FollowingInStep, Moved
  <2>11. CASE UpdateRows(c)
    <3>1. InStep([me EXCEPT !.pc = "reread"])
      BY <2>1 DEF InStep, CallRow
    <3> QED BY <2>1, <2>11, <3>1, Went DEF UpdateRows, Places
  <2>12. CASE GetRows(c)
    <3> DEFINE new == Filtered(me, Filter(c))
    <3>1. me.method = "DELETE"
      BY <2>1, <2>12 DEF InStep, GetRows, At
    <3> HIDE DEF new
    <3>2. InStep([new EXCEPT !.pc = "guard"])
      BY <2>1, <2>2, <2>3, <3>1 DEF InStep, CallRow, new
    <3>3. Go(c, new, "guard") /\ new \in CallRow
      BY <2>3, <2>12 DEF GetRows, new
    <3> QED BY <3>2, <3>3, Went DEF Places
  <2>13. CASE GuardDelete(c)
    <3>1. InStep([me EXCEPT !.pc = "delete"])
      BY <2>1, <2>13 DEF InStep, CallRow, GuardDelete, At
    <3> QED BY <1>2, <2>1, <2>13, <3>1, Went DEF GuardDelete, Places
  <2>14. CASE DeleteRows(c)
    <3>1. CASE call' = [call EXCEPT ![c] = Following(me)]
      BY <2>1, <3>1, FollowingInStep, Moved
    <3> QED BY <1>2, <2>14, <3>1 DEF DeleteRows
  <2>15. CASE CloseHandle(c)
    <3>1. call' = [call EXCEPT ![c] = [me EXCEPT !.open = FALSE]]
      BY <2>15 DEF CloseHandle
    <3>2. InStep([me EXCEPT !.open = FALSE])
      BY <2>1 DEF InStep, CallRow, Unnamed
    <3> QED BY <3>1, <3>2, Moved
  <2>16. CASE StatementFails(c)
    BY <1>2, <2>16 DEF StatementFails
  <2> QED BY <1>4, <2>4, <2>5, <2>6, <2>7, <2>8, <2>9, <2>10, <2>11, <2>12, <2>13, <2>14, <2>15,
             <2>16, <2>17, <2>18 DEF Handle
<1>5. \A c \in Calls :
        Handle(c) \/ CloseHandle(c) \/ CloseFresh(c) \/ StatementFails(c) => call[c].pc # "idle"
  BY DEF Handle, CloseHandle, CloseFresh, StatementFails, Invalidate, LookUp, Verify, SetupFilter, SelectRows,
         InsertRow, BuildUpdate, NameRow, UpdateRows, RereadRows, GetRows, GuardDelete, DeleteRows,
         StoreAnswer, At
<1> QED BY <1>1, <1>3, <1>4, <1>5 DEF Next, vars, Reregister

LEMMA InvalidateFacts ==
    ASSUME TypeOK, NEW c \in Calls, Invalidate(c)
    PROVE  /\ call[c] \in CallRow /\ call[c].user \in Users /\ call[c].table \in Tables
           /\ \A v \in Users, s \in Tables : cache'[v][s] \in {<<>>, cache[v][s]}
<1>1. call[c] \in CallRow /\ call[c].user \in Users /\ call[c].table \in Tables
  BY CallFacts DEF Invalidate, At, CallRow
<1> QED BY <1>1, DeleteType DEF Invalidate

LEMMA StepCovers ==
    ASSUME TypeOK, CacheCovers, CallsInStep, [Next]_vars
    PROVE  CacheCovers'
<1>1. CASE UNCHANGED <<params, cache>>
  BY <1>1 DEF CacheCovers
<1>2. ASSUME NEW c \in Calls, Invalidate(c)
      PROVE  CacheCovers'
  <2>1. params' = params
    BY <1>2 DEF Invalidate
  <2>2. \A v \in Users, s \in Tables : cache'[v][s] \in {<<>>, cache[v][s]}
    BY <1>2, InvalidateFacts
  <2>3. ASSUME NEW v \in Users, NEW s \in Tables, NEW i \in DOMAIN cache'[v][s]
        PROVE  cache'[v][s] = cache[v][s] /\ i \in DOMAIN cache[v][s]
    BY <2>2, <2>3
  <2> QED BY <2>1, <2>3 DEF CacheCovers
<1>3. ASSUME NEW t \in Tables, NEW p \in SUBSET Ids, AddParams(t, p),
             NEW v \in Users, NEW s \in Tables, NEW i \in DOMAIN cache[v][s]
      PROVE  params'[s][i] = params[s][i]
  <2>1. i \in 1 .. Len(params[s])
    BY DEF TypeOK
  <2> QED BY <1>3, <2>1, ParamsKept
<1>4. ASSUME NEW c \in Calls, LookUp(c)
      PROVE  CacheCovers'
  <2>1. cache' = cache
    BY <1>4 DEF LookUp
  <2>2. \/ UNCHANGED params
        \/ /\ call[c].table \in Tables /\ First(c).rows \in SUBSET Ids
           /\ AddParams(call[c].table, First(c).rows)
    BY <1>4, LookUpFacts
  <2>3. \A v \in Users, s \in Tables : \A i \in DOMAIN cache[v][s] : params'[s][i] = params[s][i]
    BY <1>3, <2>2
  <2> QED BY <2>1, <2>3 DEF CacheCovers
<1>5. ASSUME NEW c \in Calls, StoreAnswer(c)
      PROVE  CacheCovers'
  <2> DEFINE u == call[c].user  t == call[c].table  a == call[c].answer  p == First(c).rows
             i == IndexOf(t, p)
  <2>1. /\ u \in Users /\ t \in Tables /\ p \in SUBSET Ids /\ AddParams(t, p)
        /\ \A v \in Users, s \in Tables :
              cache'[v][s] = IF v = u /\ s = t
                             THEN [j \in DOMAIN cache[u][t] \cup {i} |->
                                     IF j = i THEN a ELSE cache[u][t][j]]
                             ELSE cache[v][s]
    BY <1>5, StoreFacts
  <2>2. params'[t][i] = p
    BY <2>1, ParamsKept
  <2>3. p \subseteq a.asked
    BY <1>5 DEF CallsInStep, InStep, StoreAnswer, At, First
  <2> HIDE DEF u, t, a, p, i
  <2>4. ASSUME NEW v \in Users, NEW s \in Tables, NEW j \in DOMAIN cache'[v][s]
        PROVE  params'[s][j] \subseteq cache'[v][s][j].asked
    <3>1. CASE v = u /\ s = t /\ j = i
      <4>1. cache'[v][s] = [k \in DOMAIN cache[u][t] \cup {i} |->
                              IF k = i THEN a ELSE cache[u][t][k]]
        BY <2>1, <3>1
      <4>2. cache'[v][s][j] = a
        BY <3>1, <4>1
      <4> QED BY <2>2, <2>3, <3>1, <4>2
    <3>2. CASE ~(v = u /\ s = t /\ j = i)
      <4>1. j \in DOMAIN cache[v][s] /\ cache'[v][s][j] = cache[v][s][j]
        <5>1. CASE v = u /\ s = t
          <6>1. cache'[v][s] = [k \in DOMAIN cache[v][s] \cup {i} |->
                                  IF k = i THEN a ELSE cache[v][s][k]]
            BY <2>1, <5>1
          <6> QED BY <2>4, <3>2, <5>1, <6>1
        <5>2. CASE ~(v = u /\ s = t)
          BY <2>1, <2>4, <5>2
        <5> QED BY <5>1, <5>2
      <4>2. params'[s][j] = params[s][j]
        BY <1>3, <2>1, <4>1
      <4> QED BY <4>1, <4>2 DEF CacheCovers
    <3> QED BY <3>1, <3>2
  <2> QED BY <2>4 DEF CacheCovers
<1> QED
  BY <1>1, <1>2, <1>4, <1>5
  DEF Next, vars, Reregister, Start, Handle, CloseHandle, CloseFresh, StatementFails, Verify, SetupFilter,
      SelectRows, InsertRow, BuildUpdate, NameRow, UpdateRows, RereadRows, GetRows, GuardDelete, DeleteRows

LEMMA InitCovers == Init => CacheCovers /\ CallsInStep
BY DEF Init, CacheCovers, CallsInStep, Empty, Idle

LEMMA Reachable == Spec => [](TypeOK /\ CacheCovers /\ CallsInStep)
<1>1. TypeOK /\ CacheCovers /\ CallsInStep /\ [Next]_vars
      => (TypeOK /\ CacheCovers /\ CallsInStep)'
  BY StepTyped, StepCovers, StepInStep
<1> QED BY <1>1, InitTyped, InitCovers, PTL DEF Spec

(* Whatever the calls and their handles do, an answer in the cache covers   *)
(* the parameters it is filed under.                                        *)
THEOREM AnswersCover == Spec => []CacheCovers
<1> QED BY Reachable, PTL

----------------------------------------------------------------------------
(* What a statement may write.                                              *)

LEMMA NothingWritten ==
    ASSUME [Next]_vars, ~ \E c \in Calls : InsertRow(c) \/ UpdateRows(c) \/ DeleteRows(c)
    PROVE  row' = row
BY DEF Next, vars, Reregister, Start, Handle, CloseHandle, CloseFresh, StatementFails, Invalidate, LookUp,
       Verify, SetupFilter, SelectRows, BuildUpdate, NameRow, RereadRows, GetRows, GuardDelete, StoreAnswer

(* The rows after a statement that writes them, or deletes them.            *)
Put(t, S, live) ==
    \A s \in Tables, j \in Ids :
        row'[s][j] = IF s = t /\ j \in S THEN [live |-> live, write |-> writes + 1] ELSE row[s][j]

LEMMA Written ==
    ASSUME TypeOK, NEW me \in CallRow, NEW S
    PROVE  /\ WriteRows(me, S, TRUE) => Put(me.table, S, TRUE)
           /\ WriteRows(me, S, FALSE) => Put(me.table, S, FALSE)
<1>1. \A live \in BOOLEAN : WriteRows(me, S, live) => Put(me.table, S, live)
  BY WriteType DEF Put
<1>2. TRUE \in BOOLEAN /\ FALSE \in BOOLEAN
  OBVIOUS
<1> QED BY <1>1, <1>2, Zenon

LEMMA DeleteStep ==
    ASSUME TypeOK, CallsInStep, [Next]_vars, NEW t \in Tables, Deleted(t) # {}
    PROVE  \E c \in Calls : /\ At(c, "delete") /\ call[c].table = t /\ call[c].method = "DELETE"
                            /\ Deleted(t) \subseteq First(c).rows
<1>1. PICK c \in Calls : InsertRow(c) \/ UpdateRows(c) \/ DeleteRows(c)
  BY NothingWritten DEF Deleted
<1>2. call[c] \in CallRow
  BY <1>1, CallFacts DEF InsertRow, UpdateRows, DeleteRows, At
<1>3. PICK i \in Deleted(t) : TRUE
  OBVIOUS
<1>4. i \in Ids /\ row[t][i].live /\ ~row'[t][i].live
  BY <1>3 DEF Deleted
<1>5. ASSUME NEW S, WriteRows(call[c], S, TRUE)
      PROVE  FALSE
  <2>1. Put(call[c].table, S, TRUE)
    BY <1>2, <1>5, Written, Zenon
  <2> QED BY <1>4, <2>1 DEF Put
<1>6. DeleteRows(c) /\ row' # row
  BY <1>1, <1>4, <1>5 DEF InsertRow, UpdateRows
<1>7. /\ At(c, "delete") /\ Current(call[c]) # NoRestriction
      /\ WriteRows(call[c], LiveIn(call[c].table, call[c].restriction), FALSE)
  BY <1>6 DEF DeleteRows
<1>8. call[c].method = "DELETE" /\ call[c].restriction = First(c).rows
  BY <1>7 DEF CallsInStep, InStep, At, First, Current
<1>9. Put(call[c].table, LiveIn(call[c].table, call[c].restriction), FALSE)
  BY <1>2, <1>7, Written, Zenon
<1>10. call[c].table = t
  BY <1>4, <1>9 DEF Put
<1>11. Deleted(t) \subseteq First(c).rows
  BY <1>8, <1>9 DEF Deleted, LiveIn, Put
<1> QED BY <1>7, <1>8, <1>10, <1>11

(* For every request and every moment at which a handle is closed, a row is *)
(* deleted only by a DELETE that asked for it.                              *)
THEOREM DeletesScoped == Spec => DeleteScoped
<1>1. TypeOK /\ CallsInStep /\ [Next]_vars
      => [\A t \in Tables : Deleted(t) # {} =>
            \E c \in Calls : /\ At(c, "delete") /\ call[c].table = t /\ call[c].method = "DELETE"
                             /\ Deleted(t) \subseteq First(c).rows]_vars
  BY DeleteStep
<1> QED BY <1>1, Reachable, PTL DEF Spec, DeleteScoped

LEMMA UpdateStep ==
    ASSUME TypeOK, CallsInStep, [Next]_vars, NEW t \in Tables, Updated(t) # {}
    PROVE  \E c \in Calls : /\ At(c, "update") /\ call[c].table = t
                            /\ First(c).byId /\ ~Unnamed(call[c])
                                 => Updated(t) \subseteq First(c).rows
<1>1. PICK c \in Calls : InsertRow(c) \/ UpdateRows(c) \/ DeleteRows(c)
  BY NothingWritten DEF Updated
<1>2. call[c] \in CallRow
  BY <1>1, CallFacts DEF InsertRow, UpdateRows, DeleteRows, At
<1>3. PICK i \in Updated(t) : TRUE
  OBVIOUS
<1>4. i \in Ids /\ row[t][i].live /\ row'[t][i].live /\ row'[t][i] # row[t][i]
  BY <1>3 DEF Updated
<1>5. CASE InsertRow(c)
  <2>1. PICK j \in Ids \ LiveIn(call[c].table, Ids) : WriteRows(call[c], {j}, TRUE)
    BY <1>5 DEF InsertRow
  <2>2. Put(call[c].table, {j}, TRUE)
    BY <1>2, <2>1, Written, Zenon
  <2>3. ~(t = call[c].table /\ i = j)
    BY <1>4, <2>1 DEF LiveIn
  <2> QED BY <1>4, <2>2, <2>3 DEF Put
<1>6. CASE DeleteRows(c)
  <2>1. CASE row' = row
    BY <1>4, <2>1
  <2>2. CASE WriteRows(call[c], LiveIn(call[c].table, call[c].restriction), FALSE)
    <3>1. Put(call[c].table, LiveIn(call[c].table, call[c].restriction), FALSE)
      BY <1>2, <2>2, Written, Zenon
    <3> QED BY <1>4, <3>1 DEF Put
  <2> QED BY <1>6, <2>1, <2>2 DEF DeleteRows
<1>7. CASE UpdateRows(c)
  <2>1. At(c, "update") /\ WriteRows(call[c], LiveIn(call[c].table, call[c].target), TRUE)
    BY <1>7 DEF UpdateRows
  <2>2. Put(call[c].table, LiveIn(call[c].table, call[c].target), TRUE)
    BY <1>2, <2>1, Written, Zenon
  <2>3. First(c).byId /\ ~Unnamed(call[c]) => call[c].target = First(c).rows
    BY <2>1 DEF CallsInStep, InStep, At, First
  <2>4. call[c].table = t
    BY <1>4, <2>2 DEF Put
  <2>5. Updated(t) \subseteq call[c].target
    BY <2>2 DEF Updated, LiveIn, Put
  <2> QED BY <2>1, <2>3, <2>4, <2>5
<1> QED BY <1>1, <1>5, <1>6, <1>7

(* For every request and every moment at which a handle is closed: the       *)
(* UPDATE of a row named by its id touches another row only when both things *)
(* that Unnamed puts together have happened.                                *)
THEOREM UpdatesScoped == Spec => NamedUpdateScoped
<1>1. TypeOK /\ CallsInStep /\ [Next]_vars
      => [\A t \in Tables : Updated(t) # {} =>
            \E c \in Calls : /\ At(c, "update") /\ call[c].table = t
                             /\ First(c).byId /\ ~Unnamed(call[c])
                                 => Updated(t) \subseteq First(c).rows]_vars
  BY UpdateStep
<1> QED BY <1>1, Reachable, PTL DEF Spec, NamedUpdateScoped

----------------------------------------------------------------------------
(* A user reads his own writes.                                             *)

(* How a call moves: it keeps its user and table, drops answers before it   *)
(* gets ready to write, and has an answer from the cache or from the rows.   *)
Moves(c) ==
    LET me == call[c]  new == call'[c] IN
    /\ \A d \in Calls : d # c => call'[d] = call[d]
    /\ new.pc # "idle" => new.user = me.user /\ new.table = me.table
    /\ Writing(new) => Writing(me) \/ Invalidate(c)
    /\ new.pc = "store" =>
          \/ me.pc = "store" /\ new.answer = me.answer
          \/ new.answer = Read(me)
          \/ \E i \in DOMAIN cache[me.user][me.table] : new.answer = cache[me.user][me.table][i]

LEMMA Became ==
    ASSUME TypeOK, NEW c \in Calls, NEW me, call' = [call EXCEPT ![c] = me]
    PROVE  call'[c] = me /\ \A d \in Calls : d # c => call'[d] = call[d]
BY DEF TypeOK

LEMMA GoFacts ==
    ASSUME TypeOK, NEW c \in Calls, NEW me \in CallRow, NEW pc, Go(c, me, pc)
    PROVE  /\ \A d \in Calls : d # c => call'[d] = call[d]
           /\ call'[c].pc = pc /\ call'[c].user = me.user /\ call'[c].table = me.table
           /\ call'[c].method = me.method /\ call'[c].answer = me.answer
<1>1. call'[c] = [me EXCEPT !.pc = pc] /\ \A d \in Calls : d # c => call'[d] = call[d]
  BY Became DEF Go
<1> QED BY <1>1 DEF CallRow

LEMMA MovesWhenOver ==
    ASSUME TypeOK, NEW c \in Calls, call[c] \in CallRow,
           NEW me \in {Idle, Following(call[c])}, call' = [call EXCEPT ![c] = me]
    PROVE  Moves(c)
<1>1. call'[c] = me /\ \A d \in Calls : d # c => call'[d] = call[d]
  BY Became
<1>2. me.pc \in {"idle", "cache"}
  BY FollowingType DEF Idle
<1>3. me.pc = "cache" => me.user = call[c].user /\ me.table = call[c].table
  BY FollowingType DEF Idle
<1> QED BY <1>1, <1>2, <1>3 DEF Moves, Writing

LEMMA CallMoves ==
    ASSUME TypeOK, NEW c \in Calls, Handle(c) \/ CloseHandle(c) \/ CloseFresh(c) \/ StatementFails(c)
    PROVE  Moves(c) /\ call[c] \in CallRow
<1> DEFINE me == call[c]
<1>1. call[c].pc # "idle"
  BY DEF Handle, CloseHandle, CloseFresh, StatementFails, Invalidate, LookUp, Verify, SetupFilter, SelectRows,
         InsertRow, BuildUpdate, NameRow, UpdateRows, RereadRows, GetRows, GuardDelete, DeleteRows,
         StoreAnswer, At
<1>2. /\ me \in CallRow /\ First(c) \in Item /\ First(c).rows \in SUBSET Ids
      /\ Filter(c) \in (SUBSET Ids) \cup {NoRestriction}
  BY <1>1, CallFacts, FilterType
<1> SUFFICES Moves(c)
  BY <1>2
<1>3. ASSUME call' = [call EXCEPT ![c] = Idle] \/ call' = [call EXCEPT ![c] = Following(me)]
      PROVE  Moves(c)
  BY <1>2, <1>3, MovesWhenOver
<1>4. ASSUME NEW new \in CallRow, new.user = me.user, new.table = me.table,
             new.method = me.method, NEW pc \in Places \ {"store"}, Go(c, new, pc),
             (\/ pc \in {"verify", "insert", "build", "columns", "update", "reread", "get", "guard", "delete"}
              \/ pc = "filter" /\ me.method # "SELECT") => Writing(me) \/ Invalidate(c)
      PROVE  Moves(c)
  <2>1. /\ \A d \in Calls : d # c => call'[d] = call[d]
        /\ call'[c].pc = pc /\ call'[c].user = me.user /\ call'[c].table = me.table
        /\ call'[c].method = me.method
    BY <1>4, GoFacts
  <2>2. ASSUME Writing(call'[c])
        PROVE  Writing(me) \/ Invalidate(c)
    <3>1. \/ pc \in {"verify", "insert", "build", "columns", "update", "reread", "get", "guard", "delete"}
          \/ pc = "filter" /\ me.method # "SELECT"
      BY <2>1, <2>2 DEF Writing
    <3> QED BY <1>4, <3>1
  <2> QED BY <1>4, <2>1, <2>2 DEF Moves
<1>5. ASSUME NEW new \in CallRow, new.user = me.user, new.table = me.table, Go(c, new, "store"),
             \/ new.answer = Read(me)
             \/ \E i \in DOMAIN cache[me.user][me.table] :
                   new.answer = cache[me.user][me.table][i]
      PROVE  Moves(c)
  BY <1>5, GoFacts DEF Moves, Writing
<1>6. CASE Invalidate(c)
  BY <1>2, <1>4, <1>6 DEF Invalidate, Places
<1>7. CASE LookUp(c)
  <2> DEFINE i == IndexOf(me.table, First(c).rows)  mine == cache[me.user][me.table]
             new == [me EXCEPT !.answer = mine[i]]
  <2>1. /\ me.method = "SELECT"
        /\ \/ Go(c, me, "filter")
           \/ i \in DOMAIN mine /\ mine[i] \in Answer /\ Go(c, new, "store")
    BY <1>7, LookUpFacts
  <2>2. CASE Go(c, me, "filter")
    BY <1>2, <1>4, <2>1, <2>2 DEF Places
  <2>3. CASE i \in DOMAIN mine /\ mine[i] \in Answer /\ Go(c, new, "store")
    <3> HIDE DEF i, mine
    <3>1. /\ new \in CallRow /\ new.user = me.user /\ new.table = me.table
          /\ new.answer = mine[i]
      BY <1>2, <2>3 DEF CallRow
    <3> HIDE DEF new
    <3> QED BY <1>5, <2>3, <3>1 DEF mine
  <2> QED BY <2>1, <2>2, <2>3
<1>8. CASE Verify(c)
  BY <1>2, <1>3, <1>4, <1>8 DEF Verify, Places, Writing, At
<1>9. CASE SetupFilter(c)
  <2> DEFINE new == Filtered(me, Filter(c))
  <2>1. /\ new \in CallRow /\ new.user = me.user /\ new.table = me.table
        /\ new.method = me.method
    BY <1>2, FilteredType
  <2>2. \/ me.method = "SELECT" /\ Go(c, new, "select")
        \/ me.method # "SELECT" /\ Go(c, new, "build")
        \/ me.method # "SELECT" /\ Go(c, new, "get")
    BY <1>9 DEF SetupFilter
  <2>3. me.method # "SELECT" => Writing(me)
    BY <1>9 DEF SetupFilter, At, Writing
  <2> HIDE DEF new
  <2> QED BY <1>4, <2>1, <2>2, <2>3 DEF Places
<1>10. CASE SelectRows(c)
  <2> DEFINE new == [me EXCEPT !.answer = Read(me)]
  <2>1. /\ new \in CallRow /\ new.user = me.user /\ new.table = me.table
        /\ new.answer = Read(me)
    BY <1>2, ReadType DEF CallRow
  <2>2. Go(c, new, "store")
    BY <1>10 DEF SelectRows
  <2> HIDE DEF new
  <2> QED BY <1>5, <2>1, <2>2
<1>11. CASE InsertRow(c) \/ RereadRows(c) \/ StoreAnswer(c)
  BY <1>3, <1>11 DEF InsertRow, RereadRows, StoreAnswer
<1>12. CASE BuildUpdate(c)
  <2> DEFINE new == BuildsOn(me)
  <2>1. /\ Go(c, new, "columns") /\ new \in CallRow /\ new.user = me.user
        /\ new.table = me.table /\ new.method = me.method
    BY <1>2, <1>12, BuildFacts
  <2>2. Writing(me)
    BY <1>12 DEF BuildUpdate, At, Writing
  <2> HIDE DEF new
  <2> QED BY <1>4, <2>1, <2>2 DEF Places
<1>19. CASE NameRow(c)
  <2> DEFINE new == Names(c)
  <2>1. /\ Go(c, new, "update") /\ new \in CallRow /\ new.user = me.user
        /\ new.table = me.table /\ new.method = me.method
    BY <1>19, NameFacts
  <2>2. Writing(me)
    BY <1>19 DEF NameRow, At, Writing
  <2> HIDE DEF new
  <2> QED BY <1>4, <2>1, <2>2 DEF Places
<1>13. CASE UpdateRows(c)
  BY <1>2, <1>4, <1>13 DEF UpdateRows, Places, Writing, At
<1>14. CASE GetRows(c)
  <2> DEFINE new == Filtered(me, Filter(c))
  <2>1. /\ new \in CallRow /\ new.user = me.user /\ new.table = me.table
        /\ new.method = me.method
    BY <1>2, FilteredType
  <2>2. Go(c, new, "guard") /\ Writing(me)
    BY <1>14 DEF GetRows, At, Writing
  <2> HIDE DEF new
  <2> QED BY <1>4, <2>1, <2>2 DEF Places
<1>15. CASE GuardDelete(c)
  BY <1>2, <1>3, <1>4, <1>15 DEF GuardDelete, Places, Writing, At
<1>16. CASE DeleteRows(c) \/ StatementFails(c)
  BY <1>3, <1>16 DEF DeleteRows, StatementFails
<1>17. CASE CloseHandle(c)
  <2>1. /\ call'[c] = [me EXCEPT !.open = FALSE]
        /\ \A d \in Calls : d # c => call'[d] = call[d]
    BY <1>17, Became DEF CloseHandle
  <2>2. /\ call'[c].pc = me.pc /\ call'[c].user = me.user /\ call'[c].table = me.table
        /\ call'[c].method = me.method /\ call'[c].answer = me.answer
    BY <1>2, <2>1 DEF CallRow
  <2> QED BY <2>1, <2>2 DEF Moves, Writing
<1>18. CASE CloseFresh(c)
  <2>1. /\ call'[c] = [me EXCEPT !.fresh = "closed"]
        /\ \A d \in Calls : d # c => call'[d] = call[d]
    BY <1>18, Became DEF CloseFresh
  <2>2. /\ call'[c].pc = me.pc /\ call'[c].user = me.user /\ call'[c].table = me.table
        /\ call'[c].method = me.method /\ call'[c].answer = me.answer
    BY <1>2, <2>1 DEF CallRow
  <2> QED BY <2>1, <2>2 DEF Moves, Writing
<1> QED BY <1>2, <1>6, <1>7, <1>8, <1>9, <1>10, <1>11, <1>12, <1>13, <1>14, <1>15, <1>16, <1>17,
           <1>18, <1>19 DEF Handle

Recent == OneCall /\ UsersKnown /\ RowsRecent /\ AnswersRecent /\ Dropped /\ ReadYourWrites

LEMMA InitRecent == Init => Recent
<1> SUFFICES ASSUME Init PROVE Recent
  OBVIOUS
<1>1. \A c \in Calls : call[c].pc = "idle"
  BY DEF Init, Idle
<1>2. \A u \in Users, t \in Tables : cache[u][t] = <<>>
  BY DEF Init, Empty
<1>3. RowsRecent
  BY DEF Init, RowsRecent
<1>4. OneCall /\ Dropped /\ ReadYourWrites
  BY <1>1 DEF OneCall, Dropped, ReadYourWrites, At, Writing
<1>5. UsersKnown /\ AnswersRecent
  BY <1>2 DEF UsersKnown, AnswersRecent
<1> QED BY <1>3, <1>4, <1>5 DEF Recent

(* Steps outside any call: a new call begins, or a schema comes or goes.    *)
LEMMA StartRecent ==
    ASSUME Serial = TRUE, TypeOK, Recent, NEW c \in Calls, NEW u \in Users, NEW t \in Tables,
           NEW m \in Methods, NEW q \in Requests, Start(c, u, t, m, q)
    PROVE  Recent'
<1>1. /\ UNCHANGED <<row, writes, cache, cached, wrote>>
      /\ \A d \in Calls : call[d].pc # "idle" => call[d].user # u
  BY DEF Start
<1>2. /\ call'[c].pc = "cache" /\ call'[c].user = u
      /\ \A d \in Calls : d # c => call'[d] = call[d]
  BY DEF Start, TypeOK
<1>3. OneCall'
  BY <1>1, <1>2 DEF Recent, OneCall
<1>4. Dropped' /\ ReadYourWrites'
  BY <1>1, <1>2 DEF Recent, Dropped, ReadYourWrites, At, Writing
<1>5. UsersKnown' /\ RowsRecent' /\ AnswersRecent'
  BY <1>1 DEF Recent, UsersKnown, RowsRecent, AnswersRecent
<1> QED BY <1>3, <1>4, <1>5 DEF Recent

(* Steps of a call that leave rows and cache alone.                         *)
LEMMA QuietRecent ==
    ASSUME TypeOK, Recent, NEW c \in Calls, Handle(c) \/ CloseHandle(c) \/ CloseFresh(c) \/ StatementFails(c),
           UNCHANGED <<row, writes, cache, cached, wrote>>, ~Invalidate(c)
    PROVE  Recent'
<1>1. Moves(c) /\ call[c] \in CallRow
  BY CallMoves
<1>2. call[c].pc # "idle"
  BY <1>1 DEF CallRow, Places
<1>3. OneCall'
  BY <1>1, <1>2 DEF Recent, OneCall, Moves
<1>4. UsersKnown' /\ RowsRecent' /\ AnswersRecent'
  BY DEF Recent, UsersKnown, RowsRecent, AnswersRecent
<1>5. ASSUME NEW d \in Calls, Writing(call'[d])
      PROVE  cache[call'[d].user][call'[d].table] = <<>>
  <2>1. CASE d # c
    BY <1>1, <1>5, <2>1 DEF Moves, Recent, Dropped
  <2>2. CASE d = c
    <3>1. call'[c].pc # "idle"
      BY <1>5, <2>2 DEF Writing
    <3> QED BY <1>1, <1>5, <2>2, <3>1 DEF Moves, Recent, Dropped
  <2> QED BY <2>1, <2>2
<1>6. ASSUME NEW d \in Calls, call'[d].pc = "store", NEW i \in call'[d].answer.asked
      PROVE  call'[d].answer.rows[i].write >= wrote[call'[d].user][call'[d].table][i]
  <2>1. CASE d # c
    BY <1>1, <1>6, <2>1 DEF Moves, Recent, ReadYourWrites
  <2>2. CASE d = c
    <3> DEFINE u == call[c].user  t == call[c].table
    <3>1. call'[c].user = u /\ call'[c].table = t /\ u \in Users /\ t \in Tables
      BY <1>1, <1>6, <2>2 DEF Moves, CallRow
    <3>2. CASE call[c].pc = "store" /\ call'[c].answer = call[c].answer
      BY <1>6, <2>2, <3>1, <3>2 DEF Recent, ReadYourWrites
    <3>3. CASE call'[c].answer = Read(call[c])
      <4>1. i \in Selected(Current(call[c])) /\ Selected(Current(call[c])) \in SUBSET Ids
        BY <1>1, <1>6, <2>2, <3>3, ReadType
      <4>2. Read(call[c]).rows[i] = row[t][i]
        BY <4>1 DEF Read
      <4>3. wrote[u][t][i] \in Nat /\ row[t][i].write \in Nat /\ wrote[u][t][i] <= row[t][i].write
        BY <3>1, <4>1 DEF Recent, RowsRecent, TypeOK, Row
      <4> QED BY <2>2, <3>1, <3>3, <4>2, <4>3
    <3>4. CASE \E j \in DOMAIN cache[u][t] : call'[c].answer = cache[u][t][j]
      BY <1>6, <2>2, <3>1, <3>4 DEF Recent, AnswersRecent
    <3> QED BY <1>1, <1>6, <2>2, <3>2, <3>3, <3>4 DEF Moves
  <2> QED BY <2>1, <2>2
<1>7. Dropped'
  BY <1>5 DEF Dropped
<1>8. ReadYourWrites'
  BY <1>6 DEF ReadYourWrites
<1> QED BY <1>3, <1>4, <1>7, <1>8 DEF Recent

LEMMA InvalidateRecent ==
    ASSUME TypeOK, Recent, NEW c \in Calls, Invalidate(c)
    PROVE  Recent'
<1> DEFINE u == call[c].user  t == call[c].table
<1>1. Moves(c) /\ call[c] \in CallRow /\ call[c].pc # "idle"
  BY CallMoves DEF Handle, CallRow, Places
<1>2. /\ u \in Users /\ t \in Tables
      /\ \A v \in Users, s \in Tables : cache'[v][s] \in {<<>>, cache[v][s]}
  BY InvalidateFacts
<1>3. UNCHANGED <<row, writes, wrote>> /\ DeleteInCache(u, t)
  BY DEF Invalidate
<1>4. /\ cache = [v \in Users |-> [s \in Tables |-> cache[v][s]]]
      /\ cached \in SUBSET Users /\ View \in Tables
  BY CallsAssumption DEF TypeOK
<1>5. cache'[u][t] = <<>>
  <2>1. CASE u \notin cached
    BY <1>2, <1>3, <2>1 DEF DeleteInCache, Recent, UsersKnown
  <2>2. CASE u \in cached /\ t \in Wide
    BY <1>2, <1>3, <2>2 DEF DeleteInCache, Empty
  <2>3. CASE u \in cached /\ t \notin Wide /\ cache[u][t] = <<>>
    BY <1>3, <2>3 DEF DeleteInCache
  <2>4. CASE u \in cached /\ t \notin Wide /\ cache[u][t] # <<>>
    <3>1. cache' = [cache EXCEPT ![u][View] = <<>>, ![u][t] = <<>>]
      BY <1>3, <2>4 DEF DeleteInCache
    <3> HIDE DEF u, t
    <3>2. cache' = [v \in Users |-> [s \in Tables |->
                      IF v = u /\ s \in {View, t} THEN <<>> ELSE cache[v][s]]]
      BY <1>2, <1>4, <3>1
    <3> QED BY <1>2, <3>2
  <2> QED BY <2>1, <2>2, <2>3, <2>4
<1>6. UsersKnown'
  <2>1. CASE cached' = cached
    BY <1>2, <2>1 DEF Recent, UsersKnown
  <2>2. CASE u \in cached /\ t \in Wide
    BY <1>3, <2>2 DEF DeleteInCache, UsersKnown, Empty
  <2> QED BY <1>3, <2>1, <2>2 DEF DeleteInCache
<1>7. OneCall'
  BY <1>1 DEF Recent, OneCall, Moves
<1>8. RowsRecent'
  BY <1>3 DEF Recent, RowsRecent
<1>9. AnswersRecent'
  <2>1. ASSUME NEW v \in Users, NEW s \in Tables, NEW j \in DOMAIN cache'[v][s]
        PROVE  cache'[v][s] = cache[v][s] /\ j \in DOMAIN cache[v][s]
    BY <1>2, <2>1
  <2> QED BY <1>3, <2>1 DEF Recent, AnswersRecent
<1>10. ASSUME NEW d \in Calls, Writing(call'[d])
       PROVE  cache'[call'[d].user][call'[d].table] = <<>>
  <2>1. CASE d = c
    <3>1. call'[c].user = u /\ call'[c].table = t
      BY <1>1, <1>10, <2>1 DEF Moves, Writing
    <3> QED BY <1>5, <2>1, <3>1
  <2>2. CASE d # c
    <3>1. call'[d] = call[d] /\ call[d].pc # "idle"
      BY <1>1, <1>10, <2>2 DEF Moves, Writing
    <3>2. call[d].user \in Users /\ call[d].table \in Tables
      BY <3>1, CallFacts DEF CallRow
    <3>3. cache[call[d].user][call[d].table] = <<>>
      BY <1>10, <3>1 DEF Recent, Dropped
    <3> QED BY <1>2, <3>1, <3>2, <3>3
  <2> QED BY <2>1, <2>2
<1>11. Dropped'
  BY <1>10 DEF Dropped
<1>12. ReadYourWrites'
  <2>1. call'[c].pc # "store"
    <3>1. \A pc : Go(c, call[c], pc) => call'[c].pc = pc
      BY <1>1, GoFacts
    <3> QED BY <3>1 DEF Invalidate
  <2> QED BY <1>1, <1>3, <2>1 DEF Moves, Recent, ReadYourWrites
<1> QED BY <1>6, <1>7, <1>8, <1>9, <1>11, <1>12 DEF Recent

LEMMA StoreRecent ==
    ASSUME TypeOK, Recent, NEW c \in Calls, StoreAnswer(c)
    PROVE  Recent'
<1> DEFINE u == call[c].user  t == call[c].table  a == call[c].answer
           i == IndexOf(t, First(c).rows)
<1>1. Moves(c) /\ call[c] \in CallRow /\ call[c].pc = "store"
  BY CallMoves DEF Handle, StoreAnswer, At
<1>2. /\ u \in Users /\ t \in Tables
      /\ \A v \in Users, s \in Tables :
            cache'[v][s] = IF v = u /\ s = t
                           THEN [j \in DOMAIN cache[u][t] \cup {i} |->
                                   IF j = i THEN a ELSE cache[u][t][j]]
                           ELSE cache[v][s]
  BY StoreFacts
<1>3. UNCHANGED <<row, writes, wrote>> /\ cached' = cached \cup {u}
  BY DEF StoreAnswer
<1>4. OneCall'
  BY <1>1 DEF Recent, OneCall, Moves
<1>5. RowsRecent'
  BY <1>3 DEF Recent, RowsRecent
<1>6. \A k \in a.asked : a.rows[k].write >= wrote[u][t][k]
  BY <1>1 DEF Recent, ReadYourWrites
<1>7. call'[c].pc \in {"idle", "cache"}
  <2>1. call'[c] = Following(call[c])
    BY Became DEF StoreAnswer
  <2> QED BY <1>1, <2>1, FollowingType
<1>8. ReadYourWrites'
  BY <1>1, <1>3, <1>7 DEF Moves, Recent, ReadYourWrites
<1>9. ASSUME NEW d \in Calls, Writing(call'[d])
      PROVE  cache'[call'[d].user][call'[d].table] = <<>>
  <2>1. d # c /\ call'[d] = call[d] /\ call[d].pc # "idle"
    BY <1>1, <1>7, <1>9 DEF Moves, Writing
  <2>2. call[d].user \in Users /\ call[d].table \in Tables
    BY <2>1, CallFacts DEF CallRow
  <2>3. call[d].user # u
    BY <1>1, <2>1 DEF Recent, OneCall
  <2>4. cache[call[d].user][call[d].table] = <<>>
    BY <1>9, <2>1 DEF Recent, Dropped
  <2>5. cache'[call[d].user][call[d].table] = cache[call[d].user][call[d].table]
    <3> HIDE DEF u, t, a, i
    <3> QED BY <1>2, <2>2, <2>3
  <2> QED BY <2>1, <2>4, <2>5
<1> HIDE DEF u, t, a, i
<1>10. UsersKnown'
  BY <1>2, <1>3 DEF Recent, UsersKnown
<1>11. ASSUME NEW v \in Users, NEW s \in Tables, NEW j \in DOMAIN cache'[v][s],
              NEW k \in cache'[v][s][j].asked
       PROVE  cache'[v][s][j].rows[k].write >= wrote[v][s][k]
  <2>1. CASE ~(v = u /\ s = t)
    BY <1>2, <1>11, <2>1 DEF Recent, AnswersRecent
  <2>2. CASE v = u /\ s = t
    <3>1. cache'[v][s] = [l \in DOMAIN cache[v][s] \cup {i} |-> IF l = i THEN a ELSE cache[v][s][l]]
      BY <1>2, <2>2
    <3>2. CASE j = i
      <4>1. cache'[v][s][j] = a
        BY <3>1, <3>2
      <4> QED BY <1>6, <1>11, <2>2, <4>1
    <3>3. CASE j # i
      <4>1. j \in DOMAIN cache[v][s] /\ cache'[v][s][j] = cache[v][s][j]
        BY <1>11, <3>1, <3>3
      <4> QED BY <1>11, <4>1 DEF Recent, AnswersRecent
    <3> QED BY <3>2, <3>3
  <2> QED BY <2>1, <2>2
<1>12. AnswersRecent'
  BY <1>3, <1>11 DEF AnswersRecent
<1>13. Dropped'
  BY <1>9 DEF Dropped
<1> QED BY <1>4, <1>5, <1>8, <1>10, <1>12, <1>13 DEF Recent

LEMMA WriteRecent ==
    ASSUME TypeOK, Recent, NEW c \in Calls, Handle(c), NEW S, NEW live \in BOOLEAN,
           WriteRows(call[c], S, live), UNCHANGED <<cache, cached>>, Writing(call[c]),
           call'[c].pc # "store"
    PROVE  Recent'
<1> DEFINE u == call[c].user  t == call[c].table
<1>1. Moves(c) /\ call[c] \in CallRow /\ call[c].pc # "idle"
  BY CallMoves DEF Writing
<1>2. u \in Users /\ t \in Tables
  BY <1>1 DEF CallRow
<1>3. /\ writes' = writes + 1
      /\ \A s \in Tables, k \in Ids :
            row'[s][k].write = IF s = t /\ k \in S THEN writes + 1 ELSE row[s][k].write
      /\ \A v \in Users, s \in Tables, k \in Ids :
            wrote'[v][s][k] = IF v = u /\ s = t /\ k \in S THEN writes + 1 ELSE wrote[v][s][k]
  <2>1. \A s \in Tables, k \in Ids :
           row'[s][k] = IF s = t /\ k \in S THEN [live |-> live, write |-> writes + 1] ELSE row[s][k]
    BY <1>1, WriteType
  <2>2. writes' = writes + 1
    BY DEF WriteRows
  <2>3. \A v \in Users, s \in Tables, k \in Ids :
           wrote'[v][s][k] = IF v = u /\ s = t /\ k \in S THEN writes + 1 ELSE wrote[v][s][k]
    <3>1. wrote' = [wrote EXCEPT ![u][t] = [k \in Ids |->
                        IF k \in S THEN writes + 1 ELSE wrote[u][t][k]]]
      BY DEF WriteRows
    <3>2. wrote \in [Users -> [Tables -> [Ids -> Nat]]]
      BY DEF TypeOK
    <3> HIDE DEF u, t
    <3> QED BY <1>2, <3>1, <3>2
  <2> HIDE DEF u, t
  <2> QED BY <2>1, <2>2, <2>3
<1>4. ASSUME NEW s \in Tables, NEW k \in Ids, NEW v \in Users
      PROVE  row'[s][k].write <= writes' /\ wrote'[v][s][k] <= row'[s][k].write
  <2>1. /\ writes \in Nat /\ row[s][k].write \in Nat /\ wrote[v][s][k] \in Nat
        /\ row[s][k].write <= writes /\ wrote[v][s][k] <= row[s][k].write
    BY DEF TypeOK, Row, Recent, RowsRecent
  <2> HIDE DEF u, t
  <2> QED BY <1>3, <2>1
<1>5. ASSUME NEW s \in Tables, NEW k \in Ids
      PROVE  row'[s][k].write <= writes'
  BY <1>2, <1>4
<1>6. RowsRecent'
  BY <1>4, <1>5 DEF RowsRecent
<1>7. OneCall'
  BY <1>1 DEF Recent, OneCall, Moves
<1>8. UsersKnown'
  BY DEF Recent, UsersKnown
<1>9. cache[u][t] = <<>>
  BY DEF Recent, Dropped
<1>10. ASSUME NEW v \in Users, NEW s \in Tables, NEW j \in DOMAIN cache[v][s],
              NEW k \in cache[v][s][j].asked
       PROVE  cache[v][s][j].rows[k].write >= wrote'[v][s][k]
  <2>1. ~(v = u /\ s = t)
    BY <1>9, <1>10
  <2>2. cache[v][s][j] \in Answer /\ k \in Ids
    BY <1>10 DEF TypeOK, Answer
  <2>3. wrote'[v][s][k] = wrote[v][s][k]
    BY <1>3, <2>1, <2>2
  <2> QED BY <1>10, <2>3 DEF Recent, AnswersRecent
<1>11. AnswersRecent'
  BY <1>10 DEF AnswersRecent
<1>12. Dropped'
  <2>1. ASSUME NEW d \in Calls, Writing(call'[d])
        PROVE  cache[call'[d].user][call'[d].table] = <<>>
    <3>1. CASE d = c
      BY <1>1, <1>9, <2>1, <3>1 DEF Moves, Writing
    <3>2. CASE d # c
      BY <1>1, <2>1, <3>2 DEF Moves, Recent, Dropped
    <3> QED BY <3>1, <3>2
  <2> QED BY <2>1 DEF Dropped
<1>13. ASSUME NEW d \in Calls, call'[d].pc = "store", NEW k \in call'[d].answer.asked
       PROVE  call'[d].answer.rows[k].write >= wrote'[call'[d].user][call'[d].table][k]
  <2>1. d # c /\ call'[d] = call[d]
    BY <1>1, <1>13 DEF Moves
  <2>2. call[d] \in CallRow
    BY <1>13, <2>1, CallFacts
  <2>3. call[d].user \in Users /\ call[d].table \in Tables /\ k \in Ids
    BY <1>13, <2>1, <2>2 DEF CallRow, Answer
  <2>4. call[d].user # u
    BY <1>1, <1>13, <2>1 DEF Recent, OneCall
  <2>5. wrote'[call[d].user][call[d].table][k] = wrote[call[d].user][call[d].table][k]
    BY <1>3, <2>3, <2>4
  <2> QED BY <1>13, <2>1, <2>5 DEF Recent, ReadYourWrites
<1>14. ReadYourWrites'
  BY <1>13 DEF ReadYourWrites
<1> QED BY <1>6, <1>7, <1>8, <1>11, <1>12, <1>14 DEF Recent

LEMMA StepRecent ==
    ASSUME Serial = TRUE, TypeOK, Recent, [Next]_vars
    PROVE  Recent'
<1>1. ASSUME UNCHANGED <<row, writes, cache, cached, wrote, call>>
      PROVE  Recent'
  BY <1>1 DEF Recent, OneCall, UsersKnown, RowsRecent, AnswersRecent, Dropped, ReadYourWrites, At,
              Writing
<1>2. ASSUME NEW c \in Calls, NEW u \in Users, NEW t \in Tables, NEW m \in Methods,
             NEW q \in Requests, Start(c, u, t, m, q)
      PROVE  Recent'
  BY <1>2, StartRecent
<1>3. ASSUME NEW c \in Calls, Handle(c) \/ CloseHandle(c) \/ CloseFresh(c) \/ StatementFails(c),
             UNCHANGED <<row, writes, cache, cached, wrote>>
      PROVE  Recent'
  BY <1>3, QuietRecent, InvalidateRecent
<1>4. ASSUME NEW c \in Calls, Handle(c)
      PROVE  Recent'
  <2>1. CASE Invalidate(c)
    BY <2>1, InvalidateRecent
  <2>2. CASE StoreAnswer(c)
    BY <2>2, StoreRecent
  <2>3. call[c] \in CallRow
    BY <1>4, CallMoves
  <2>4. CASE InsertRow(c)
    <3>1. PICK i \in Ids \ LiveIn(call[c].table, Ids) : WriteRows(call[c], {i}, TRUE)
      BY <2>4 DEF InsertRow
    <3>2. call'[c].pc # "store"
      <4>1. call' = [call EXCEPT ![c] = Following(call[c])]
        BY <2>4 DEF InsertRow
      <4>2. call'[c] = Following(call[c])
        BY <4>1, Became
      <4> QED BY <2>3, <4>2, FollowingType
    <3>3. Writing(call[c]) /\ UNCHANGED <<cache, cached>>
      BY <2>4 DEF InsertRow, Writing, At
    <3>4. \A live \in BOOLEAN : WriteRows(call[c], {i}, live) => Recent'
      BY <1>4, <3>2, <3>3, WriteRecent
    <3> QED BY <3>1, <3>4, TRUE \in BOOLEAN, Zenon
  <2>5. CASE UpdateRows(c)
    <3> DEFINE S == LiveIn(call[c].table, call[c].target)
    <3>1. WriteRows(call[c], S, TRUE) /\ Go(c, call[c], "reread")
      BY <2>5 DEF UpdateRows
    <3>2. call'[c].pc # "store"
      BY <2>3, <3>1, GoFacts
    <3>3. Writing(call[c]) /\ UNCHANGED <<cache, cached>>
      BY <2>5 DEF UpdateRows, Writing, At
    <3> HIDE DEF S
    <3>4. \A live \in BOOLEAN : WriteRows(call[c], S, live) => Recent'
      BY <1>4, <3>2, <3>3, WriteRecent
    <3> QED BY <3>1, <3>4, TRUE \in BOOLEAN, Zenon
  <2>6. CASE DeleteRows(c)
    <3> DEFINE S == LiveIn(call[c].table, call[c].restriction)
    <3>1. Writing(call[c]) /\ UNCHANGED <<cache, cached>>
      BY <2>6 DEF DeleteRows, Writing, At
    <3>2. CASE UNCHANGED <<row, writes, wrote>>
      BY <1>3, <1>4, <3>1, <3>2
    <3>3. CASE WriteRows(call[c], S, FALSE) /\ call' = [call EXCEPT ![c] = Following(call[c])]
      <4>1. call'[c].pc # "store"
        BY <2>3, <3>3, Became, FollowingType
      <4> HIDE DEF S
      <4>2. \A live \in BOOLEAN : WriteRows(call[c], S, live) => Recent'
        BY <1>4, <3>1, <4>1, WriteRecent
      <4> QED BY <3>3, <4>2, FALSE \in BOOLEAN, Zenon
    <3> QED BY <2>6, <3>2, <3>3 DEF DeleteRows
  <2>7. CASE \/ LookUp(c) \/ Verify(c) \/ SetupFilter(c) \/ SelectRows(c) \/ BuildUpdate(c)
            \/ NameRow(c) \/ RereadRows(c) \/ GetRows(c) \/ GuardDelete(c)
    <3>1. UNCHANGED <<row, writes, cache, cached, wrote>>
      BY <2>7 DEF LookUp, Verify, SetupFilter, SelectRows, BuildUpdate, NameRow, RereadRows, GetRows, GuardDelete
    <3> QED BY <1>3, <1>4, <3>1
  <2> QED BY <1>4, <2>1, <2>2, <2>4, <2>5, <2>6, <2>7 DEF Handle
<1>5. ASSUME NEW c \in Calls, CloseHandle(c) \/ CloseFresh(c) \/ StatementFails(c)
      PROVE  Recent'
  BY <1>3, <1>5 DEF CloseHandle, CloseFresh, StatementFails
<1> QED BY <1>1, <1>2, <1>4, <1>5 DEF Next, vars, Reregister

(* When users wait for the end of each call, every user reads what he wrote: *)
(* for any number of users, calls side by side, closed handles and schemas  *)
(* that come and go.                                                        *)
THEOREM OwnWritesRead ==
    ASSUME Serial = TRUE
    PROVE  Spec => []ReadYourWrites
<1>1. TypeOK /\ Recent /\ [Next]_vars => (TypeOK /\ Recent)'
  BY StepTyped, StepRecent
<1>2. Recent => ReadYourWrites
  BY DEF Recent
<1> QED BY <1>1, <1>2, InitTyped, InitRecent, PTL DEF Spec
=============================================================================
