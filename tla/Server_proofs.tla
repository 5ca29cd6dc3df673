------------------------------ MODULE Server_proofs ------------------------------
(***************************************************************************)
(* For any number of rows, requests and failures, any page size and any    *)
(* time given to Shutdown: a stop lets every request finish that needs no  *)
(* longer, and a walk through the pages sees the whole list.               *)
(***************************************************************************)
EXTENDS Server, FiniteSetTheorems, TLAPS

-------------------------------------------------------------------------------
(***************************************************************************)
(* The inductive invariant of a stop.                                      *)
(***************************************************************************)
Starting == {"load", "postgres", "redis", "sender"}
Stopping == {"closePG", "closeRedis", "exit", "exited"}
Labels == {"idle", "auth", "outside", "acquire", "count", "again", "select", "exec", "reply",
           "done", "error"}
Ops == {"none", "list", "create", "remove", "update", "read", "slow"}
Queries == [page : Nat, size : Nat]
Requests == [at : Labels, op : Ops, total : Nat, items : SUBSET Nat, query : Queries]

LifeType ==
    /\ main \in Starting \cup {"serving", "shutdown"} \cup Stopping
    /\ grace \in Nat /\ faults \in Nat
    /\ req \in [Client -> Requests]

(* No request before the server listens; what a handler uses is open until  *)
(* Shutdown returns; and when a request outlives Shutdown, its time is over. *)
LifeInv ==
    /\ listening => main = "serving"
    /\ main \in Starting => \A c \in Client : req[c].at = "idle"
    /\ main \in {"redis", "sender", "serving", "shutdown"} => pg = "open"
    /\ main \in {"sender", "serving", "shutdown"} => redis = "open"
    /\ main \in Stopping => InFlight = {} \/ grace = 0

StopInv == LifeType /\ LifeInv /\ GracefulStop

-------------------------------------------------------------------------------
(***************************************************************************)
(* The inductive invariant of a walk.                                      *)
(***************************************************************************)
Size == ParseQuery(1, AskedSize).size
Walking == req["walker"].at \notin {"idle", "done", "error"}
Begun == page > 1 \/ req["walker"].at # "idle"

ListType ==
    /\ list \in {"todos", "users"} /\ clock \in 0..MaxRows
    /\ rows \subseteq 1..clock /\ away \subseteq 1..clock
    /\ page \in Nat \ {0} /\ seen \subseteq Nat /\ base \subseteq Nat
    /\ disturbed \in BOOLEAN

(* Page and total stay where no integer of the offset overflows.            *)
PageInv ==
    /\ (page - 1) * Size <= MaxRows
    /\ req["walker"].total <= MaxRows
    /\ Walking => /\ req["walker"].op = "list"
                  /\ req["walker"].at \notin {"outside", "exec"}
                  /\ req["walker"].query = ParseQuery(page, AskedSize)

(* What has not been seen lies behind the pages that were.                  *)
WalkInv ==
    Begun /\ ~disturbed =>
        /\ base \subseteq rows
        /\ \A r \in base : r \in seen \/ Place(rows, r) >= (page - 1) * Size
        /\ req["walker"].at \in {"again", "select"} => req["walker"].total = Cardinality(rows)
        /\ req["walker"].at = "reply" =>
              \A r \in base : \/ r \in seen \cup req["walker"].items
                              \/ /\ Place(rows, r) >= page * Size
                                 /\ page * Size < req["walker"].total
        /\ req["walker"].at = "done" => base \subseteq seen

-------------------------------------------------------------------------------
(***************************************************************************)
(* The stop.                                                               *)
(***************************************************************************)
(* Only finitely many rows were ever inserted.                              *)
LEMMA RowsFinite == ListType => IsFiniteSet(rows) /\ Cardinality(rows) \in 0..MaxRows
  <1> SUFFICES ASSUME ListType PROVE IsFiniteSet(rows) /\ Cardinality(rows) \in 0..MaxRows
      OBVIOUS
  <1>1. IsFiniteSet(1..clock) /\ Cardinality(1..clock) = clock
    BY PagesAssumption, FS_Interval DEF ListType
  <1>2. IsFiniteSet(rows) /\ Cardinality(rows) <= clock
    BY <1>1, FS_Subset DEF ListType
  <1>. QED BY <1>2, PagesAssumption, FS_CardinalityType DEF ListType

LEMMA RowsFiniteNext == (ListType => IsFiniteSet(rows) /\ Cardinality(rows) \in 0..MaxRows)'
  BY RowsFinite, PTL

LEMMA PageOf == \A S, limit, offset : Page(S, limit, offset) \subseteq S
  BY DEF Page

LEMMA QueryType ==
    ASSUME NEW p \in Nat, NEW a \in Nat
    PROVE  /\ ParseQuery(p, a) \in Queries
           /\ p > 0 => ParseQuery(p, a).page = p
           /\ ParseQuery(p, a).size = ParseQuery(1, a).size
           /\ ParseQuery(p, a).size \in 1..MaxPageSize
  BY PagesAssumption DEF ParseQuery, Queries

LEMMA BlankType == Blank \in Requests /\ \A l \in Labels : Ended(l) \in Requests /\ Ended(l).at = l
  <1>1. Blank \in Requests
    BY QueryType DEF Blank, Requests, Labels, Ops
  <1>. QED BY <1>1 DEF Ended, Requests

(* A step that leaves the life of the server alone, and what it may do to   *)
(* one request.                                                             *)
LEMMA OneRequest ==
    ASSUME StopInv, UNCHANGED life, faults' \in Nat, faults <= faults',
           NEW c \in Client, NEW q \in Requests, req' = [req EXCEPT ![c] = q],
           main \notin Starting,
           c \in InFlight \/ main \notin Stopping,
           q.at = "error" => faults' > 0 \/ (main # "serving" /\ grace = 0)
    PROVE  StopInv'
  <1> USE DEF life
  <1>1. LifeType' 
    BY DEF StopInv, LifeType
  <1>2. InFlight = {} \/ grace = 0 => InFlight' = {} \/ grace' = 0 \/ main' \notin Stopping
    BY DEF StopInv, LifeType
  <1>3. LifeInv'
    BY <1>2 DEF StopInv, LifeInv, LifeType, Client
  <1>4. GracefulStop'
    BY DEF StopInv, GracefulStop, LifeType
  <1>. QED BY <1>1, <1>3, <1>4 DEF StopInv

LEMMA StopStep == StopInv /\ ListType /\ [Next]_svars => StopInv'
  <1> SUFFICES ASSUME StopInv, ListType, [Next]_svars PROVE StopInv'
      OBVIOUS
  <1> USE DEF life, walk
  <1>0. Client = {"walker", "changer"}
    BY DEF Client
  <1>1. CASE LoadConfig
    BY <1>1 DEF LoadConfig, StopInv, LifeType, LifeInv, GracefulStop, InFlight, Starting, Stopping
  <1>2. ASSUME NEW fails \in BOOLEAN, NewPostgres(fails) PROVE StopInv'
    BY <1>2 DEF NewPostgres, Refused, Fault, StopInv, LifeType, LifeInv, GracefulStop, InFlight,
       Starting, Stopping
  <1>3. ASSUME NEW fails \in BOOLEAN, NewRedis(fails) PROVE StopInv'
    BY <1>3 DEF NewRedis, Refused, Fault, StopInv, LifeType, LifeInv, GracefulStop, InFlight,
       Starting, Stopping
  <1>4. CASE BuildCodeSender
    BY <1>4 DEF BuildCodeSender, StopInv, LifeType, LifeInv, GracefulStop, InFlight,
       Starting, Stopping
  <1>5. CASE Signal
    BY <1>5 DEF Signal, StopInv, LifeType, LifeInv, GracefulStop, InFlight, Starting, Stopping
  <1>6. CASE Stop
    BY <1>6, ServerAssumption DEF Stop, Fault, StopInv, LifeType, LifeInv, GracefulStop, InFlight,
       Starting, Stopping
  <1>7. CASE Drained
    BY <1>7 DEF Drained, StopInv, LifeType, LifeInv, GracefulStop, InFlight, Starting, Stopping
  <1>8. CASE Tick
    BY <1>8 DEF Tick, StopInv, LifeType, LifeInv, GracefulStop, InFlight, Starting, Stopping
  <1>9. CASE ClosePool
    BY <1>9 DEF ClosePool, StopInv, LifeType, LifeInv, GracefulStop, InFlight, Starting, Stopping
  <1>10. CASE PoolClosed
    BY <1>10 DEF PoolClosed, StopInv, LifeType, LifeInv, GracefulStop, InFlight, Starting, Stopping
  <1>11. CASE CloseRedis
    BY <1>11 DEF CloseRedis, StopInv, LifeType, LifeInv, GracefulStop, InFlight, Starting, Stopping
  <1>12. CASE Exit
    <2>1. /\ main = "exit" /\ main' = "exited" /\ (InFlight = {} \/ grace = 0)
          /\ UNCHANGED <<pg, redis, listening, grace, faults>>
      BY <1>12 DEF Exit, StopInv, LifeInv, Stopping
    <2>2. /\ req' \in [Client -> Requests]
          /\ \A c \in Client : req'[c] = req[c] \/ (c \in InFlight /\ req'[c].at = "error")
      BY <1>12, BlankType DEF Exit, Labels, StopInv, LifeType
    <2>. QED BY <1>12, <2>1, <2>2 DEF Exit, StopInv, LifeType, LifeInv, GracefulStop, InFlight,
            Starting, Stopping
  <1>13. ASSUME NEW c \in Client, NEW op \in Ops \ {"none"}, Arrive(c, op) PROVE StopInv'
    <2> DEFINE q == [Blank EXCEPT !.at = "auth", !.op = op, !.query = ParseQuery(page, AskedSize)]
    <2>1. q \in Requests /\ q.at = "auth"
      <3>1. ParseQuery(page, AskedSize) \in Queries
        BY QueryType, ServerAssumption DEF ListType
      <3>. QED BY <3>1, BlankType DEF Requests, Labels
    <2>2. req' = [req EXCEPT ![c] = q] /\ UNCHANGED <<life, faults>> /\ main = "serving"
      BY <1>13 DEF Arrive, StopInv, LifeInv
    <2> HIDE DEF q
    <2>3. main \notin Starting /\ main \notin Stopping
      BY <2>2 DEF Starting, Stopping
    <2>4. faults' \in Nat /\ faults <= faults'
      BY <2>2 DEF StopInv, LifeType
    <2>. QED BY <2>1, <2>2, <2>3, <2>4, OneRequest
  <1>14. ASSUME NEW c \in Client, Handle(c) \/ Return(c) \/ QueryFails(c) PROVE StopInv'
    <2>1. c \in InFlight /\ UNCHANGED life /\ main \notin Starting
      BY <1>14 DEF Handle, Return, QueryFails, Auth, Acquire, Count, Select, Exec, Reply, Alive,
         StopInv, LifeInv, InFlight
    <2>2. faults' \in Nat /\ faults' >= faults
      BY <1>14 DEF Handle, Return, QueryFails, Auth, Acquire, Count, Select, Exec, Reply, Fault,
         StopInv, LifeType
    <2>3. \E q \in Requests :
             /\ req' = [req EXCEPT ![c] = q]
             /\ q.at = "error" => faults' > 0 \/ (main # "serving" /\ grace = 0)
      <3> SUFFICES ASSUME TRUE PROVE
             /\ req'[c] \in Requests /\ req' = [req EXCEPT ![c] = req'[c]]
             /\ req'[c].at = "error" => faults' > 0 \/ (main # "serving" /\ grace = 0)
        OBVIOUS
      <3>1. ASSUME NEW l \in Labels, Goes(c, l)
            PROVE  /\ req'[c] \in Requests /\ req' = [req EXCEPT ![c] = req'[c]]
                   /\ req'[c].at = l
        BY <3>1 DEF Goes, StopInv, LifeType, Requests
      <3>2. ASSUME NEW l \in Labels, Ends(c, l)
            PROVE  /\ req'[c] \in Requests /\ req' = [req EXCEPT ![c] = req'[c]]
                   /\ req'[c].at = l
        BY <3>2, BlankType DEF Ends, StopInv, LifeType
      <3>3. ASSUME NEW fails \in BOOLEAN, Auth(c, fails) PROVE
             /\ req'[c] \in Requests /\ req' = [req EXCEPT ![c] = req'[c]]
             /\ req'[c].at = "error" => faults' > 0 \/ (main # "serving" /\ grace = 0)
        <4>1. CASE fails
          BY <2>1, <3>2, <3>3, <4>1 DEF Auth, Fault, Labels, StopInv, LifeType, LifeInv, Stopping
        <4>2. CASE ~fails
          BY <3>1, <3>3, <4>2 DEF Auth, Labels
        <4>. QED BY <4>1, <4>2
      <3>4. CASE Return(c)
        BY <3>1, <3>4 DEF Return, Labels
      <3>5. CASE Acquire(c)
        <4>1. CASE pg # "open" /\ Ends(c, "error")
          BY <2>1, <3>2, <4>1 DEF Labels, StopInv, LifeType, LifeInv, Stopping
        <4>2. CASE \E l \in {"select", "count", "exec"} : Goes(c, l)
          BY <3>1, <4>2 DEF Labels
        <4>. QED BY <3>5, <4>1, <4>2 DEF Acquire
      <3>6. CASE Count(c)
        <4>1. req' = [req EXCEPT ![c].at = "again", ![c].total = Cardinality(rows)]
          BY <3>6 DEF Count, CountTodosByUserID, CountUsers
        <4>2. Cardinality(rows) \in Nat
          BY RowsFinite, PagesAssumption
        <4>. QED BY <4>1, <4>2 DEF StopInv, LifeType, Requests, Labels
      <3>7. CASE Select(c)
        <4>1. req' = [req EXCEPT ![c].at = "reply",
                                 ![c].items = ListTodosByUserIDPaginated(req[c].query)]
          BY <3>7 DEF Select, ListTodosByUserIDPaginated, ListUsers
        <4>2. ListTodosByUserIDPaginated(req[c].query) \subseteq Nat
          <5>1. rows \subseteq Nat
            BY DEF ListType
          <5>. QED BY <5>1, PageOf DEF ListTodosByUserIDPaginated
        <4>. QED BY <4>1, <4>2 DEF StopInv, LifeType, Requests, Labels
      <3>8. CASE Exec(c)
        BY <3>1, <3>8 DEF Exec, Labels
      <3>9. CASE Reply(c)
        BY <3>2, <3>9 DEF Reply, Labels
      <3>10. CASE QueryFails(c)
        BY <3>2, <3>10 DEF QueryFails, Fault, Labels, StopInv, LifeType
      <3>. QED BY <1>14, <3>3, <3>4, <3>5, <3>6, <3>7, <3>8, <3>9, <3>10 DEF Handle
    <2>. QED BY <2>1, <2>2, <2>3, OneRequest
  <1>15. CASE UNCHANGED svars
    BY <1>15 DEF svars, StopInv, LifeType, LifeInv, GracefulStop, InFlight
  <1>. QED
    BY <1>1, <1>2, <1>3, <1>4, <1>5, <1>6, <1>7, <1>8, <1>9, <1>10, <1>11, <1>12, <1>13, <1>14,
       <1>15 DEF Next, Main, Ops

-------------------------------------------------------------------------------
(***************************************************************************)
(* The walk.                                                               *)
(***************************************************************************)
LEMMA PlaceFacts ==
    ASSUME NEW S, IsFiniteSet(S), NEW r
    PROVE  /\ Place(S, r) \in Nat /\ Cardinality(S) \in Nat
           /\ S \subseteq Nat /\ r \in S => Place(S, r) < Cardinality(S)
           /\ \A T \in SUBSET S : Place(T, r) <= Place(S, r)
  <1> DEFINE Newer(T) == {s \in T : s > r}
  <1>1. IsFiniteSet(Newer(S)) /\ Cardinality(Newer(S)) \in Nat /\ Cardinality(S) \in Nat
    BY FS_Subset, FS_CardinalityType
  <1>2. ASSUME S \subseteq Nat, r \in S PROVE Cardinality(Newer(S)) < Cardinality(S)
    <2>1. Newer(S) \subseteq S /\ Newer(S) # S
      <3>1. r \in S /\ r \notin Newer(S)
        BY <1>2
      <3>. QED BY <3>1
    <2> HIDE DEF Newer
    <2>2. Cardinality(Newer(S)) <= Cardinality(S) /\ Cardinality(Newer(S)) # Cardinality(S)
      BY <2>1, FS_Subset
    <2>. QED BY <1>1, <2>2
  <1>3. ASSUME NEW T \in SUBSET S PROVE Cardinality(Newer(T)) <= Cardinality(Newer(S))
    <2>1. Newer(T) \subseteq Newer(S)
      OBVIOUS
    <2>. QED BY <1>1, <2>1, FS_Subset
  <1>. QED BY <1>1, <1>2, <1>3 DEF Place

(* An offset that fits is the one that was meant.                           *)
LEMMA FitsNoWrap ==
    ASSUME NEW n \in 0..Int32Max
    PROVE  ClampToInt32(Wrap(n)) = n
  <1>1. n + IntMax + 1 \in Nat /\ n + IntMax + 1 < 2 * (IntMax + 1)
    BY PagesAssumption
  <1>2. (n + IntMax + 1) % (2 * (IntMax + 1)) = n + IntMax + 1
    <2> DEFINE a == n + IntMax + 1
               m == 2 * (IntMax + 1)
    <2>1. a \in Nat /\ m \in Nat \ {0} /\ a < m
      BY <1>1, PagesAssumption
    <2> HIDE DEF a, m
    <2>2. a % m = a
      BY <2>1
    <2>. QED BY <2>2 DEF a, m
  <1>3. Wrap(n) = n
    BY <1>2, PagesAssumption DEF Wrap
  <1>. QED BY <1>3, PagesAssumption DEF ClampToInt32

(* The list is no longer than OFFSET can say, an int32, and a page neither: *)
(* of the sizes the server runs with, 100 and 2^31 - 1, the latter holds.   *)
LargeEnough == MaxRows <= Int32Max /\ MaxPageSize <= Int32Max

(* The page the walker reads: Size rows from its place in the list.         *)
LEMMA PageRead ==
    ASSUME LargeEnough, ListType, PageInv, Walking
    PROVE  ListTodosByUserIDPaginated(req["walker"].query) =
               {r \in rows : Place(rows, r) \in (page - 1) * Size .. page * Size - 1}
  <1> DEFINE q == req["walker"].query
  <1>1. q.page = page /\ q.size = Size /\ Size \in 1..MaxPageSize
    BY QueryType, ServerAssumption DEF PageInv, ListType, Size
  <1>2. (page - 1) * Size \in 0..Int32Max /\ Size \in 0..Int32Max
    <2>1. page - 1 \in Nat /\ Size \in Nat
      BY <1>1 DEF ListType
    <2>2. (page - 1) * Size \in Nat
      BY <2>1
    <2>. QED BY <1>1, <2>2, PagesAssumption DEF LargeEnough, PageInv
  <1>3. ClampToInt32(Offset(q)) = (page - 1) * Size
    BY <1>1, <1>2, FitsNoWrap DEF Offset
  <1>4. ClampToInt32(q.size) = Size
    BY <1>1, <1>2, PagesAssumption DEF ClampToInt32
  <1>5. (page - 1) * Size + Size - 1 = page * Size - 1
    BY <1>1 DEF ListType
  <1>. QED BY <1>3, <1>4, <1>5 DEF ListTodosByUserIDPaginated, Page

WInv == ListType /\ PageInv /\ WalkInv

LEMMA WalkerStays ==
    ASSUME WInv, UNCHANGED <<walk, pvars>>, req'["walker"] = req["walker"]
    PROVE  WInv'
  BY DEF WInv, ListType, PageInv, WalkInv, Walking, Begun, walk, pvars, Place

LEMMA WalkerFails ==
    ASSUME WInv, UNCHANGED <<walk, pvars>>, Walking, req'["walker"] = Ended("error")
    PROVE  WInv'
  <1>1. /\ req'["walker"].at = "error" /\ req'["walker"].total = 0
        /\ req["walker"].at # "idle"
    BY BlankType DEF Ended, Blank, Walking
  <1>2. MaxRows >= 0
    BY PagesAssumption
  <1>. QED BY <1>1, <1>2 DEF WInv, ListType, PageInv, WalkInv, Walking, Begun, walk, pvars, Place

LEMMA WalkerMoves ==
    ASSUME LifeType, WInv, UNCHANGED <<walk, pvars>>, Walking,
           NEW l \in {"acquire", "count", "select"}, req' = [req EXCEPT !["walker"].at = l],
           l = "select" => req["walker"].at = "again"
    PROVE  WInv'
  <1>1. /\ req'["walker"].at = l /\ req'["walker"].total = req["walker"].total
        /\ req'["walker"].op = req["walker"].op /\ req'["walker"].query = req["walker"].query
    BY DEF LifeType, Requests, Client
  <1>. QED BY <1>1 DEF WInv, ListType, PageInv, WalkInv, Walking, Begun, walk, pvars, Place

LEMMA WalkerArrives ==
    ASSUME LifeType, WInv, NEW op, Arrive("walker", op)
    PROVE  WInv'
  <1>1. /\ req'["walker"].at = "auth" /\ req'["walker"].total = 0
        /\ req'["walker"].op = "list" /\ req'["walker"].query = ParseQuery(page, AskedSize)
        /\ req["walker"].at = "idle"
    BY DEF Arrive, Blank, LifeType, Client
  <1>2. MaxRows >= 0
    BY PagesAssumption
  <1>3. CASE page = 1
    <2>1. base' = rows /\ disturbed' = FALSE /\ UNCHANGED <<page, seen, pvars>>
      BY <1>3 DEF Arrive
    <2>2. Size \in Nat
      BY QueryType, ServerAssumption DEF Size
    <2>3. \A r \in rows : Place(rows, r) >= (page - 1) * Size
      BY <1>3, <2>2, RowsFinite, PlaceFacts DEF WInv
    <2>4. ListType'
      <3>1. rows \subseteq Nat
        BY DEF WInv, ListType
      <3>. QED BY <2>1, <3>1 DEF WInv, ListType, pvars
    <2>5. PageInv'
      BY <1>1, <1>2, <2>1 DEF WInv, PageInv
    <2>6. \A r \in base' : Place(rows', r) >= (page' - 1) * Size
      BY <2>1, <2>3 DEF pvars
    <2>7. WalkInv'
      BY <1>1, <2>1, <2>6 DEF WalkInv, pvars
    <2>. QED BY <2>4, <2>5, <2>7 DEF WInv
  <1>4. CASE page # 1
    <2>1. UNCHANGED <<walk, pvars>> /\ page > 1
      BY <1>4 DEF Arrive, WInv, ListType, walk
    <2>. QED BY <1>1, <1>2, <2>1 DEF WInv, ListType, PageInv, WalkInv, Walking, Begun, walk, pvars, Place
  <1>. QED BY <1>3, <1>4

LEMMA WalkerCounts ==
    ASSUME LifeType, WInv, Walking, Count("walker")
    PROVE  WInv'
  <1>1. req' = [req EXCEPT !["walker"].at = "again", !["walker"].total = Cardinality(rows)]
    BY DEF Count, CountTodosByUserID, CountUsers
  <1>2. /\ req'["walker"].at = "again" /\ req'["walker"].total = Cardinality(rows)
        /\ req'["walker"].op = req["walker"].op /\ req'["walker"].query = req["walker"].query
    BY <1>1 DEF LifeType, Requests, Client
  <1>3. UNCHANGED <<walk, pvars>> /\ Cardinality(rows) <= MaxRows
    BY RowsFinite, PagesAssumption DEF Count, WInv
  <1>. QED BY <1>2, <1>3 DEF WInv, ListType, PageInv, WalkInv, Walking, Begun, walk, pvars, Place

(* Of the rows the page does not show, those not seen are behind it; then   *)
(* the count says that there is another page.                               *)
LEMMA WalkerReads ==
    ASSUME LargeEnough, LifeType, WInv, Select("walker")
    PROVE  WInv'
  <1> DEFINE items == ListTodosByUserIDPaginated(req["walker"].query)
  <1>1. req' = [req EXCEPT !["walker"].at = "reply", !["walker"].items = items]
    BY DEF Select, ListTodosByUserIDPaginated, ListUsers
  <1>2. /\ req["walker"].at = "select" /\ Walking /\ UNCHANGED <<walk, pvars>>
    BY DEF Select, Walking
  <1>3. items = {r \in rows : Place(rows, r) \in (page - 1) * Size .. page * Size - 1}
    BY <1>2, PageRead DEF WInv
  <1> HIDE DEF items
  <1>4. /\ req'["walker"].at = "reply" /\ req'["walker"].total = req["walker"].total
        /\ req'["walker"].items = items
        /\ req'["walker"].op = req["walker"].op /\ req'["walker"].query = req["walker"].query
    BY <1>1 DEF LifeType, Requests, Client
  <1>5. ASSUME ~disturbed, NEW r \in base
        PROVE  \/ r \in seen \cup items
               \/ Place(rows, r) >= page * Size /\ page * Size < req["walker"].total
    <2>1. r \in rows /\ (r \in seen \/ Place(rows, r) >= (page - 1) * Size)
      BY <1>2, <1>5 DEF WInv, WalkInv, Begun
    <2>2. req["walker"].total = Cardinality(rows)
      BY <1>2, <1>5 DEF WInv, WalkInv, Begun
    <2>3. /\ Place(rows, r) \in Nat /\ Place(rows, r) < Cardinality(rows) /\ Cardinality(rows) \in Nat
      <3>1. IsFiniteSet(rows) /\ rows \subseteq Nat
        BY RowsFinite DEF WInv, ListType
      <3>. QED BY <2>1, <3>1, PlaceFacts
    <2>4. (page - 1) * Size \in Int /\ page * Size \in Int
      BY QueryType, ServerAssumption DEF WInv, ListType, Size
    <2>. QED BY <1>3, <2>1, <2>2, <2>3, <2>4
  <1>. QED BY <1>2, <1>4, <1>5 DEF WInv, ListType, PageInv, WalkInv, Walking, Begun, walk, pvars, Place

LEMMA WalkerTakes ==
    ASSUME LifeType, WInv, Reply("walker")
    PROVE  WInv'
  <1> DEFINE w == req["walker"]
  <1>1. /\ w.at = "reply" /\ Walking /\ UNCHANGED <<base, disturbed, pvars>>
        /\ seen' = seen \cup w.items
    BY DEF Reply, Walking
  <1>2. w.query.size = Size /\ Size \in Nat /\ page \in Nat \ {0} /\ w.total \in Nat /\ w.items \subseteq Nat
    BY <1>1, QueryType, ServerAssumption DEF WInv, PageInv, ListType, Size, LifeType, Requests, Client
  <1>3. MaxRows >= 0
    BY PagesAssumption
  <1>4. CASE page * Size < w.total
    <2>1. page' = page + 1 /\ Ends("walker", "idle")
      BY <1>2, <1>4 DEF Reply
    <2>2. req'["walker"].at = "idle" /\ req'["walker"].total = 0
      BY <2>1 DEF Ends, Ended, Blank, LifeType, Client
    <2>3. (page' - 1) * Size = page * Size
      BY <1>2, <2>1
    <2>4. page * Size <= MaxRows
      <3>1. page * Size \in Int /\ w.total <= MaxRows
        BY <1>2 DEF WInv, PageInv
      <3>. QED BY <1>2, <1>4, <3>1, PagesAssumption
    <2>5. ~disturbed => base \subseteq rows /\ \A r \in base : r \in seen' \/ Place(rows, r) >= page * Size
      BY <1>1 DEF WInv, WalkInv, Begun
    <2>6. ListType'
      <3>1. page' \in Nat \ {0} /\ seen' \subseteq Nat
        <4>1. seen \subseteq Nat
          BY DEF WInv, ListType
        <4> HIDE DEF w
        <4>2. page' \in Nat \ {0}
          BY <1>2, <2>1
        <4>3. seen' \subseteq Nat
          BY <1>1, <1>2, <4>1
        <4>. QED BY <4>2, <4>3
      <3>. QED BY <1>1, <3>1 DEF WInv, ListType, pvars
    <2>7. PageInv'
      BY <1>3, <2>2, <2>3, <2>4 DEF PageInv, Walking, Size
    <2>8. WalkInv'
      BY <1>1, <2>2, <2>3, <2>5 DEF WalkInv, Size, pvars
    <2>. QED BY <2>6, <2>7, <2>8 DEF WInv
  <1>5. CASE ~(page * Size < w.total)
    <2>1. page' = page /\ Ends("walker", "done")
      BY <1>2, <1>5 DEF Reply
    <2>2. req'["walker"].at = "done" /\ req'["walker"].total = 0
      BY <2>1 DEF Ends, Ended, Blank, LifeType, Client
    <2>3. ~disturbed => base \subseteq rows /\ base \subseteq seen'
      BY <1>1, <1>5 DEF WInv, WalkInv, Begun
    <2>6. ListType'
      <3>1. page' \in Nat \ {0} /\ seen' \subseteq Nat
        <4>1. seen \subseteq Nat
          BY DEF WInv, ListType
        <4> HIDE DEF w
        <4>2. page' \in Nat \ {0}
          BY <1>2, <2>1
        <4>3. seen' \subseteq Nat
          BY <1>1, <1>2, <4>1
        <4>. QED BY <4>2, <4>3
      <3>. QED BY <1>1, <3>1 DEF WInv, ListType, pvars
    <2>7. PageInv'
      BY <1>3, <2>1, <2>2 DEF WInv, PageInv, Walking
    <2>8. WalkInv'
      BY <1>1, <2>2, <2>3 DEF WalkInv, pvars
    <2>. QED BY <2>6, <2>7, <2>8 DEF WInv
  <1>. QED BY <1>4, <1>5

(* What a write does to the rows, whose ever it is.                         *)
LEMMA ListWrites ==
    ASSUME ListType, NEW c \in Client, Exec(c)
    PROVE  /\ list' = list /\ clock' \in 0..MaxRows
           /\ rows' \subseteq 1..clock' /\ away' \subseteq 1..clock'
  <1>1. UNCHANGED pvars \/ CreateTodo \/ CreateUser \/ \E r \in 0..clock : DeleteTodo(r) \/ UpdateUserStatus(r)
    <2>1. CASE req[c].op = "create"
      BY <2>1 DEF Exec
    <2>2. CASE req[c].op = "remove"
      BY <2>2 DEF Exec
    <2>3. CASE req[c].op = "update"
      <3>1. UpdateTodo \/ UpdateUserStatus(0)
        BY <2>3 DEF Exec
      <3>. QED BY <3>1, PagesAssumption DEF UpdateTodo, ListType
    <2>4. CASE req[c].op \notin {"create", "remove", "update"}
      <3>1. GetTodoByIDAndUserID \/ (list = "users" /\ UNCHANGED pvars)
        BY <2>4 DEF Exec
      <3>. QED BY <3>1 DEF GetTodoByIDAndUserID
    <2>. QED BY <2>1, <2>2, <2>3, <2>4
  <1>2. CASE UNCHANGED pvars
    BY <1>2 DEF pvars, ListType
  <1>3. CASE CreateTodo \/ CreateUser
    <2>1. /\ list' = list /\ clock < MaxRows /\ clock' = clock + 1 /\ clock \in Nat
          /\ rows' = rows \cup {clock + 1} /\ away' = away
      BY <1>3 DEF CreateTodo, CreateUser, ListType
    <2>. QED BY <2>1, PagesAssumption DEF ListType
  <1>4. ASSUME NEW r, DeleteTodo(r) \/ UpdateUserStatus(r)
        PROVE  /\ list' = list /\ clock' = clock
               /\ rows' \subseteq rows \cup away /\ away' \subseteq rows \cup away
    BY <1>4 DEF DeleteTodo, UpdateUserStatus
  <1>. QED BY <1>1, <1>2, <1>3, <1>4 DEF ListType

LEMMA ListStep == LifeType /\ ListType /\ [Next]_svars => ListType'
  <1> SUFFICES ASSUME LifeType, ListType, [Next]_svars PROVE ListType'
      OBVIOUS
  <1>1. CASE UNCHANGED <<walk, pvars>>
    BY <1>1 DEF ListType, walk, pvars
  <1>2. ASSUME NEW c \in Client, NEW op, Arrive(c, op) PROVE ListType'
    <2>1. rows \subseteq Nat
      BY DEF ListType
    <2>. QED BY <1>2, <2>1 DEF Arrive, ListType, pvars
  <1>3. ASSUME NEW c \in Client, Exec(c) PROVE ListType'
    BY <1>3, ListWrites DEF Exec, Disturbs, ListType
  <1>4. ASSUME NEW c \in Client, Reply(c) PROVE ListType'
    <2>1. req[c].items \subseteq Nat
      BY <1>4 DEF LifeType, Requests
    <2>2. page \in Nat \ {0} /\ seen \subseteq Nat
      BY DEF ListType
    <2>3. page' \in {page, page + 1} /\ seen' \in {seen, seen \cup req[c].items}
      BY <1>4 DEF Reply
    <2>4. page' \in Nat \ {0} /\ seen' \subseteq Nat
      BY <2>1, <2>2, <2>3
    <2>. QED BY <1>4, <2>4 DEF Reply, ListType, pvars
  <1>5. CASE Main \/ Stop \/ Signal \/ Tick \/ UNCHANGED svars
    <2>1. UNCHANGED <<walk, pvars>>
      BY <1>5 DEF Main, LoadConfig, NewPostgres, NewRedis, BuildCodeSender, Drained, ClosePool,
         PoolClosed, CloseRedis, Exit, Stop, Signal, Tick, svars, walk
    <2>. QED BY <1>1, <2>1
  <1>6. ASSUME NEW c \in Client, Handle(c) \/ Return(c) \/ QueryFails(c) PROVE ListType'
    <2>1. Exec(c) \/ Reply(c) \/ UNCHANGED <<walk, pvars>>
      BY <1>6 DEF Handle, Return, QueryFails, Auth, Acquire, Count, Select, walk
    <2>. QED BY <1>1, <1>3, <1>4, <2>1
  <1>. QED BY <1>2, <1>5, <1>6 DEF Next

(* Rows only come: a row moves back in the list, never forward.             *)
LEMMA ChangerWrites ==
    ASSUME LifeType, WInv, Exec("changer")
    PROVE  WInv'
  <1>1. /\ UNCHANGED <<page, seen, base>> /\ disturbed' = (disturbed \/ Disturbs)
        /\ req'["walker"] = req["walker"]
    BY DEF Exec, Goes, LifeType, Client
  <1>3. ListType'
    BY <1>1, ListWrites DEF Client, WInv, ListType, Disturbs
  <1>4. PageInv'
    BY <1>1 DEF WInv, PageInv, Walking
  <1>5. WalkInv'
    <2> SUFFICES ASSUME Begun, ~disturbed, ~Disturbs PROVE WalkInv'
      BY <1>1 DEF WalkInv, Begun
    <2>1. rows \subseteq rows' /\ (req["walker"].at \in {"again", "select"} => rows' = rows)
      BY DEF Disturbs
    <2>2. IsFiniteSet(rows')
      BY <1>3, RowsFiniteNext
    <2>3. \A r \in base : /\ Place(rows, r) \in Nat /\ Place(rows', r) \in Nat
                          /\ Place(rows, r) <= Place(rows', r)
      BY <2>1, <2>2, RowsFinite, PlaceFacts DEF WInv
    <2>4. Size \in Nat /\ page \in Nat
      BY QueryType, ServerAssumption DEF WInv, ListType, Size
    <2>5. \A n \in Int, r \in base : Place(rows, r) >= n => Place(rows', r) >= n
      BY <2>3
    <2>6. (page - 1) * Size \in Int /\ page * Size \in Int
      BY <2>4
    <2>. QED BY <1>1, <2>1, <2>5, <2>6 DEF WInv, WalkInv, Begun
  <1>. QED BY <1>3, <1>4, <1>5 DEF WInv

LEMMA WalkStep == LargeEnough /\ StopInv /\ WInv /\ [Next]_svars => WInv'
  <1> SUFFICES ASSUME LargeEnough, StopInv, WInv, [Next]_svars PROVE WInv'
      OBVIOUS
  <1>0. LifeType
    BY DEF StopInv
  <1>1. CASE Main \/ Stop \/ Signal \/ Tick \/ UNCHANGED svars
    <2>1. UNCHANGED <<walk, pvars>>
      BY <1>1 DEF Main, LoadConfig, NewPostgres, NewRedis, BuildCodeSender, Drained, ClosePool,
         PoolClosed, CloseRedis, Exit, Stop, Signal, Tick, svars, walk
    <2>2. \/ req'["walker"] = req["walker"]
          \/ Walking /\ req'["walker"] = Ended("error")
      <3>1. req' = req \/ Exit
        BY <1>1 DEF Main, LoadConfig, NewPostgres, NewRedis, BuildCodeSender, Drained, ClosePool,
           PoolClosed, CloseRedis, Stop, Signal, Tick, svars
      <3>2. CASE Exit
        BY <3>2 DEF Exit, InFlight, Walking, Client
      <3>. QED BY <3>1, <3>2
    <2>. QED BY <2>1, <2>2, WalkerStays, WalkerFails
  <1>2. ASSUME NEW c \in Client, NEW op, Arrive(c, op) PROVE WInv'
    <2>1. CASE c = "walker"
      BY <1>0, <1>2, <2>1, WalkerArrives
    <2>2. CASE c # "walker"
      <3>1. UNCHANGED <<walk, pvars>> /\ req'["walker"] = req["walker"]
        BY <1>0, <1>2, <2>2 DEF Arrive, walk, LifeType, Client
      <3>. QED BY <3>1, WalkerStays
    <2>. QED BY <2>1, <2>2
  <1>3. ASSUME Handle("walker") \/ Return("walker") \/ QueryFails("walker") PROVE WInv'
    <2>1. Walking
      BY <1>3 DEF Handle, Return, QueryFails, Auth, Acquire, Count, Select, Exec, Reply, Alive,
         InFlight, Walking
    <2>2. req["walker"].op = "list" /\ req["walker"].at \notin {"outside", "exec"}
      BY <2>1 DEF WInv, PageInv
    <2>3. ASSUME Ends("walker", "error"), UNCHANGED <<walk, pvars>> PROVE WInv'
      <3>1. req'["walker"] = Ended("error")
        BY <1>0, <2>3 DEF Ends, LifeType, Client
      <3>. QED BY <2>1, <2>3, <3>1, WalkerFails
    <2>4. ASSUME NEW l \in {"acquire", "count", "select"}, Goes("walker", l),
                 l = "select" => req["walker"].at = "again", UNCHANGED <<walk, pvars>>
          PROVE  WInv'
      BY <1>0, <2>1, <2>4, WalkerMoves DEF Goes
    <2>5. ASSUME NEW fails \in BOOLEAN, Auth("walker", fails) PROVE WInv'
      <3>1. UNCHANGED <<walk, pvars>> /\ (Ends("walker", "error") \/ Goes("walker", "acquire"))
        BY <2>2, <2>5 DEF Auth
      <3>. QED BY <2>3, <2>4, <3>1
    <2>6. CASE Acquire("walker")
      <3>1. /\ UNCHANGED <<walk, pvars>>
            /\ \/ Ends("walker", "error")
               \/ Goes("walker", "select") /\ req["walker"].at = "again"
               \/ Goes("walker", "count")
        BY <2>2, <2>6 DEF Acquire
      <3>. QED BY <2>3, <2>4, <3>1
    <2>7. CASE QueryFails("walker")
      BY <2>3, <2>7 DEF QueryFails
    <2>8. ~Exec("walker") /\ ~Return("walker")
      BY <2>2 DEF Exec, Return
    <2>. QED BY <1>0, <1>3, <2>1, <2>5, <2>6, <2>7, <2>8, WalkerCounts, WalkerReads, WalkerTakes
            DEF Handle
  <1>4. ASSUME Handle("changer") \/ Return("changer") \/ QueryFails("changer") PROVE WInv'
    <2>1. CASE Exec("changer")
      BY <1>0, <2>1, ChangerWrites
    <2>2. CASE ~Exec("changer")
      <3>1. UNCHANGED <<walk, pvars>>
        BY <1>4, <2>2 DEF Handle, Return, QueryFails, Auth, Acquire, Count, Select, Reply, walk
      <3>2. req'["walker"] = req["walker"]
        BY <1>0, <1>4, <2>2 DEF Handle, Return, QueryFails, Auth, Acquire, Count, Select, Reply,
           Goes, Ends, LifeType, Client
      <3>. QED BY <3>1, <3>2, WalkerStays
    <2>. QED BY <2>1, <2>2
  <1>. QED BY <1>1, <1>2, <1>3, <1>4 DEF Next, Client

ServerInv == StopInv /\ WInv

LEMMA ServerInit == Init => ServerInv
  <1> SUFFICES ASSUME Init PROVE ServerInv
      OBVIOUS
  <1>1. /\ req \in [Client -> Requests]
        /\ \A c \in Client : req[c].at = "idle" /\ req[c].total = 0
    BY BlankType DEF Init, Blank
  <1>2. StopInv
    BY <1>1 DEF Init, StopInv, LifeType, LifeInv, GracefulStop, Starting, Stopping
  <1>3. ListType
    <2>1. PICK n \in 0..MaxRows : clock = n /\ rows = 1..n
      BY DEF Init, PagesInit
    <2>2. clock \in 0..MaxRows /\ rows \subseteq 1..clock
      BY <2>1
    <2>3. list \in {"todos", "users"} /\ away = {} /\ seen = {} /\ base = {}
      BY DEF Init, PagesInit
    <2>4. away \subseteq 1..clock /\ seen \subseteq Nat /\ base \subseteq Nat
      BY <2>3, Zenon
    <2>5. page \in Nat \ {0}
      BY DEF Init
    <2>6. disturbed \in BOOLEAN
      BY Zenon DEF Init
    <2>. QED BY <2>2, <2>3, <2>4, <2>5, <2>6, Zenon DEF ListType
  <1>4. Size \in Nat
    BY QueryType, ServerAssumption DEF Size
  <1>5. (page - 1) * Size = 0
    BY <1>4 DEF Init
  <1>6. PageInv /\ WalkInv
    BY <1>1, <1>5, PagesAssumption DEF Init, PageInv, WalkInv, Walking, Begun, Client
  <1>. QED BY <1>2, <1>3, <1>6 DEF ServerInv, WInv

(* The inductive invariant of the server's life.                            *)
THEOREM StopInvariance == Spec => [](StopInv /\ ListType)
  <1>1. Init => StopInv /\ ListType
    BY ServerInit DEF ServerInv, WInv
  <1>2. StopInv /\ ListType /\ [Next]_svars => (StopInv /\ ListType)'
    BY StopStep, ListStep DEF StopInv
  <1>. QED BY <1>1, <1>2, PTL DEF Spec

(* A request the server took is answered as if there were no shutdown, if   *)
(* it needs no longer than the time Shutdown gives, whatever that time is.  *)
THEOREM StopsGracefully == Spec => []GracefulStop
  <1>1. StopInv => GracefulStop  BY DEF StopInv
  <1>. QED BY StopInvariance, <1>1, PTL

(* With it the invariant of the walk, for lists whose length fits the       *)
(* OFFSET parameter of the statement.                                       *)
THEOREM ServerInvariance == LargeEnough => (Spec => []ServerInv)
  <1> SUFFICES ASSUME LargeEnough PROVE Spec => []ServerInv
      OBVIOUS
  <1>1. ServerInv /\ [Next]_svars => ServerInv'
    BY StopStep, WalkStep DEF ServerInv, WInv
  <1>. QED BY ServerInit, <1>1, PTL DEF Spec

(* A walk that no deletion disturbs sees every row that was there when it   *)
(* began, whatever is inserted meanwhile, for every length and page size    *)
(* that fit the parameters of the statement.                                *)
THEOREM WalkSeesAll == LargeEnough => (Spec => []WalkComplete)
  <1>1. ServerInv => WalkComplete
    BY DEF ServerInv, WInv, WalkInv, WalkComplete, Begun
  <1>. QED BY ServerInvariance, <1>1, PTL
================================================================================
