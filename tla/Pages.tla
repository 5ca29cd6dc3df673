--------------------------------- MODULE Pages ---------------------------------
(***************************************************************************)
(* pkg/pagination with the lists it serves: the todos of one user          *)
(* (internal/service/todo) or the users of one status (ListUsers of        *)
(* internal/service/admin). A page takes two statements, a COUNT and a     *)
(* SELECT ordered by created_at, newest first.                             *)
(*                                                                         *)
(* A row is its created_at; no two rows have the same.                     *)
(***************************************************************************)
EXTENDS Integers, FiniteSets

CONSTANTS
    MaxPageSize, DefaultPageSize, \* as in pagination.go
    IntMax, Int32Max, \* math.MaxInt, math.MaxInt32
    MaxRows         \* bound: rows ever inserted

ASSUME PagesAssumption ==
    /\ MaxPageSize \in Nat \ {0} /\ DefaultPageSize \in 1..MaxPageSize /\ MaxRows \in Nat
    /\ IntMax \in Nat /\ Int32Max \in 0..IntMax

VARIABLES
    list,           \* which of the lists is looked at: "todos" or "users"
    rows,           \* its rows
    away,           \* users whose status took them off the list
    clock           \* created_at of the newest row

pvars == <<list, rows, away, clock>>

(* Missing, malformed and non-positive parameters get the default; 0 stands *)
(* for all of them.                                                         *)
ParseQuery(page, size) ==
    [page |-> IF page > 0 THEN page ELSE 1,
     size |-> CASE size <= 0 -> DefaultPageSize
                [] size > MaxPageSize -> MaxPageSize
                [] OTHER -> size]

(* Go's int wraps around.                                                   *)
Wrap(n) == ((n + IntMax + 1) % (2 * (IntMax + 1))) - (IntMax + 1)

\* variant: pages counted from zero
OffsetFromZero(q) == Wrap(q.page * q.size)
Offset(q) == Wrap((q.page - 1) * q.size)

ClampToInt32(n) ==
    CASE n > Int32Max -> Int32Max
      [] n < 0 -> 0
      [] OTHER -> n

(***************************************************************************)
(* The statements.                                                         *)
(***************************************************************************)
CountTodosByUserID == Cardinality(rows)
CountUsers(status) == Cardinality(IF status = "active" THEN rows ELSE rows \cup away)

(* ORDER BY created_at DESC LIMIT limit OFFSET offset: a row's place is the *)
(* number of rows that are newer.                                           *)
Place(S, r) == Cardinality({s \in S : s > r})
Page(S, limit, offset) == {r \in S : Place(S, r) \in offset..(offset + limit - 1)}
ListTodosByUserIDPaginated(q) == Page(rows, ClampToInt32(q.size), ClampToInt32(Offset(q)))
ListUsers(status, q) ==
    Page(IF status = "active" THEN rows ELSE rows \cup away,
         ClampToInt32(q.size), ClampToInt32(Offset(q)))

CreateTodo ==
    /\ list = "todos" /\ clock < MaxRows
    /\ clock' = clock + 1 /\ rows' = rows \cup {clock + 1}
    /\ UNCHANGED <<list, away>>

(* Only a row there is; another user's counts as none.                      *)
DeleteTodo(r) ==
    /\ list = "todos"
    /\ rows' = rows \ {r}
    /\ UNCHANGED <<list, away, clock>>

(* Title and done change, not what the list is ordered by.                  *)
UpdateTodo == list = "todos" /\ UNCHANGED pvars
GetTodoByIDAndUserID == list = "todos" /\ UNCHANGED pvars

CreateUser ==
    /\ list = "users" /\ clock < MaxRows
    /\ clock' = clock + 1 /\ rows' = rows \cup {clock + 1}
    /\ UNCHANGED <<list, away>>

(* SetStatus takes a user off the list of active ones, or puts him back.    *)
UpdateUserStatus(r) ==
    /\ list = "users"
    /\ IF r \in rows THEN rows' = rows \ {r} /\ away' = away \cup {r}
                     ELSE rows' = rows \cup ({r} \cap away) /\ away' = away \ {r}
    /\ UNCHANGED <<list, clock>>

PagesInit ==
    /\ list \in {"todos", "users"}
    /\ \E n \in 0..MaxRows : clock = n /\ rows = 1..n
    /\ away = {}
==============================================================================
