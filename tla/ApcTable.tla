------------------------------- MODULE ApcTable -------------------------------
(***************************************************************************)
(* What the user cache promises (apc_cache.h): a table from keys to items  *)
(* on which the requests of the processes take effect one at a time.  An   *)
(* item is never changed or lost but by a request that says so, by its     *)
(* expiry, or by a wipe of the whole table.                                *)
(***************************************************************************)
EXTENDS Naturals

CONSTANTS Proc, Key, CacheTtl, Absent

VARIABLES
  table,  \* Key -> item [val, ttl, ctime, atime] or Absent
  now,
  req     \* what each process is about to do to the table

None == [do |-> "none"]

Init == table = [k \in Key |-> Absent] /\ now = 0 /\ req = [p \in Proc |-> None]

Hard(k, t) == table[k].ttl # 0 /\ table[k].ctime + table[k].ttl < t
Soft(k, t) == table[k].ttl = 0 /\ CacheTtl # 0 /\ table[k].atime + CacheTtl < t
Holds(k) == table[k] # Absent
Live(k, t) == Holds(k) /\ ~Hard(k, t)
Stale(t) == {k \in Key : Holds(k) /\ (Hard(k, t) \/ Soft(k, t))}

\* Process p is done with its request, and may have another one.
Answered(p) == \A q \in Proc \ {p} : req'[q] = req[q]

Loses(gone) == table' = [k \in Key |-> IF k \in gone THEN Absent ELSE table[k]]

\* Insertion drops expired items it meets; an exclusive one is refused if the
\* key has a live item.
Put(p) ==
  \E r \in {req[p]} :
    /\ r.do \in {"store", "add"}
    /\ r.do = "add" => ~Live(r.key, r.t)
    /\ \E gone \in SUBSET Stale(r.t) :
         table' = [k \in Key |->
           IF k = r.key
           THEN [val |-> 0, ttl |-> r.ttl, ctime |-> r.t, atime |-> r.t]
           ELSE IF k \in gone THEN Absent ELSE table[k]]
    /\ Answered(p) /\ UNCHANGED now

Refuse(p) ==
  /\ req[p].do = "add" /\ Live(req[p].key, req[p].t)
  /\ \E gone \in SUBSET Stale(req[p].t) : Loses(gone)
  /\ Answered(p) /\ UNCHANGED now

Delete(p) ==
  /\ req[p].do = "delete"
  /\ Loses({req[p].key})
  /\ Answered(p) /\ UNCHANGED now

Wipe(p) ==
  /\ req[p].do = "wipe"
  /\ Loses(Key)
  /\ Answered(p) /\ UNCHANGED now

Expire(p) ==
  /\ req[p].do = "expire"
  /\ Loses(Stale(req[p].t))
  /\ Answered(p) /\ UNCHANGED now

Touch(p) ==
  /\ req[p].do = "touch" /\ Live(req[p].key, req[p].t)
  /\ table' = [table EXCEPT ![req[p].key].atime = req[p].t]
  /\ Answered(p) /\ UNCHANGED now

Bump(p) ==
  /\ req[p].do = "bump" /\ Live(req[p].key, req[p].t)
  /\ table' = [table EXCEPT ![req[p].key].val = @ + 1]
  /\ Answered(p) /\ UNCHANGED now

\* A request is made, or given up: a miss, a failed allocation, a crash.
Turn(p) == Answered(p) /\ UNCHANGED <<table, now>>

Tick == now' = now + 1 /\ UNCHANGED <<table, req>>

Next ==
  \/ \E p \in Proc :
       \/ Put(p) \/ Refuse(p) \/ Delete(p) \/ Wipe(p)
       \/ Expire(p) \/ Touch(p) \/ Bump(p) \/ Turn(p)
  \/ Tick

Spec == Init /\ [][Next]_<<table, now, req>>
=============================================================================
