--------------------------------- MODULE Fdb --------------------------------
(***************************************************************************)
(* The learned forwarding table of l2/eswitch_fdb.c and the hardware rules *)
(* eswitch_pipeline_fdb_add, _move and _remove program for it.             *)
(*                                                                         *)
(* A learned station owns one destination rule (where frames to it go) and *)
(* one source guard (which of its frames need no copy to Arm); a move      *)
(* installs the second guard before it removes the first.  An entry holds  *)
(* the handles of its rules, `rules` says what the hardware really has:    *)
(* a call that fails leaves that open.                                     *)
(*                                                                         *)
(* Time: `age` is now - last_seen_ns, `wait` is next_retry_ns - now, both  *)
(* in maintenance scans (one per second) and capped where every comparison *)
(* is decided.  `fresh` is packets # last_source_packets.                  *)
(***************************************************************************)
EXTENDS Naturals, FiniteSets

CONSTANTS
  Vs,          \* vSwitch ids
  Mac,         \* station addresses
  Port,        \* ports of the switch
  FdbCapacity, \* fdb->capacity
  Aging,       \* SWITCH_FDB_AGING_SECONDS in scans
  Grace,       \* SWITCH_FDB_QUERY_FAILURE_GRACE_SECONDS in scans
  RetryMax,    \* SWITCH_FDB_RETRY_MAX_SECONDS in scans
  MaxRetries,  \* where the modelled retry counters stop
  FdbFaults,   \* the DOCA calls that may fail
  Free, NoRule \* an absent entry, a NULL handle

ASSUME FdbAssumption ==
  /\ FdbCapacity \in Nat \ {0} /\ Aging \in Nat \ {0} /\ Grace \in Nat
  /\ RetryMax \in Nat \ {0} /\ MaxRetries \in Nat \ {0}
  /\ FdbFaults \subseteq {"learn", "remove", "query"}
  /\ NoRule \notin Port

Key   == Vs \X Mac
State == {"ACTIVE", "QUERY_RETRY", "DELETE_PENDING"}
Entry == [port : Port, st : State, age : 0..(Aging + Grace), wait : 0..RetryMax,
          qr : 0..MaxRetries, dr : 0..MaxRetries, fresh : BOOLEAN,
          dst : Port \union {NoRule}, src : [{0, 1} -> Port \union {NoRule}],
          act : {0, 1}]

ASSUME FreeAssumption == Free \notin Entry

Rule(table, p) == <<table, p>>

VARIABLES
  fdb,     \* the list of entries, by (vSwitch, MAC)
  rules,   \* the rules the hardware holds for that key
  due,     \* a second has passed since the last scan
  up,      \* the main loop runs
  silent   \* scans since the station's last frame (not a variable of the code)

fdbVars == <<fdb, rules, due, up, silent>>

Lower(a, b) == IF a <= b THEN a ELSE b

-----------------------------------------------------------------------------
(***************************************************************************)
(* The ways a sequence of hardware calls can end: a set of results         *)
(* [ok, e, hw].  Then continues the successful ones.                       *)
(***************************************************************************)
Done(e, hw) == [ok |-> TRUE, e |-> e, hw |-> hw]

Then(S, Step(_)) ==
  {x \in S : ~ x.ok} \union UNION {Step(x) : x \in {y \in S : y.ok}}

\* Roll back the failed results; the first error is what is reported.
OrElse(S, Undo(_)) ==
  {x \in S : x.ok} \union
  UNION { {[z EXCEPT !.ok = FALSE] : z \in Undo([x EXCEPT !.ok = TRUE])} :
          x \in {y \in S : ~ y.ok} }

\* An entry that was submitted but whose completion failed may be installed.
Install(x, r, e) ==
  {Done(e, x.hw \union {r})} \union
  (IF "learn" \in FdbFaults
   THEN {[ok |-> FALSE, e |-> x.e, hw |-> x.hw],
         [ok |-> FALSE, e |-> e,   hw |-> x.hw],
         [ok |-> FALSE, e |-> e,   hw |-> x.hw \union {r}]}
   ELSE {})

\* remove_rule: the handle is cleared only when the completion succeeded.
\* `during` tells the removals of a learning step from those of remove_at.
RemoveRule(during, x, handle, r, e) ==
  IF handle = NoRule THEN {x}
  ELSE {Done(e, x.hw \ {r})} \union
       (IF during \in FdbFaults
        THEN {[ok |-> FALSE, e |-> x.e, hw |-> h] : h \in {x.hw, x.hw \ {r}}}
        ELSE {})

RemoveDst(during, x) ==
  RemoveRule(during, x, x.e.dst, Rule("dst", x.e.dst), [x.e EXCEPT !.dst = NoRule])

RemoveSrc(during, x, i) ==
  RemoveRule(during, x, x.e.src[i], Rule("src", x.e.src[i]),
             [x.e EXCEPT !.src[i] = NoRule])

fdb_remove(during, x) ==
  LET guard0(y) == RemoveSrc(during, y, 0)
      guard1(y) == RemoveSrc(during, y, 1)
  IN Then(Then(RemoveDst(during, x), guard0), guard1)

fdb_add(e, p) ==
  LET guard(y) == Install(y, Rule("src", p), [y.e EXCEPT !.src[0] = p, !.act = 0])
      undo(y)  == fdb_remove("learn", y)
  IN OrElse(Then(Install(Done(e, {}), Rule("dst", p), [e EXCEPT !.dst = p]), guard), undo)

(***************************************************************************)
(* fdb_move.  An update that fails leaves the destination on either port;  *)
(* the rollback first points it back and removes the new guard only then.  *)
(***************************************************************************)
Redirect(x, from, to) ==
  LET old == Rule("dst", from)
      new == Rule("dst", to)
  IN {Done([x.e EXCEPT !.dst = to], (x.hw \ {old}) \union {new})} \union
     (IF "learn" \in FdbFaults
      THEN {[ok |-> FALSE, e |-> [x.e EXCEPT !.dst = d],
             hw |-> (x.hw \ {old, new}) \union {Rule("dst", d)}] : d \in {from, to}}
      ELSE {})

fdb_move(e, hw, p) ==
  LET old  == e.act
      new  == 1 - e.act
      dropNew(x) == RemoveSrc("learn", x, new)
      guarded  == OrElse(Install(Done(e, hw), Rule("src", p), [e EXCEPT !.src[new] = p]),
                         dropNew)
      redirect(x) == Redirect(x, e.port, p)
      dropOld(x)  == RemoveSrc("learn", x, old)
      restore(x)  == Then(Redirect(x, p, e.port), dropNew)
      switch(x)   == {[y EXCEPT !.e.act = IF y.ok THEN new ELSE old] :
                        y \in OrElse(Then(redirect(x), dropOld), restore)}
  IN IF e.dst = NoRule \/ e.src[old] = NoRule \/ e.src[new] # NoRule
     THEN {[ok |-> FALSE, e |-> e, hw |-> hw]}
     ELSE Then(guarded, switch)

-----------------------------------------------------------------------------
(***************************************************************************)
(* eswitch_fdb_learn.  A failed add keeps the entry listed when a handle   *)
(* survived its rollback.                                                  *)
(***************************************************************************)
NewEntry(p) ==
  [port |-> p, st |-> "ACTIVE", age |-> 0, wait |-> 0, qr |-> 0, dr |-> 0,
   fresh |-> FALSE, dst |-> NoRule, src |-> [i \in {0, 1} |-> NoRule], act |-> 0]

Holds(e) == e.dst # NoRule \/ \E i \in {0, 1} : e.src[i] # NoRule

ListedIfHeld(x) == IF x.ok \/ Holds(x.e) THEN x ELSE [x EXCEPT !.e = Free]

\* Mutant: a failed move is taken for a move.
MovedAnyway(x, p) == [x EXCEPT !.ok = TRUE, !.e.port = p, !.e.age = 0, !.e.fresh = FALSE]

Moved(x, p) == IF x.ok THEN [x EXCEPT !.e.port = p, !.e.age = 0, !.e.fresh = FALSE] ELSE x

Listed(t) == {k \in Key : t[k] # Free}

eswitch_fdb_learn(t, hw, k, p) ==
  CASE t[k] = Free /\ Cardinality(Listed(t)) >= FdbCapacity ->
         {[ok |-> FALSE, e |-> Free, hw |-> hw[k]]}
    [] t[k] = Free /\ Cardinality(Listed(t)) < FdbCapacity ->
         {ListedIfHeld(x) : x \in fdb_add(NewEntry(p), p)}
    [] t[k] # Free /\ t[k].port = p -> {Done([t[k] EXCEPT !.age = 0], hw[k])}
    [] OTHER -> {Moved(x, p) : x \in fdb_move(t[k], hw[k], p)}

(***************************************************************************)
(* A frame of station k enters on port p.  A source guard of that port     *)
(* swallows the copy to Arm, and its counter grows if it is the active     *)
(* one; otherwise process_packet learns it, and an error there ends the    *)
(* main loop.                                                              *)
(***************************************************************************)
Guarded(k, p) == Rule("src", p) \in rules[k]

Counted(e, p) == IF e.src[e.act] = p THEN [e EXCEPT !.fresh = TRUE] ELSE e

Frame(k, p) ==
  /\ up
  /\ silent' = [silent EXCEPT ![k] = 0]
  /\ \/ /\ Guarded(k, p)
        /\ fdb' = [fdb EXCEPT ![k] = IF @ = Free THEN @ ELSE Counted(@, p)]
        /\ UNCHANGED <<rules, up>>
     \/ /\ ~ Guarded(k, p)
        /\ \E x \in eswitch_fdb_learn(fdb, rules, k, p) :
             /\ fdb' = [fdb EXCEPT ![k] = x.e]
             /\ rules' = [rules EXCEPT ![k] = x.hw]
             /\ up' = x.ok
  /\ UNCHANGED due

-----------------------------------------------------------------------------
(***************************************************************************)
(* remove_at: unlisted only when every rule is gone.                       *)
(***************************************************************************)
\* Mutant: the entry is unlisted although a rule could not be removed.
RemoveAtForgetting(e, hw) == {[x EXCEPT !.e = Free] : x \in fdb_remove("remove", Done(e, hw))}

remove_at(e, hw) ==
  {IF x.ok THEN [x EXCEPT !.e = Free] ELSE x : x \in fdb_remove("remove", Done(e, hw))}

\* Flushing a set of entries: every one is tried, the first error is returned.
FlushResults(t, hw, K) ==
  { f \in [K -> UNION {remove_at(t[k], hw[k]) : k \in K}] :
      \A k \in K : f[k] \in remove_at(t[k], hw[k]) }

LearnedOn(t, vs, p) == {k \in Listed(t) : k[1] = vs /\ t[k].port = p}

LearnedIn(t, vs) == {k \in Listed(t) : k[1] = vs}

AfterFlush(t, f) == [k \in Key |-> IF k \in DOMAIN f THEN f[k].e ELSE t[k]]
RulesAfter(hw, f) == [k \in Key |-> IF k \in DOMAIN f THEN f[k].hw ELSE hw[k]]

Flush(K) ==
  /\ up
  /\ \E f \in FlushResults(fdb, rules, K) :
       fdb' = AfterFlush(fdb, f) /\ rules' = RulesAfter(rules, f)
  /\ UNCHANGED <<due, up, silent>>

eswitch_fdb_flush_port == \E vs \in Vs, p \in Port : Flush(LearnedOn(fdb, vs, p))
eswitch_fdb_flush_vswitch == \E vs \in Vs : Flush(LearnedIn(fdb, vs))

-----------------------------------------------------------------------------
(***************************************************************************)
(* eswitch_fdb_age, one entry.  retry_delay_ns doubles up to its maximum.  *)
(***************************************************************************)
Shifted == <<1, 2, 4, 8, 16>>

Delay(n) ==
  IF n = 0 THEN 0
  ELSE IF n >= 6 THEN RetryMax
  ELSE Lower(Shifted[n], RetryMax)

Count(n) == Lower(n + 1, MaxRetries)

RemoveFailed(x) ==
  IF x.ok THEN x
  ELSE [x EXCEPT !.e.st = "DELETE_PENDING", !.e.dr = Count(@),
                 !.e.wait = Delay(Count(x.e.dr))]

AgeOut(e, hw) == {RemoveFailed(x) : x \in remove_at(e, hw)}

\* Mutant: an entry whose counter stays busy is queried for ever.
PinnedByQuery(e) ==
  [e EXCEPT !.st = "QUERY_RETRY", !.qr = Count(@), !.wait = Delay(Count(e.qr))]

QueryFailed(e) ==
  IF e.age >= Aging + Grace
  THEN [e EXCEPT !.st = "DELETE_PENDING", !.qr = Count(@), !.wait = 0]
  ELSE [e EXCEPT !.st = "QUERY_RETRY", !.qr = Count(@), !.wait = Delay(Count(e.qr))]

\* Mutant: the snapshot of the counter does not refresh last_seen_ns.
QueriedStale(e) == [e EXCEPT !.st = "ACTIVE", !.qr = 0, !.wait = 0, !.fresh = FALSE]

Queried(e) ==
  [e EXCEPT !.st = "ACTIVE", !.qr = 0, !.wait = 0, !.fresh = FALSE,
            !.age = IF e.fresh THEN 0 ELSE @]

\* fdb_query needs the handle; a rule that is gone may answer or not.
QueryMayFail(e, hw) == "query" \in FdbFaults \/ Rule("src", e.src[e.act]) \notin hw
QueryMaySucceed(e)  == e.src[e.act] # NoRule

AgeResults(e, hw) ==
  IF e.wait > 0 THEN {Done(e, hw)}
  ELSE IF e.st = "DELETE_PENDING" THEN AgeOut(e, hw)
  ELSE (IF QueryMayFail(e, hw) THEN {Done(QueryFailed(e), hw)} ELSE {}) \union
       (IF QueryMaySucceed(e)
        THEN IF Queried(e).age < Aging THEN {Done(Queried(e), hw)}
             ELSE AgeOut(Queried(e), hw)
        ELSE {})

eswitch_fdb_age ==
  /\ up /\ due
  /\ due' = FALSE
  /\ \E f \in [Listed(fdb) -> UNION {AgeResults(fdb[k], rules[k]) : k \in Listed(fdb)}] :
       /\ \A k \in Listed(fdb) : f[k] \in AgeResults(fdb[k], rules[k])
       /\ fdb' = AfterFlush(fdb, f)
       /\ rules' = RulesAfter(rules, f)
  /\ UNCHANGED <<up, silent>>

Tick ==
  /\ up /\ ~ due
  /\ due' = TRUE
  /\ fdb' = [k \in Key |-> IF fdb[k] = Free THEN Free
                           ELSE [fdb[k] EXCEPT !.age = Lower(@ + 1, Aging + Grace),
                                               !.wait = IF @ = 0 THEN 0 ELSE @ - 1]]
  /\ silent' = [k \in Key |-> Lower(silent[k] + 1, Aging)]
  /\ UNCHANGED <<rules, up>>

(***************************************************************************)
(* The end of the main loop: eswitch_fdb_destroy tries every entry and     *)
(* pipeline destruction releases what is left, then the daemon is started  *)
(* again with an empty table.                                              *)
(***************************************************************************)
Restart ==
  /\ ~ up
  /\ up' = TRUE /\ due' = FALSE
  /\ fdb' = [k \in Key |-> Free]
  /\ rules' = [k \in Key |-> {}]
  /\ UNCHANGED silent

FdbInit ==
  /\ fdb = [k \in Key |-> Free]
  /\ rules = [k \in Key |-> {}]
  /\ due = FALSE /\ up = TRUE
  /\ silent = [k \in Key |-> Aging]

FdbNext ==
  \/ \E k \in Key, p \in Port : Frame(k, p)
  \/ eswitch_fdb_flush_port
  \/ eswitch_fdb_flush_vswitch
  \/ eswitch_fdb_age
  \/ Tick
  \/ Restart

FdbSpec == FdbInit /\ [][FdbNext]_fdbVars

(***************************************************************************)
(* The loop runs maintenance for ever, and a removal that is retried for   *)
(* ever succeeds some time.  An entry whose removal is pending is queried  *)
(* no more, so nothing is assumed of the counter queries.                  *)
(***************************************************************************)
RemovesPending(k) ==
  /\ eswitch_fdb_age
  /\ fdb[k] # Free /\ fdb[k].st = "DELETE_PENDING" /\ fdb'[k] = Free

FdbFairness ==
  /\ WF_fdbVars(Tick) /\ WF_fdbVars(eswitch_fdb_age)
  /\ \A k \in Key : SF_fdbVars(RemovesPending(k))

FairFdbSpec == FdbSpec /\ FdbFairness

-----------------------------------------------------------------------------
(***************************************************************************)
(* eswitch_fdb.c: the values of the table and of the hardware.             *)
(***************************************************************************)
FdbTypeOK ==
  /\ fdb \in [Key -> Entry \union {Free}]
  /\ rules \in [Key -> SUBSET ({"dst", "src"} \X Port)]
  /\ due \in BOOLEAN /\ up \in BOOLEAN
  /\ silent \in [Key -> 0..Aging]
  /\ Cardinality(Listed(fdb)) <= FdbCapacity

(***************************************************************************)
(* remove_at and eswitch_fdb_learn never drop a handle: whatever calls     *)
(* failed, every rule in the hardware belongs to a listed entry that still *)
(* holds the handle to remove it.                                          *)
(***************************************************************************)
EveryRuleListed ==
  \A k \in Key : \A r \in rules[k] :
    /\ fdb[k] # Free
    /\ r \in {Rule("dst", fdb[k].dst)} \union {Rule("src", fdb[k].src[i]) : i \in {0, 1}}

(***************************************************************************)
(* fdb_move with its rollbacks: as long as the daemon runs, frames to a    *)
(* station go to the port it was learned on and only frames from that port *)
(* pass without being learned.                                             *)
(***************************************************************************)
ForwardsToLearned ==
  up => \A k \in Listed(fdb) : \A r \in rules[k] : r[2] = fdb[k].port

(***************************************************************************)
(* eswitch_fdb_age: a scan unlists an entry only after a full ageing       *)
(* interval without a frame of the station, or to finish a removal that    *)
(* was begun.  The scan sees counters, not frames.                         *)
(***************************************************************************)
LiveStationKept ==
  [][\A k \in Key :
       eswitch_fdb_age /\ fdb[k] # Free /\ fdb'[k] = Free
         => silent[k] >= Aging \/ fdb[k].st = "DELETE_PENDING"]_fdbVars

(***************************************************************************)
(* eswitch_fdb_age: "A permanently busy counter must not pin an entry      *)
(* forever": the entry of a station that stays silent goes away, even if   *)
(* every query of its counter fails.                                       *)
(***************************************************************************)
SilentForgotten ==
  \A k \in Key : []<>(fdb[k] = Free \/ silent[k] < Aging \/ ~ up)
=============================================================================
