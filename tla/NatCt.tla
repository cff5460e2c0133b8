------------------------------- MODULE NatCt --------------------------------
(***************************************************************************)
(* Connection-tracking offload of NAT sessions: the CT part of             *)
(* pipeline/eswitch_pipeline.c (promote, flush, expire, adjacencies), the  *)
(* backoff of offload_retry.h, and the handlers of eswitch_manager.c and   *)
(* router_control.c that drive it together with the session table.         *)
(*                                                                         *)
(* One step is one whole handler.  Every DOCA Flow call may fail, and the  *)
(* ways a handler can then end are the members of the sets FlushResults,   *)
(* BindResults and PromoteResults.  With Faults = FALSE only exhausted     *)
(* tables make them fail.                                                  *)
(*                                                                         *)
(* A connection is present exactly when its CT entry handle is not NULL;   *)
(* between handlers that is also when it is active.  Leases and retry      *)
(* delays count down in ticks.                                             *)
(***************************************************************************)
EXTENDS NatTable, FiniteSets

CONSTANTS
  Hop,            \* next hops on the public side: egress port and peer MAC
  CtCapacity,     \* pipeline->ct_capacity
  MaxAdjacencies, \* ESWITCH_MAX_CT_ADJACENCIES
  Lease,          \* the 30 s lease, in ticks
  RetryFirst, RetryCap,  \* 250 ms and 8000 ms, in ticks
  Faults,         \* whether DOCA Flow calls may fail
  AllVrs,         \* the VR argument 0 of eswitch_pipeline_ct_flush
  NoConn, NoAdj   \* an empty connection slot, an empty adjacency slot

ASSUME CtAssumption ==
  /\ CtCapacity \in Nat /\ MaxAdjacencies \in Nat
  /\ Lease \in Nat \ {0}
  /\ RetryFirst \in Nat \ {0} /\ RetryCap \in Nat /\ RetryFirst <= RetryCap
  /\ Faults \in BOOLEAN
  /\ AllVrs \notin Vr
  /\ Hop \cap Loc = {}

AdjId     == 1..MaxAdjacencies
AdjKey    == Hop \union Loc
Adjacency == [key : AdjKey, active : BOOLEAN]
Direction == {"origin", "reply"}

(***************************************************************************)
(* A connection: its software owner, the tuple programmed into hardware,   *)
(* the admission rules that are open, the remaining lease, and the two     *)
(* adjacencies its actions select.                                         *)
(***************************************************************************)
HwTuple == Vr \X Proto \X Rif \X Ip \X Port \X Ip \X Port \X Ip \X Port \X BOOLEAN

Conn ==
  [sw : Slot, tup : HwTuple, admitted : SUBSET Direction, left : 0..Lease,
   origin : AdjId, reply : AdjId, hop : Hop, loc : Loc]

ASSUME MarkersAssumption == NoConn \notin Conn /\ NoAdj \notin Adjacency

VARIABLES
  conn,    \* pipeline->ct_sessions
  adj,     \* pipeline->ct_adjacencies
  active,  \* pipeline->ct_active
  retry,   \* pipeline->ct_retry
  due,     \* time has passed since the last maintenance scan
  up       \* the main loop runs

ctVars == <<conn, adj, active, retry, due, up>>

Present(cs, c)  == cs[c] # NoConn
FirstFreeIn(t, S, none, x) == t[x] = none /\ \A y \in S : y < x => t[y] # none

-----------------------------------------------------------------------------
(***************************************************************************)
(* eswitch_pipeline_ct_flush.  For every connection in scope: close the    *)
(* origin admission, then the reply admission, then remove the CT entry    *)
(* and only then release the software owner; a failing call skips to the   *)
(* next connection.  `fate` says how far each connection got.              *)
(***************************************************************************)
Fate == IF Faults THEN {"gone", "origin_kept", "reply_kept", "entry_kept"} ELSE {"gone"}

InScope(cs, tbl, vr, c) ==
  Present(cs, c) /\ (vr = AllVrs \/ tbl[cs[c].sw].vr = vr)

\* Mutant: the handle is forgotten although the entry could not be removed.
RetiredForgotten(h, fate) ==
  CASE fate \in {"gone", "entry_kept"} -> NoConn
    [] fate = "origin_kept" -> h
    [] fate = "reply_kept"  -> [h EXCEPT !.admitted = @ \ {"origin"}]

Retired(h, fate) ==
  CASE fate = "gone"        -> NoConn
    [] fate = "origin_kept" -> h
    [] fate = "reply_kept"  -> [h EXCEPT !.admitted = @ \ {"origin"}]
    [] fate = "entry_kept"  -> [h EXCEPT !.admitted = {}]

(***************************************************************************)
(* A global flush without an error then reclaims the adjacencies in table  *)
(* order, up to the first that cannot be removed.                          *)
(***************************************************************************)
Reclaims(at) ==
  {[adj |-> [a \in AdjId |-> NoAdj], ok |-> TRUE]} \union
  {[adj |-> [a \in AdjId |-> IF a < k THEN NoAdj ELSE at[a]], ok |-> FALSE] :
     k \in {a \in AdjId : Faults /\ at[a] # NoAdj}}

\* Mutant: connections that could not be removed do not matter.
MayReclaimFailed(ok, vr) == vr = AllVrs

MayReclaim(ok, vr) == ok /\ vr = AllVrs

Released(s) == InHardware(s, FALSE)

FlushResults(tbl, cs, at, n, vr) ==
  LET scope == {c \in Slot : InScope(cs, tbl, vr, c)}
      After(fate) ==
        LET gone  == {c \in scope : fate[c] = "gone"}
            freed == {cs[c].sw : c \in gone}
            ok    == gone = scope
            reclaims == IF MayReclaim(ok, vr)
                        THEN Reclaims(at) ELSE {[adj |-> at, ok |-> ok]}
        IN { [tbl    |-> [i \in Slot |-> IF i \in freed
                                         THEN Released(tbl[i]) ELSE tbl[i]],
              conn   |-> [c \in Slot |-> IF c \in scope
                                         THEN Retired(cs[c], fate[c]) ELSE cs[c]],
              adj    |-> r.adj,
              active |-> IF n >= Cardinality(gone) THEN n - Cardinality(gone) ELSE 0,
              ok     |-> r.ok] : r \in reclaims }
  IN UNION {After(fate) : fate \in [scope -> Fate]}

-----------------------------------------------------------------------------
(***************************************************************************)
(* ct_bind_adjacency.  An active adjacency with the same key is shared; a  *)
(* failed insertion whose cleanup fails too leaves an inactive entry that  *)
(* is never matched and never reused.                                      *)
(***************************************************************************)
BindResults(at, key) ==
  LET shared == {a \in AdjId : at[a] # NoAdj /\ at[a].active /\ at[a].key = key}
      free   == {a \in AdjId : FirstFreeIn(at, AdjId, NoAdj, a)}
      fail   == [adj |-> at, id |-> 0]
      put(a, on) == [at EXCEPT ![a] = [key |-> key, active |-> on]]
  IN IF shared # {} THEN {[adj |-> at, id |-> a] : a \in shared}
     ELSE IF free = {} THEN {fail}
     ELSE {[adj |-> put(a, TRUE), id |-> a] : a \in free} \union
          (IF Faults
           THEN {fail} \union {[adj |-> put(a, FALSE), id |-> 0] : a \in free}
           ELSE {})

(***************************************************************************)
(* offload_retry_failed and offload_retry_reset.                           *)
(***************************************************************************)
Backoff(r) ==
  LET delay == IF r.delay = 0 THEN RetryFirst
               ELSE IF 2 * r.delay >= RetryCap THEN RetryCap ELSE 2 * r.delay
  IN [delay |-> delay, wait |-> delay]

NoRetry == [delay |-> 0, wait |-> 0]

(***************************************************************************)
(* eswitch_pipeline_ct_promote of the session in slot i of tbl, which has  *)
(* just been refreshed.  A session that has a connection already, or one   *)
(* that meets a running backoff, is left alone.  When hardware state may   *)
(* exist after a failure it keeps its software owner, and the VR's         *)
(* connections are flushed.                                                *)
(***************************************************************************)
Connection(tbl, i, admitted, left, origin, reply, hop, loc) ==
  [sw |-> i, tup |-> Tuple(tbl[i]), admitted |-> admitted, left |-> left,
   origin |-> origin, reply |-> reply, hop |-> hop, loc |-> loc]

FailedPromotion(tbl, cs, at, n) ==
  [tbl |-> tbl, conn |-> cs, adj |-> at, active |-> n, retry |-> Backoff(retry)]

Installed(tbl, i) == [tbl EXCEPT ![i] = InHardware(tbl[i], TRUE)]

\* What is open, and the lease, when the entry or an admission rule failed.
HalfInstalled ==
  {[admitted |-> {}, left |-> 0]} \union
  {[admitted |-> d, left |-> Lease] : d \in {{}, {"origin"}, {"origin", "reply"}}}

Programmed(tbl, i, c, at, origin, reply, hop, loc) ==
  LET put(admitted, left) ==
        [conn EXCEPT ![c] = Connection(tbl, i, admitted, left, origin, reply, hop, loc)]
  IN {[tbl |-> Installed(tbl, i), conn |-> put(Direction, Lease), adj |-> at,
       active |-> active + 1, retry |-> NoRetry]} \union
     (IF Faults
      THEN {FailedPromotion(tbl, conn, at, active)} \union
           UNION { {FailedPromotion(f.tbl, f.conn, f.adj, f.active) :
                      f \in FlushResults(Installed(tbl, i), put(h.admitted, h.left),
                                         at, active + 1, tbl[i].vr)}
                   : h \in HalfInstalled }
      ELSE {})

\* Mutant: one connection more than the capacity.
CtFullLate == active > CtCapacity

CtFull == active >= CtCapacity

PromoteResults(tbl, i, hop, loc) ==
  LET busy == \E c \in Slot : Present(conn, c) /\ conn[c].sw = i
      free == {c \in Slot : FirstFreeIn(conn, Slot, NoConn, c)}
      same == [tbl |-> tbl, conn |-> conn, adj |-> adj, active |-> active, retry |-> retry]
  IN IF busy \/ retry.wait > 0 THEN {same}
     ELSE IF free = {} \/ CtFull
          THEN {FailedPromotion(tbl, conn, adj, active)}
     ELSE UNION { IF o.id = 0 THEN {FailedPromotion(tbl, conn, o.adj, active)}
                  ELSE UNION { IF r.id = 0
                               THEN {FailedPromotion(tbl, conn, r.adj, active)}
                               ELSE UNION { Programmed(tbl, i, c, r.adj, o.id, r.id, hop, loc)
                                            : c \in free }
                               : r \in BindResults(o.adj, loc) }
                  : o \in BindResults(adj, hop) }

-----------------------------------------------------------------------------
(***************************************************************************)
(* route_arm_frame for a frame that leaves by a public RIF: translation,   *)
(* then, once the frame is sent and the session is eligible, promotion.    *)
(* A frame that is not sent is translated and not promoted.                *)
(***************************************************************************)
Eligible(s, rif) == s.proto \in {"tcp", "udp"} /\ s.rif = rif

Promote(tbl, i, hop, loc) ==
  \E r \in PromoteResults(tbl, i, hop, loc) :
    /\ entries' = r.tbl
    /\ conn' = r.conn
    /\ adj' = r.adj
    /\ active' = r.active
    /\ retry' = r.retry

Keep == UNCHANGED <<conn, adj, active, retry>>

Sent(tbl, i, rif, hop, loc) ==
  \/ entries' = tbl /\ Keep
  \/ Eligible(tbl[i], rif) /\ Promote(tbl, i, hop, loc)

OutboundFlow(vr, rif, p, loc, hop) ==
  /\ up
  /\ \E i \in Slot :
       \/ /\ HitsOutbound(vr, rif, p, i)
          /\ Sent([entries EXCEPT ![i] = Refreshed(entries[i], loc)], i, rif, hop, loc)
          /\ UNCHANGED nextPort
       \/ \E port \in Port :
            /\ InsertsOutbound(vr, rif, p, i, port)
            /\ Sent([entries EXCEPT ![i] = SnatSession(vr, cfg.policy[vr], p, port, loc)],
                    i, rif, hop, loc)
            /\ nextPort' = PortAfter(cfg.policy[vr], port)
  /\ UNCHANGED <<cfg, due, up>>

(***************************************************************************)
(* route_nat_ingress_frame never promotes: the frame leaves by an inside   *)
(* RIF.                                                                    *)
(***************************************************************************)
InboundFlow ==
  /\ up
  /\ NatInbound
  /\ UNCHANGED ctVars

(***************************************************************************)
(* process_packet on an ARP that changes a neighbor: every connection is   *)
(* revoked.  An error ends the polling loop of main.c.                     *)
(***************************************************************************)
Revoke(f) == conn' = f.conn /\ adj' = f.adj /\ active' = f.active

NeighborChange ==
  /\ up
  /\ \E f \in FlushResults(entries, conn, adj, active, AllVrs) :
       /\ Revoke(f)
       /\ entries' = f.tbl
       /\ up' = f.ok
  /\ UNCHANGED <<nextPort, cfg, retry, due>>

(***************************************************************************)
(* eswitch_manager_maintenance: eswitch_pipeline_ct_expire revokes every   *)
(* connection once one lease is over, then router_nat_age runs.            *)
(***************************************************************************)
\* Mutant: a connection whose admission rules are gone is not retried.
LeaseOverAdmitted ==
  \E c \in Slot : Present(conn, c) /\ conn[c].left = 0 /\ conn[c].admitted # {}

LeaseOver == \E c \in Slot : Present(conn, c) /\ conn[c].left = 0

Expiry ==
  IF LeaseOver
  THEN FlushResults(entries, conn, adj, active, AllVrs)
  ELSE {[tbl |-> entries, conn |-> conn, adj |-> adj, active |-> active, ok |-> TRUE]}

Maintenance ==
  /\ up
  /\ due
  /\ \E f \in Expiry : Revoke(f) /\ entries' = Aged(f.tbl)
  /\ due' = FALSE
  /\ UNCHANGED <<nextPort, cfg, retry, up>>

(***************************************************************************)
(* The CT and NAT part of router_control_command, and of                   *)
(* detach_port_persisted, which keeps the configuration: connections       *)
(* first, then their software owners, then the candidate if every later    *)
(* step succeeds.                                                          *)
(***************************************************************************)
RouterControl(candidate) ==
  /\ up
  /\ \E f \in FlushResults(entries, conn, adj, active, AllVrs) :
       /\ Revoke(f)
       /\ entries' = IF f.ok THEN Flushed(f.tbl) ELSE f.tbl
       /\ cfg' \in IF f.ok THEN {candidate, cfg} ELSE {cfg}
  /\ UNCHANGED <<nextPort, retry, due, up>>

(***************************************************************************)
(* Time.  The maintenance scan runs once a second, more often than any     *)
(* lease or idle timeout counts, so a tick waits for the scan.             *)
(***************************************************************************)
Less(n) == IF n = 0 THEN 0 ELSE n - 1

Clock ==
  /\ up
  /\ ~due
  /\ due' = TRUE
  /\ Tick
  /\ conn' = [c \in Slot |-> IF Present(conn, c)
                             THEN [conn[c] EXCEPT !.left = Less(@)] ELSE NoConn]
  /\ retry' = [retry EXCEPT !.wait = Less(@)]
  /\ UNCHANGED <<adj, active, up>>

-----------------------------------------------------------------------------
CtInit ==
  /\ NatInit
  /\ conn = [c \in Slot |-> NoConn]
  /\ adj = [a \in AdjId |-> NoAdj]
  /\ active = 0
  /\ retry = NoRetry
  /\ due = FALSE
  /\ up = TRUE

CtNext ==
  \/ \E vr \in Vr, rif \in Rif, p \in OutPkts, loc \in Loc, hop \in Hop :
       OutboundFlow(vr, rif, p, loc, hop)
  \/ InboundFlow
  \/ NeighborChange
  \/ Maintenance
  \/ \E c \in Configs : RouterControl(c)
  \/ Clock

CtSpec == CtInit /\ [][CtNext]_<<natVars, ctVars>>

(***************************************************************************)
(* The polling loop never blocks, so time passes and the scan runs; and a  *)
(* scan that finds an expired lease does not fail for ever.                *)
(***************************************************************************)
CleanMaintenance ==
  Maintenance /\ (LeaseOver => \A c \in Slot : ~Present(conn', c))

FairCtSpec ==
  /\ CtSpec
  /\ WF_<<natVars, ctVars>>(Clock)
  /\ SF_<<natVars, ctVars>>(CleanMaintenance)

-----------------------------------------------------------------------------
\* Connections, adjacencies, counters and the backoff have their types.
CtTypeOK ==
  /\ NatTypeOK
  /\ conn \in [Slot -> Conn \union {NoConn}]
  /\ adj \in [AdjId -> Adjacency \union {NoAdj}]
  /\ active \in 0..MaxSessions
  /\ retry.delay \in 0..RetryCap /\ retry.wait \in 0..retry.delay
  /\ due \in BOOLEAN /\ up \in BOOLEAN

\* Hardware and software agree on ownership, whatever call fails on the way:
\* every CT entry has its owner in the session table, with the tuple that was
\* programmed and hardware_active set, no two entries share an owner, and a
\* session marked hardware_active has an entry (else its port stays pinned).
ConnectionOwned ==
  /\ \A c \in Slot :
       Present(conn, c) =>
         /\ Used(conn[c].sw)
         /\ entries[conn[c].sw].hw
         /\ Tuple(entries[conn[c].sw]) = conn[c].tup
  /\ \A i \in Slot :
       (Used(i) /\ entries[i].hw) =>
         \E c \in Slot : Present(conn, c) /\ conn[c].sw = i
                        /\ \A d \in Slot : Present(conn, d) /\ conn[d].sw = i => d = c

\* Hardware never translates for one guest what software gave to another: no
\* session other than the owner has the public and remote endpoint of an
\* installed connection.
NoStaleTranslation ==
  \A c, i \in Slot :
    (Present(conn, c) /\ Used(i) /\ i # conn[c].sw) =>
      LET t == conn[c].tup
          s == entries[i]
      IN <<s.vr, s.proto, s.rip, s.rport, s.pip, s.pport>>
           # <<t[1], t[2], t[6], t[7], t[8], t[9]>>

\* ct_active counts the entries that exist, through partial failures too, and
\* never exceeds the admitted capacity.
ActiveCount ==
  /\ active = Cardinality({c \in Slot : Present(conn, c)})
  /\ active <= CtCapacity

\* An adjacency is not reclaimed or rebound while a connection selects it:
\* both directions of every connection reach the hop they were bound to.
AdjacencyLive ==
  \A c \in Slot :
    Present(conn, c) =>
      /\ adj[conn[c].origin] = [key |-> conn[c].hop, active |-> TRUE]
      /\ adj[conn[c].reply] = [key |-> conn[c].loc, active |-> TRUE]

\* A lease ends: a session in hardware eventually leaves it, so its public
\* port can be freed (the purpose of eswitch_pipeline_ct_expire).
LeaseEnds ==
  \A i \in Slot :
    (Used(i) /\ entries[i].hw) ~> (~up \/ ~Used(i) \/ ~entries[i].hw)
=============================================================================
