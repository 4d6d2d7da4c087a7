----------------------------- MODULE StatsLogger -----------------------------
(***************************************************************************)
(* RibReaders with the goroutines of StartLogging: each waits for its      *)
(* context or its ticker, and on a tick reads the statistics of its RIB in *)
(* four critical sections: Count, GetSubnets and the node count of         *)
(* MemoryUsage under r.mu, GetStats under at.mu.  Writers may run between  *)
(* any two of them, so the report describes no single state; what is read  *)
(* in one section does.                                                    *)
(***************************************************************************)
EXTENDS RibReaders

CONSTANTS
  Logger,     \* the goroutines of StartLogging
  logged      \* the RIB of each

ASSUME LoggerAssumption ==
  /\ Logger \subseteq Reader \ Query
  /\ logged \in [Logger -> Rib]

VARIABLES
  cancelled,  \* the loggers whose context is done
  ticker,     \* the loggers with a tick in their ticker's channel, of length 1
  at,         \* logger -> where it is
  stats       \* logger -> what GetStats last returned, <<attrCount, sliceBytes>>

loggerVars == <<cancelled, ticker, at, stats>>
lvars == <<rvars, loggerVars>>

(* The sections under r.mu, in the order of the log line. *)
Section == {"count", "subnets", "nodes"}
After == [count |-> "subnets", subnets |-> "nodes", nodes |-> "stats"]

LInit ==
  /\ RInit
  /\ cancelled = {}
  /\ ticker = {}
  /\ at = [g \in Logger |-> "select"]
  /\ stats = [g \in Logger |-> <<0, 0>>]

Go(g, place) == at' = [at EXCEPT ![g] = place]

(* The ticker drops a tick that nobody has taken; Stop ends it. *)
Tick(g) ==
  /\ at[g] # "stopped" /\ g \notin ticker
  /\ ticker' = ticker \union {g}
  /\ UNCHANGED <<rvars, cancelled, at, stats>>

Cancel(g) ==
  /\ g \notin cancelled
  /\ cancelled' = cancelled \union {g}
  /\ UNCHANGED <<rvars, ticker, at, stats>>

(* A mutant: the ticker is looked at first. *)
StopWhenQuiet(g) ==
  /\ at[g] = "select" /\ g \in cancelled /\ g \notin ticker
  /\ Go(g, "stopped")
  /\ UNCHANGED <<rvars, cancelled, ticker, stats>>

(* The two branches of select; either is taken when both are ready. *)
Stop(g) ==
  /\ at[g] = "select" /\ g \in cancelled
  /\ Go(g, "stopped")
  /\ UNCHANGED <<rvars, cancelled, ticker, stats>>

TakeTick(g) ==
  /\ at[g] = "select" /\ g \in ticker
  /\ ticker' = ticker \ {g}
  /\ Go(g, "count")
  /\ UNCHANGED <<rvars, cancelled, stats>>

Call(g, r) ==
  /\ at[g] \in Section /\ logged[g] = r
  /\ g \notin shared[r] \union waiting[r]
  /\ RLock(g, r)
  /\ UNCHANGED <<vars, queryVars, loggerVars>>

(* The counter or the map is copied, and the lock goes. *)
Return(g, r) ==
  /\ at[g] \in Section /\ g \in shared[r]
  /\ RUnlock(g, r)
  /\ Go(g, After[at[g]])
  /\ UNCHANGED <<vars, queryVars, cancelled, ticker, stats>>

(* A mutant: each number is read in a section of its own. *)
GetStatsTwice(g) ==
  /\ at[g] \in {"stats", "bytes"} /\ atmu = NoThread
  /\ IF at[g] = "stats"
       THEN stats' = [stats EXCEPT ![g] = <<attrCount, @[2]>>] /\ Go(g, "bytes")
       ELSE stats' = [stats EXCEPT ![g] = <<@[1], sliceBytes>>] /\ Go(g, "select")
  /\ UNCHANGED <<rvars, cancelled, ticker>>

(* Both numbers in one section of at.mu; then the line is logged. *)
GetStats(g) ==
  /\ at[g] = "stats" /\ atmu = NoThread
  /\ stats' = [stats EXCEPT ![g] = <<attrCount, sliceBytes>>]
  /\ Go(g, "select")
  /\ UNCHANGED <<rvars, cancelled, ticker>>

Report(g) ==
  \/ TakeTick(g)
  \/ \E r \in Rib : Call(g, r) \/ Return(g, r)

LNext ==
  \/ RNext /\ UNCHANGED loggerVars
  \/ \E g \in Logger : Tick(g) \/ Cancel(g) \/ Stop(g) \/ Report(g) \/ GetStats(g)

LSpec == LInit /\ [][LNext]_lvars

(* Writers run as in SharedRibs; a walk goes on, and a writer gets its turn  *)
(* once the readers it waits for have left.                                  *)
(* A logger keeps running.  select chooses at random among the branches that *)
(* are ready, so that a context that is done is noticed in the end, and      *)
(* at.mu, which may be found taken any number of times, serves its waiters.  *)
LFairness ==
  /\ \A t \in Thread :
       /\ SF_lvars(Going(t) /\ UNCHANGED loggerVars)
       /\ SF_lvars((\E r \in Rib : WriterUnlock(t, r)) /\ UNCHANGED loggerVars)
       /\ WF_lvars((\E r \in Rib : WriterLock(t, r) \/ WriterOnce(t, r))
                     /\ UNCHANGED loggerVars)
  /\ \A u \in Query :
       WF_lvars((\E r \in Rib : Walk(u, r)) /\ UNCHANGED loggerVars)
  /\ \A g \in Logger : WF_lvars(Report(g)) /\ SF_lvars(GetStats(g)) /\ SF_lvars(Stop(g))

LFairSpec == LSpec /\ LFairness

-----------------------------------------------------------------------------
(* The number of attributes and the bytes that a report multiplies and adds  *)
(* belong to one state of the table, although copies come and go between and *)
(* during the sections of the report (MemoryUsage, GetStats).                *)
StatsOfOneTable ==
  \A g \in Logger : \E values \in SUBSET Attr :
    /\ stats[g][1] = Cardinality(values)
    /\ stats[g][2] = MapThenSumSet(LAMBDA a : sliceSize[a], values)

(* A logger whose context is done ends, however fast the ticks come and      *)
(* whatever the writers do: it never waits for a lock that it holds itself   *)
(* or that nobody gives up (StartLogging).                                   *)
LoggerStops == \A g \in Logger : g \in cancelled ~> at[g] = "stopped"
=============================================================================
