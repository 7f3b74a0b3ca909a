--------------------------- MODULE MCCommandSession ---------------------------
(* Small instances of CommandSession.  One tick is one heartbeat interval  *)
(* (at most 0.5 s); durations, transaction times and the capacity of the   *)
(* event log are cut down to a few units.                                  *)
EXTENDS CommandSession

(* The guard HA builds for every session, one whose ownership was revoked  *)
(* and the default that allows nothing.                                    *)
MCGuards ==
  {[enabled |-> TRUE, ownership |-> TRUE, homeManager |-> FALSE,
    failsafe |-> FALSE],
   [enabled |-> TRUE, ownership |-> TRUE, homeManager |-> TRUE,
    failsafe |-> FALSE]}

MCOpenGuard == {g \in MCGuards : ~g.homeManager}

Device(mode, comm, fallback) ==
  [r \in Registers |->
     CASE r = ExternalMode -> mode
       [] r = CommControl -> comm
       [] r = FallbackMode -> fallback
       [] r = FallbackTimeout -> 300
       [] OTHER -> 0]

MCRegisters == {Device(External, CommOn, ApplyFallback),
                Device(External, Unreadable, 0)}

MCPowers == {2, 9}

MCSettings ==
  {<<<<ExternalMode, External>>>>, <<<<CommControl, CommOff>>>>,
   <<<<FallbackMode, ApplyFallback>>, <<FallbackTimeout, 60>>,
     <<FallbackPower, 0>>>>,
   <<<<PowerMinimum, -1>>, <<PowerMaximum, 1>>>>}
=============================================================================
