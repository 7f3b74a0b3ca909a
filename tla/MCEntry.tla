------------------------------- MODULE MCEntry -------------------------------
(***************************************************************************)
(* A few ways to fill in each part of the forms.                           *)
(***************************************************************************)
EXTENDS Entry

Rule(below, above) ==
  [hold |-> 0, cooldown |-> 0, socBelow |-> below, socAbove |-> above, priceBelow |-> None,
   priceAbove |-> None, surplusAbove |-> None, pvAbove |-> 0]

Document(enabled, rules) == [version |-> 1, enabled |-> enabled, rules |-> rules]

Documents == {None, Malformed, Document(FALSE, {Rule(90, None)}),
              Document(TRUE, {Rule(90, 20)}), Document(TRUE, {Rule(20, 20)})}

Profile(id, role, generation, battery, forecast) ==
  [id |-> id, role |-> role, generation |-> generation, battery |-> battery,
   forecast |-> forecast]

MCProfiles == {Profile("a", "pv", TRUE, FALSE, TRUE), Profile("a", "battery", FALSE, TRUE, FALSE),
               Profile("b", "hybrid", FALSE, TRUE, TRUE)}

Typed == [Nothing EXCEPT !.estimate = TRUE]

Control == {[Typed EXCEPT !.active = a, !.scheduled = s, !.predictive = p, !.confirmed = c,
                          !.rules = d, !.load = TRUE] :
              a \in BOOLEAN, s \in BOOLEAN, p \in BOOLEAN, c \in BOOLEAN, d \in Documents}

Telemetry == {[Typed EXCEPT !.grid = g, !.load = l, !.estimate = e, !.loadForecast = ~e] :
                g \in {{}, {"power"}, {"import", "export"}, {"import"}},
                l \in BOOLEAN, e \in BOOLEAN}

Sources == {[Typed EXCEPT !.inverters = i, !.profiles = n, !.load = TRUE] :
              i \in {None, Malformed, {Profile("b", "pv", TRUE, FALSE, FALSE)}}, n \in 0..2}

Others == {[Typed EXCEPT !.price = TRUE, !.static = 3], [Typed EXCEPT !.static = -1],
           [Typed EXCEPT !.reserve = 90], [Typed EXCEPT !.senders = {Malformed}],
           [Typed EXCEPT !.pvForecast = TRUE, !.load = TRUE]}

MCInputs == Control \cup Telemetry \cup Sources \cup Others

Topology(configured, grid, price, static, inverters, missing) ==
  [configured |-> configured, grid |-> grid, price |-> price, static |-> static,
   inverters |-> inverters, missing |-> missing]

MCDashboards == {Topology(FALSE, FALSE, FALSE, None, FALSE, {}),
                 Topology(TRUE, TRUE, TRUE, None, TRUE, {"forecast"}),
                 Topology(TRUE, FALSE, FALSE, 2, FALSE, {"generation", "inverters"})}
=============================================================================
