---------------------------- MODULE MCGridRounds ----------------------------
EXTENDS GridRounds

Plain  == [version |-> "v1", sw |-> {}, filter |-> TRUE, firstMarket |-> TRUE,
           top |-> 4]
Off    == [Plain EXCEPT !.version = "v2"]
Chain  == [Off EXCEPT !.sw = {"chain", "discipline", "brain"}]
Full   == [Off EXCEPT !.sw = {"chain", "discipline", "brain", "sizing", "pivot", "guard",
                              "pauseAroundFunding"}, !.top = 5]
Both   == [Chain EXCEPT !.filter = FALSE]
Stops  == [Full EXCEPT !.firstMarket = FALSE, !.top = 4]
MCModes == {Off, Chain, Both, Full, Stops}
MCOutside == {Chain}
Calm  == [trend |-> 1, target |-> 0, choppy |-> FALSE, mom |-> 0, funds |-> 9, funding |-> FALSE,
          extreme |-> [spike |-> FALSE, body |-> "none", thin |-> "none"]]
Fall  == [Calm EXCEPT !.trend = -1, !.target = -4, !.mom = -1]
Storm == [Fall EXCEPT !.extreme = [spike |-> FALSE, body |-> "SHORT", thin |-> "none"], !.funds = 0]
MCWeather == {Calm, Fall, Storm}
MCScores == {-4, 0}
=============================================================================
