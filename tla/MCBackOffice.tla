----------------------------- MODULE MCBackOffice -----------------------------
(* The offices around the matches: registrations, series, court queues,      *)
(* standings, and the limiter of the external API.  No operation of one      *)
(* office changes the rows of another, so one behaviour is that of one       *)
(* office, chosen at the start, while the others keep their first state; the *)
(* steps that come from elsewhere (a match ends, a team withdraws) are steps *)
(* of the office they disturb.                                               *)
EXTENDS Registration, MatchSeries, CourtQueue, Standings, RateLimiter, TLC

VARIABLE office

\* Two teams meet twice.
Meetings == {<<1, 2>>, <<2, 1>>}

\* The requests under way at a time: Desks of a registration, Creators in a
\* series, Operators at a court, Runs of the standings are the same set.
Symmetry == Permutations(Desks) \cup Permutations(Entrants)

Offices == {"registrations", "series", "courts", "standings", "limiter"}

BackOfficeInit ==
    /\ office \in Offices
    /\ RegistrationInit
    /\ office # "registrations" => division.auto /\ division.promote
    /\ SeriesInit /\ QueueInit /\ StandingsInit /\ LimiterInit

RegistrationsRest == UNCHANGED regvars
SeriesRest == UNCHANGED seriesvars
CourtsRest == UNCHANGED queuevars
StandingsRest == UNCHANGED standingsvars
LimiterRests == UNCHANGED limitervars

BackOfficeNext ==
    /\ UNCHANGED office
    /\ \/ /\ office = "registrations" /\ RegistrationNext
          /\ SeriesRest /\ CourtsRest /\ StandingsRest /\ LimiterRests
       \/ /\ office = "series" /\ SeriesNext
          /\ RegistrationsRest /\ CourtsRest /\ StandingsRest /\ LimiterRests
       \/ /\ office = "courts" /\ QueueNext
          /\ RegistrationsRest /\ SeriesRest /\ StandingsRest /\ LimiterRests
       \/ /\ office = "standings" /\ StandingsNext
          /\ RegistrationsRest /\ SeriesRest /\ CourtsRest /\ LimiterRests
       \/ /\ office = "limiter" /\ LimiterNext
          /\ RegistrationsRest /\ SeriesRest /\ CourtsRest /\ StandingsRest

=============================================================================
