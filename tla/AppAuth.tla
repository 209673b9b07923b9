------------------------------ MODULE AppAuth ------------------------------
(***************************************************************************)
(* How a call to GitHub gets its token (internal/ghclient/auth.go): the    *)
(* App's JWT, the installation of an organization, and the installation's  *)
(* token, each cached for a time, the last two fetched by one flight that  *)
(* concurrent callers share.                                               *)
(*                                                                         *)
(* One organization, whose App may be uninstalled and installed again      *)
(* under a new id.  Time is kept as ages, counted in ticks, and goes on    *)
(* between any two steps.                                                  *)
(***************************************************************************)
EXTENDS Integers, FiniteSets

CONSTANTS Callers,
          InstTTL,       \* how long a looked-up installation is reused
          TokenLife,     \* how long GitHub lets a token live
          Margin,        \* a cached token must live longer than this
          JWTLife,       \* how long GitHub accepts a JWT
          JWTReuse,      \* how long the program reuses one
          Transit,       \* how long a call is under way to GitHub at most
          MaxInstalls,   \* bound: installations
          MaxFaults      \* bound: calls that fail, contexts that are done

ASSUME AppAuthAssumption ==
    /\ {InstTTL, TokenLife, Margin, JWTLife, JWTReuse, Transit, MaxInstalls, MaxFaults} \subseteq Nat
    /\ Margin < TokenLife /\ MaxInstalls > 0
    /\ JWTReuse > 0 /\ JWTReuse + Transit <= JWTLife

VARIABLES install,    \* the organization's installation, 0 for none
          last,       \* the newest installation there has been
          jwtAge,     \* age of the signed JWT
          inst,       \* the cached installation [id, age], id 0 for none
          tokens,     \* installation -> what its cached token has left
          flight,     \* what is being fetched -> its flight
          pc,         \* caller -> where it is
          idOf,       \* caller -> the installation it works with
          faults

authVars == <<install, last, jwtAge, inst, tokens, flight, pc, idOf, faults>>

Ids == 1..MaxInstalls

\* The keys of the flight group: "inst" as 0, "tok:<id>" as the id.
Flights == 0..MaxInstalls

Grounded == [stage |-> "none", id |-> 0, left |-> 0, jwt |-> 0, age |-> 0]

AuthInit ==
    /\ install = 1 /\ last = 1 /\ jwtAge = JWTLife
    /\ inst = [id |-> 0, age |-> 0] /\ tokens = [i \in Ids |-> 0]
    /\ flight = [f \in Flights |-> Grounded]
    /\ pc = [c \in Callers |-> "idle"] /\ idOf = [c \in Callers |-> 0]
    /\ faults = 0

(*------------------------------ the program ------------------------------*)

\* Mutant: a JWT is used for as long as GitHub accepts it.
JWTToTheEnd == IF jwtAge < JWTLife THEN jwtAge ELSE 0

\* Signed anew when its reuse is over; the age of the JWT a call carries.
AppJWT == IF jwtAge < JWTReuse THEN jwtAge ELSE 0

\* One flight for each thing fetched: the first caller sends, the rest wait.
Fly(f) ==
    IF flight[f].stage = "none"
    THEN /\ jwtAge' = AppJWT
         /\ flight' = [flight EXCEPT ![f] = [Grounded EXCEPT !.stage = "sent", !.jwt = AppJWT]]
    ELSE UNCHANGED <<jwtAge, flight>>

\* Mutant: what was once looked up is never looked up again.
ReusableForever == inst.id # 0

Reusable == inst.id # 0 /\ inst.age < InstTTL

InstallationID(c) ==
    /\ pc[c] = "idle"
    /\ IF Reusable
       THEN idOf' = [idOf EXCEPT ![c] = inst.id] /\ pc' = [pc EXCEPT ![c] = "hasId"]
       ELSE pc' = [pc EXCEPT ![c] = "noId"] /\ UNCHANGED idOf
    /\ UNCHANGED <<install, last, jwtAge, inst, tokens, flight, faults>>

\* There is no second look at the cache: who missed before a flight ended and
\* comes after it starts another.
JoinLookup(c) ==
    /\ pc[c] = "noId" /\ Fly(0)
    /\ pc' = [pc EXCEPT ![c] = "lookingUp"]
    /\ UNCHANGED <<install, last, inst, tokens, idOf, faults>>

\* Everyone who shared the flight stores the id anew, stamped with the clock.
StoreId(c) ==
    /\ pc[c] = "gotId"
    /\ inst' = [id |-> idOf[c], age |-> 0]
    /\ pc' = [pc EXCEPT ![c] = "hasId"]
    /\ UNCHANGED <<install, last, jwtAge, tokens, flight, idOf, faults>>

Lasts(i) == tokens[i] > Margin

InstallationToken(c) ==
    /\ pc[c] = "hasId"
    /\ pc' = [pc EXCEPT ![c] = IF Lasts(idOf[c]) THEN "done" ELSE "noToken"]
    /\ UNCHANGED <<install, last, jwtAge, inst, tokens, flight, idOf, faults>>

JoinMint(c) ==
    /\ pc[c] = "noToken" /\ Fly(idOf[c])
    /\ pc' = [pc EXCEPT ![c] = "minting"]
    /\ UNCHANGED <<install, last, inst, tokens, idOf, faults>>

Passengers(f) == {c \in Callers : IF f = 0 THEN pc[c] = "lookingUp"
                                  ELSE pc[c] = "minting" /\ idOf[c] = f}

\* An answer, or an error for all: the flight ends and its key is free.
LookupReturns ==
    /\ flight[0].stage \in {"answered", "refused"}
    /\ LET ok == flight[0].stage = "answered" IN
       /\ pc' = [c \in Callers |-> IF c \notin Passengers(0) THEN pc[c]
                                   ELSE IF ok THEN "gotId" ELSE "failed"]
       /\ idOf' = [c \in Callers |-> IF ok /\ c \in Passengers(0) THEN flight[0].id
                                     ELSE idOf[c]]
    /\ flight' = [flight EXCEPT ![0] = Grounded]
    /\ UNCHANGED <<install, last, jwtAge, inst, tokens, faults>>

\* The token is cached inside the flight.
MintReturns(i) ==
    /\ flight[i].stage \in {"answered", "refused"}
    /\ LET ok == flight[i].stage = "answered"  of == Passengers(i) IN
       /\ tokens' = IF ok THEN [tokens EXCEPT ![i] = flight[i].left] ELSE tokens
       /\ pc' = [c \in Callers |-> IF c \notin of THEN pc[c]
                                   ELSE IF ok THEN "done" ELSE "failed"]
    /\ flight' = [flight EXCEPT ![i] = Grounded]
    /\ UNCHANGED <<install, last, jwtAge, inst, idOf, faults>>

\* The caller uses its token, or reports its error, and comes again.
Again(c) ==
    /\ pc[c] \in {"done", "failed"}
    /\ pc' = [pc EXCEPT ![c] = "idle"] /\ idOf' = [idOf EXCEPT ![c] = 0]
    /\ UNCHANGED <<install, last, jwtAge, inst, tokens, flight, faults>>

(*--------------------------- GitHub and the clock -------------------------*)

\* GitHub knows its JWTs and its installations; no other is answered.
LookupServed ==
    /\ flight[0].stage = "sent"
    /\ flight' = [flight EXCEPT ![0] =
                     IF flight[0].jwt < JWTLife /\ install # 0
                     THEN [Grounded EXCEPT !.stage = "answered", !.id = install]
                     ELSE [Grounded EXCEPT !.stage = "refused"]]
    /\ UNCHANGED <<install, last, jwtAge, inst, tokens, pc, idOf, faults>>

MintServed(i) ==
    /\ flight[i].stage = "sent"
    /\ flight' = [flight EXCEPT ![i] =
                     IF flight[i].jwt < JWTLife /\ install = i
                     THEN [Grounded EXCEPT !.stage = "answered", !.left = TokenLife]
                     ELSE [Grounded EXCEPT !.stage = "refused"]]
    /\ UNCHANGED <<install, last, jwtAge, inst, tokens, pc, idOf, faults>>

\* The network fails, or the context of the caller who sent is done.
FlightFails ==
    /\ faults < MaxFaults /\ faults' = faults + 1
    /\ \E f \in Flights : /\ flight[f].stage \in {"sent", "answered"}
                          /\ flight' = [flight EXCEPT ![f] = [Grounded EXCEPT !.stage = "refused"]]
    /\ UNCHANGED <<install, last, jwtAge, inst, tokens, pc, idOf>>

Uninstall ==
    /\ install # 0 /\ install' = 0
    /\ UNCHANGED <<last, jwtAge, inst, tokens, flight, pc, idOf, faults>>

Reinstall ==
    /\ install = 0 /\ last < MaxInstalls
    /\ last' = last + 1 /\ install' = last'
    /\ UNCHANGED <<jwtAge, inst, tokens, flight, pc, idOf, faults>>

Less(n) == IF n = 0 THEN 0 ELSE n - 1

More(n, bound) == IF n < bound THEN n + 1 ELSE bound

\* A call reaches GitHub in time; its answer may take any.
Tick ==
    /\ \A f \in Flights : flight[f].stage = "sent" => flight[f].age < Transit
    /\ jwtAge' = More(jwtAge, JWTLife)
    /\ inst' = [inst EXCEPT !.age = More(@, InstTTL)]
    /\ tokens' = [i \in Ids |-> Less(tokens[i])]
    /\ flight' = [f \in Flights |->
                     IF flight[f].stage = "sent"
                     THEN [flight[f] EXCEPT !.jwt = More(@, JWTLife), !.age = @ + 1]
                     ELSE [flight[f] EXCEPT !.left = Less(@)]]
    /\ UNCHANGED <<install, last, pc, idOf, faults>>

CallerStep(c) ==
    \/ InstallationID(c) \/ JoinLookup(c) \/ StoreId(c)
    \/ InstallationToken(c) \/ JoinMint(c) \/ Again(c)

Network ==
    \/ LookupServed \/ LookupReturns
    \/ \E i \in Ids : MintServed(i) \/ MintReturns(i)

AuthNext ==
    \/ \E c \in Callers : CallerStep(c)
    \/ Network \/ FlightFails \/ Uninstall \/ Reinstall \/ Tick

AuthSpec == AuthInit /\ [][AuthNext]_authVars

\* Callers are scheduled and keep coming, GitHub answers, the clock goes on.
FairSpec ==
    /\ AuthSpec
    /\ \A c \in Callers : WF_authVars(CallerStep(c))
    /\ WF_authVars(Tick)
    /\ SF_authVars(LookupServed) /\ SF_authVars(LookupReturns)
    /\ \A i \in Ids : SF_authVars(MintServed(i)) /\ SF_authVars(MintReturns(i))

(*------------------------------- properties ------------------------------*)

FlightType == [stage : {"none", "sent", "answered", "refused"}, id : Flights,
               left : 0..TokenLife, jwt : 0..JWTLife, age : 0..Transit]

\* The shape of the state: a caller past the lookup has an installation, and a
\* cached token never has more than its life left.
AuthTypeOK ==
    /\ install \in 0..last /\ last \in Ids /\ jwtAge \in 0..JWTLife
    /\ inst \in [id : Flights, age : 0..InstTTL]
    /\ tokens \in [Ids -> 0..TokenLife]
    /\ flight \in [Flights -> FlightType]
    /\ idOf \in [Callers -> Flights] /\ faults \in 0..MaxFaults
    /\ pc \in [Callers -> {"idle", "noId", "lookingUp", "gotId", "hasId",
                           "noToken", "minting", "done", "failed"}]
    /\ \A c \in Callers : pc[c] \in {"gotId", "hasId", "noToken", "minting"} => idOf[c] \in Ids

\* No call is refused for the age of its JWT: one signed for an earlier call and
\* used again is still accepted when the call that carries it gets to GitHub,
\* however many lookups and mints shared it (auth.go:79, 84, 93).
JWTAccepted ==
    \A f \in Flights : flight[f].stage = "sent" => flight[f].jwt <= JWTLife - 1

\* An App that stays installed is usable again: an installation cached before it
\* was reinstalled, or handed around by a late waiter, fails calls only until
\* it has aged out.
Recovers == <>[](install # 0) => <>[](\A c \in Callers : pc[c] # "failed")
=============================================================================
