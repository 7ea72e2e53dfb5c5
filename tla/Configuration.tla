---------------------------- MODULE Configuration ----------------------------
(***************************************************************************)
(* From a deployment's environment, `.env` file and YAML to a running      *)
(* process: config/src/loader.rs, the validation of config/src/settings.rs *)
(* and the gates of app/src/runtime.rs.  A layer is a function from names  *)
(* (or, in the YAML, settings) to values; fields the validation only       *)
(* compares with each other are one tuple.  Numbers are finite, shares are *)
(* percentages.                                                            *)
(***************************************************************************)
EXTENDS Integers, Sequences

CONSTANTS Deployments,  \* the layers of a launch: [argument, process, dotenv, yaml]
          Means(_)      \* the setting a variable's name is lower-cased to

VARIABLES given,     \* the layers of this launch
          phase,     \* how far it is
          selected,  \* the environment it was asked for
          values,    \* the settings as they are put together
          pending,   \* the variables not yet laid over them
          endpoint   \* whose URLs the exchange clients use
configVars == <<given, phase, selected, values, pending, endpoint>>

Environments == {"dev", "testnet", "mainnet"}
Features == {"legacy", "ledger", "execution", "stream", "reconciliation", "runner", "making", "arb"}
Flags == Features \union {"kill", "paid"}
Tokens == {"viewer", "operator", "admin", "auth"}
Texts == Tokens \union {"environment", "address", "key", "postgres", "host"}

\* Layers from the top down: each setting as the first that has it says.
Topmost(layers) ==
  [s \in UNION {DOMAIN layers[i] : i \in DOMAIN layers} |->
     LET has == {i \in DOMAIN layers : s \in DOMAIN layers[i]}
     IN layers[CHOOSE i \in has : \A j \in has : i <= j][s]]

ReferenceDefaults == [weights |-> <<40, 60>>, reconnect |-> <<1, 30>>, maxVenues |-> 20,
                      venues |-> <<"BTCUSDT", "ETHUSDT", "SOLUSDT">>]
RiskDefaults == [leverage |-> 5, shares |-> <<20, 5, 10>>, timeout |-> 500, priceAge |-> 5,
                 kill |-> "true"]
BudgetDefaults == [bands |-> <<500, 1500, 3000>>, polls |-> <<5, 15, 30>>, runway |-> <<1, 6, 24>>,
                   ip |-> <<100, 1200>>, paid |-> "false", paidLimits |-> <<0, 0, 0>>]
MakingDefaults == [accountPolls |-> <<1, 3>>, exposure |-> <<5, 15>>]
ArbDefaults == [scan |-> <<5, 5, 30>>]
ApiDefaults == [t \in Tokens \union {"host"} |-> IF t = "host" THEN "loopback" ELSE ""]
ExchangeDefaults == [address |-> "", key |-> ""]
AppDefaults == [environment |-> "dev", postgres |-> "weak"]
FeatureDefaults == [f \in Features |-> "false"]
Defaults == Topmost(<<AppDefaults, FeatureDefaults, ReferenceDefaults, RiskDefaults, BudgetDefaults,
                      MakingDefaults, ArbDefaults, ApiDefaults, ExchangeDefaults>>)
Settings == DOMAIN Defaults

ConfigInit == /\ given = [argument |-> "", process |-> <<>>, dotenv |-> <<>>, yaml |-> <<>>]
              /\ phase = "off" /\ selected = "" /\ values = Defaults
              /\ pending = {} /\ endpoint = ""

Refuse == phase' = "refused"

Launch(d) == /\ phase = "off" /\ given' = d /\ phase' = "select"
             /\ UNCHANGED <<selected, values, pending, endpoint>>

---------------------------------------------------------------------------
(* The layers                                                              *)

ValueIn(layer, n) == IF n \in DOMAIN layer THEN layer[n] ELSE ""

\* What the command line says, or HYPE_ENV, be it empty.
Explicit(d) == IF d.argument # "" THEN d.argument
               ELSE IF "ENV" \in DOMAIN d.process THEN d.process.ENV ELSE "none"

\* The explicit one; else the first of these that is not empty.
SelectEnvironment(d) ==
  LET tried == <<ValueIn(d.process, "environment"), ValueIn(d.dotenv, "ENV"),
                 ValueIn(d.dotenv, "environment"), "dev">>
      named == {i \in DOMAIN tried : tried[i] # ""}
  IN IF Explicit(d) # "none" THEN Explicit(d)
     ELSE tried[CHOOSE i \in named : \A j \in named : i <= j]

AllEnv(d) == Topmost(<<d.process, d.dotenv>>)

Select ==
  LET env == SelectEnvironment(given)
  IN /\ phase = "select" /\ selected' = env
     /\ IF env \in Environments
        THEN /\ phase' = "overlay" /\ pending' = DOMAIN AllEnv(given)
             /\ values' = Topmost(<<[environment |-> env], given.yaml, Defaults>>)
        ELSE Refuse /\ UNCHANGED <<pending, values>>
     /\ UNCHANGED <<given, endpoint>>

\* The variables come in the order of a hash map.
Overlay(n) ==
  /\ phase = "overlay" /\ n \in pending /\ pending' = pending \ {n}
  /\ values' = IF n # "ENV" /\ Means(n) \in Settings
               THEN [values EXCEPT ![Means(n)] = AllEnv(given)[n]] ELSE values
  /\ UNCHANGED <<given, phase, selected, endpoint>>

\* A scalar that reads as a number or a boolean is not a text.
Readable(v) == /\ DOMAIN v = Settings
               /\ \A f \in Flags : v[f] \in {"true", "false"}
               /\ \A t \in Texts : v[t] \notin {"true", "false", "digits"}

UrlsFor(env) == IF env = "mainnet" THEN "mainnet" ELSE "testnet"

---------------------------------------------------------------------------
(* Validation                                                              *)

On(v, f) == v[f] = "true"
V2Trading(v) == \A f \in {"ledger", "execution", "stream", "reconciliation", "runner"} : On(v, f)
Ascending(t) == t[1] <= t[2] /\ t[2] <= t[3]

ValidReference(v) ==
  /\ v.weights[1] + v.weights[2] = 100 /\ v.reconnect[1] <= v.reconnect[2]
  /\ Len(v.venues) <= v.maxVenues
  /\ \A i, j \in DOMAIN v.venues : v.venues[i] = v.venues[j] => i = j

ValidRisk(v) == /\ v.leverage \in 1..20 /\ \A i \in 1..3 : v.shares[i] \in 1..100
                /\ v.timeout >= 100 /\ v.priceAge > 0

ValidBudget(v) == /\ Ascending(v.bands) /\ Ascending(v.polls) /\ Ascending(v.runway)
                  /\ v.ip[1] < v.ip[2]
                  /\ On(v, "paid") => \A i \in 1..3 : v.paidLimits[i] > 0
                  /\ Ascending(v.paidLimits)

ValidStrategies(v) == /\ v.accountPolls[1] < v.accountPolls[2] /\ v.exposure[1] <= v.exposure[2]
                      /\ v.scan[1] <= v.scan[2] /\ v.scan[1] <= v.scan[3]

Configured(v) == {t \in Tokens : v[t] # ""}
ValidTokens(v) ==
  /\ \A t \in Configured(v) : v[t] # "short"
  /\ \A t, u \in Configured(v) : v[t] = v[u] => t = u
  /\ ~(v.environment = "mainnet" /\ Configured(v) = {} /\ v.host # "loopback")

ValidChain(v) ==
  /\ ~(On(v, "legacy") /\ On(v, "execution"))
  /\ \A f \in {"execution", "stream", "reconciliation"} : On(v, f) => On(v, "ledger")
  /\ On(v, "runner") => On(v, "execution")
  /\ On(v, "making") \/ On(v, "arb") => V2Trading(v)
  /\ On(v, "arb") => v.environment = "testnet"

Validate(v) == /\ ValidReference(v) /\ ValidRisk(v) /\ ValidBudget(v) /\ ValidStrategies(v)
               /\ ValidTokens(v) /\ ValidChain(v) /\ v.environment \in Environments

Required == {"address", "key", "postgres"}
FromProcess(n) == ValueIn(given.process, n) # ""
AdminToken(v) == \E t \in {"admin", "auth"} : v[t] \notin {"", "short"}

ValidateMainnet(v) == /\ \A n \in Required : FromProcess(n)
                      /\ \E t \in Tokens : FromProcess(t)
                      /\ AdminToken(v) /\ v.postgres = "tls" /\ On(v, "kill")

Load ==
  /\ phase = "overlay" /\ pending = {}
  /\ IF /\ Readable(values) /\ values.environment = selected /\ Validate(values)
        /\ values.environment = "mainnet" => ValidateMainnet(values)
     THEN phase' = "loaded" /\ endpoint' = UrlsFor(values.environment)
     ELSE Refuse /\ UNCHANGED endpoint
  /\ UNCHANGED <<given, selected, values, pending>>

---------------------------------------------------------------------------
(* Wiring                                                                  *)

OptedIn == ValueIn(given.process, "optIn") = "1"

\* Without the V2 chain only the control plane is wired.
ControlPlane == /\ phase = "loaded" /\ ~V2Trading(values) /\ phase' = "observing"
                /\ UNCHANGED <<given, selected, values, pending, endpoint>>

\* With it the ledger must be there, and Postgres must answer.
Trade(connects) ==
  /\ phase = "loaded" /\ V2Trading(values)
  /\ phase' = IF /\ values.environment = "mainnet" => OptedIn
                 /\ values.address # "" /\ values.key = "hex"
                 /\ values.postgres # "" /\ connects
              THEN "trading" ELSE "refused"
  /\ UNCHANGED <<given, selected, values, pending, endpoint>>

Exit == /\ phase \in {"refused", "observing", "trading"}
        /\ given' = [argument |-> "", process |-> <<>>, dotenv |-> <<>>, yaml |-> <<>>]
        /\ phase' = "off" /\ selected' = "" /\ values' = Defaults
        /\ pending' = {} /\ endpoint' = ""

ConfigurationNext ==
  \/ \E d \in Deployments : Launch(d)
  \/ Select
  \/ \E n \in pending : Overlay(n)
  \/ Load
  \/ ControlPlane
  \/ \E c \in BOOLEAN : Trade(c)
  \/ Exit

---------------------------------------------------------------------------
(* Properties                                                              *)

Names(s) == {n \in (DOMAIN given.process \union DOMAIN given.dotenv) \ {"ENV"} : Means(n) = s}
TopLayer(s) ==
  CASE \E n \in Names(s) : n \in DOMAIN given.process ->
         given.process[CHOOSE n \in Names(s) : n \in DOMAIN given.process]
    [] Names(s) # {} /\ Names(s) \intersect DOMAIN given.process = {} ->
         given.dotenv[CHOOSE n \in Names(s) : TRUE]
    [] s = "environment" /\ Names(s) = {} -> selected
    [] OTHER -> Topmost(<<given.yaml, Defaults>>)[s]

\* A setting spelled one way has the value of the highest layer that gives it:
\* process over `.env` over YAML over default, however the overlay's hash map
\* was ordered (loader.rs:3-8).  One spelled two ways does not.
LayersHold == phase \in {"observing", "trading"} =>
  \A s \in Settings : (\A n, m \in Names(s) : n = m) => values[s] = TopLayer(s)

\* What trades was selected, on that environment's endpoint, with the durable
\* chain whole and the old one off; on mainnet also opted into by the process's
\* own environment, with a kill switch, an admin who can use it, and the
\* process's secrets unless another spelling overrode them; funding arbitrage
\* only on testnet.
TradesAsChosen == phase = "trading" =>
  /\ values.environment = SelectEnvironment(given) /\ endpoint = UrlsFor(SelectEnvironment(given))
  /\ V2Trading(values) /\ ~On(values, "legacy") /\ values.postgres # ""
  /\ On(values, "arb") => SelectEnvironment(given) = "testnet"
  /\ SelectEnvironment(given) = "mainnet" =>
       /\ OptedIn /\ On(values, "kill") /\ AdminToken(values)
       /\ \A s \in Required : Names(s) = {s} => values[s] = given.process[s]

ConfigurationSound == LayersHold /\ TradesAsChosen
==============================================================================
