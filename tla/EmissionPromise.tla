--------------------------- MODULE EmissionPromise ---------------------------
(***************************************************************************)
(* What emission by vote promises to the holders of the token: whatever is *)
(* paid out is a grant that somebody asked for, that more than half of the *)
(* electorate of the day voted on and more voted for than against, each    *)
(* wallet once; it is paid once, in full, to who asked, and no sooner than *)
(* a delay after the deciding vote.  Nothing here depends on who leads,    *)
(* who belongs to the electorate now, or how many grants wait for payment. *)
(* Governance implements it.                                               *)
(***************************************************************************)
EXTENDS Integers, FiniteSets

CONSTANTS Wallets, Nobody, Grants, Amounts, Electorates, Delay

VARIABLES
  grant,  \* grant[g]: who asks for what, the ballot on it, and how far it came
  paid,   \* paid[w]: all that w was paid
  clock

promiseVars == <<grant, paid, clock>>

Blank ==
  [stage |-> "None", to |-> Nobody, amount |-> 0, electorate |-> 0, voters |-> {},
   favour |-> 0, since |-> 0]

PromiseInit ==
  /\ grant = [g \in Grants |-> Blank]
  /\ paid = [w \in Wallets |-> 0]
  /\ clock = 0

\* A wallet asks for an amount; what is still being voted on may lapse for it.
Ask(g) ==
  /\ grant[g].stage = "None"
  /\ \E w \in Wallets, a \in Amounts, n \in Electorates,
        lapsed \in SUBSET {x \in Grants : grant[x].stage = "Pending"} :
       grant' = [x \in Grants |->
                   IF x = g THEN [Blank EXCEPT !.stage = "Pending", !.to = w,
                                               !.amount = a, !.electorate = n]
                   ELSE IF x \in lapsed THEN [grant[x] EXCEPT !.stage = "Closed"]
                   ELSE grant[x]]
  /\ UNCHANGED <<paid, clock>>

\* The ballot of a grant with one more vote in it.
Cast(b, w, yes) ==
  [b EXCEPT !.voters = @ \cup {w}, !.favour = IF yes THEN @ + 1 ELSE @]

Carried(b) ==
  /\ 2 * Cardinality(b.voters) > b.electorate
  /\ 2 * b.favour > Cardinality(b.voters)

Full(b) == Cardinality(b.voters) >= b.electorate

\* The ballot is decided as soon as it is carried, or everybody has voted.
Outcome(b) ==
  IF Carried(b) THEN [b EXCEPT !.stage = "Approved", !.since = clock]
  ELSE IF Full(b) THEN [b EXCEPT !.stage = "Closed"]
  ELSE b

Ballot(g) ==
  /\ grant[g].stage = "Pending"
  /\ \E w \in Wallets \ grant[g].voters, yes \in BOOLEAN :
       grant' = [grant EXCEPT ![g] = Outcome(Cast(@, w, yes))]
  /\ UNCHANGED <<paid, clock>>

Pay(g) ==
  /\ grant[g].stage = "Approved"
  /\ clock >= grant[g].since + Delay
  /\ grant' = [grant EXCEPT ![g].stage = "Executed"]
  /\ paid' = [paid EXCEPT ![grant[g].to] = @ + grant[g].amount]
  /\ UNCHANGED clock

Pass ==
  /\ clock' > clock
  /\ UNCHANGED <<grant, paid>>

PromiseNext ==
  \/ \E g \in Grants : Ask(g) \/ Ballot(g) \/ Pay(g)
  \/ Pass

PromiseSpec == PromiseInit /\ [][PromiseNext]_promiseVars
=============================================================================
