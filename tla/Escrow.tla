-------------------------------- MODULE Escrow --------------------------------
(***************************************************************************)
(* What the marketplace promises its parties, without saying how: a deal   *)
(* goes from an offer to one of three ends, and money changes hands only   *)
(* when a deal is settled.  Uncontested, exactly the budget moves.         *)
(* Contested, a decision for one party costs the other no more than the    *)
(* budget and a limited penalty, and costs nobody else anything.           *)
(* Arbitration shows that the runtime implements this specification.       *)
(***************************************************************************)
EXTENDS Integers, FiniteSetsExt

CONSTANTS
    People,     \* whoever owns money
    Deals,      \* identifiers of deals
    Amounts,    \* the budgets that may be offered
    House,      \* the arbitrators' account, which pays the jurors
    Dust,       \* what the currency may take from an account it closes
    NoDeal      \* no deal yet, or nobody yet

VARIABLES
    deal,       \* the deal made under an identifier
    purse       \* what everybody owns, wherever it is put aside

escrowVars == <<deal, purse>>

\* Everybody's money together
Wealth(p) == SumFunctionOnSet(p, People)

\* The bonds of the three rounds, in percent of the budget: more than the costs
\* of all rounds, which are taken from the bonds first.
MaxPenalty(budget) == (budget * 75) \div 100

EscrowInit ==
    /\ deal = [d \in Deals |-> NoDeal]
    /\ purse \in [People -> Nat]

\* A deal enters a stage and no money moves.
Enter(d, from, to) ==
    /\ deal[d] # NoDeal
    /\ deal[d].stage \in from
    /\ deal' = [deal EXCEPT ![d].stage = to]

Offer(d) ==
    /\ deal[d] = NoDeal
    /\ \E client \in People, budget \in Amounts :
         deal' = [deal EXCEPT ![d] = [stage |-> "Offered", client |-> client,
                                      freelancer |-> NoDeal, budget |-> budget]]
    /\ UNCHANGED purse

Agree(d) ==
    /\ deal[d] # NoDeal
    /\ deal[d].stage = "Offered"
    /\ \E freelancer \in People :
         deal' = [deal EXCEPT ![d] = [@ EXCEPT !.stage = "Agreed", !.freelancer = freelancer]]
    /\ UNCHANGED purse

Deliver(d)  == Enter(d, {"Agreed"}, "Delivered") /\ UNCHANGED purse
Contest(d)  == Enter(d, {"Delivered"}, "Contested") /\ UNCHANGED purse
Withdraw(d) == Enter(d, {"Offered", "Agreed"}, "Cancelled") /\ UNCHANGED purse

\* What the purses are after amount has been paid
Paying(from, to, amount) ==
    [a \in People |-> purse[a] - (IF a = from THEN amount ELSE 0)
                               + (IF a = to THEN amount ELSE 0)]

\* The client is content.
Pay(d) ==
    /\ Enter(d, {"Delivered"}, "Paid")
    /\ purse' = Paying(deal[d].client, deal[d].freelancer, deal[d].budget)

\* The arbitrators decide.  base is what the purses would be without penalties.
Decide(d, to) ==
    LET client     == deal[d].client
        freelancer == deal[d].freelancer
        budget     == deal[d].budget
        loser      == IF to = "Paid" THEN client ELSE freelancer
        base       == IF to = "Paid" THEN Paying(client, freelancer, budget) ELSE purse
    IN  /\ Enter(d, {"Contested"}, to)
        /\ Wealth(purse') <= Wealth(purse)
        /\ \A a \in People \ {loser, House} : purse'[a] >= base[a]
        /\ purse'[loser] >= base[loser] - MaxPenalty(budget) - Dust

EscrowNext ==
    \E d \in Deals :
      \/ Offer(d) \/ Agree(d) \/ Deliver(d) \/ Contest(d) \/ Withdraw(d) \/ Pay(d)
      \/ Decide(d, "Paid") \/ Decide(d, "Withheld")

EscrowSpec == EscrowInit /\ [][EscrowNext]_escrowVars
===============================================================================
