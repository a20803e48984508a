-------------------------- MODULE MCOrderSubmission --------------------------
EXTENDS OrderSubmission, TLC

CONSTANTS btc, named, careful, rash, cancel

TaskSymmetry == Permutations(Task)

Dec(c, e) == [c |-> c, e |-> e]

\* The second version of the rules raises the least quantity and cuts a decimal.
MCRulesOf ==
    [s \in Symbol |->
        [v \in 1..MaxVersion |->
            [symbol |-> s, minQty |-> Dec(v, -1), maxQty |-> Dec(5, 0),
             maxPosition |-> Dec(50, -1), qtyDecimals |-> 3 - v, priceDecimals |-> 2,
             maxLeverage |-> 10]]]

Order(qty, price, reduceOnly) ==
    [symbol |-> btc, type |-> "limit", qty |-> qty, price |-> price, tp |-> Absent,
     sl |-> Dec(90, 0), leverage |-> 10, margin |-> "cross", reduceOnly |-> reduceOnly]

MCRequest ==
    [i \in Create |-> CASE i = named   -> Order(Dec(100, -2), Dec(10050, -2), TRUE)
                       [] i = careful -> Order(Dec(1, -1), Dec(100, 0), FALSE)
                       [] i = rash    -> Order(Dec(3, -1), Dec(100, 0), FALSE)]

MCPosition ==
    [i \in Create |-> [qty |-> Dec(3, 0), pending |-> Dec(2, 0), leverage |-> 10,
                       margin |-> Absent]]

\* The default policy, but for an order without a cl_ord_id whose policy retries
\* what cannot have placed it, and a cancel that is called without a policy.
MCRetryableCodes ==
    [i \in Intent |-> CASE i = careful -> {"RATE_LIMITED", "REQUEST_TIMEOUT"}
                       [] i = cancel  -> {}
                       [] OTHER       -> AnyCode]

=============================================================================
