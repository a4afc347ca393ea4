---------------------------- MODULE MCCatalogues -----------------------------
(* What other parts read, on small sets: legal documents and their consents, *)
(* a plan, a contract beside a plan, a knowledge article with its searches,  *)
(* two reads of the master over two connections, and what the portal says of *)
(* the master's installments.  They write disjoint tables, so a behaviour    *)
(* follows one of them.  Every catalogue has two versions and two requests   *)
(* at a time.  What each promises is stated in its own module, which also    *)
(* holds while a behaviour follows another.                                  *)
EXTENDS Plans, LegalDocuments, Contracts, KnowledgeBase

CONSTANTS v1, v2, w3,
          Reads, Connections, Threshold, ResetOutlasts,
          Persons, Agreements, Installments, Holder, ContractOf, Due, Documents,
          Exact, Normalized, Consumers, LastDay, NoDate, Nobody

VARIABLES part, circuit, client, read, today, balance, consult

\* A public article that is replaced, and another's internal, personal one.
AudienceOf == v1 :> "PUBLIC" @@ v2 :> "INTERNAL" @@ w3 :> "INTERNAL"
ClassificationOf == v1 :> "PUBLIC" @@ v2 :> "PUBLIC" @@ w3 :> "PERSONAL"
ClaimOf == v1 :> "a" @@ v2 :> "b" @@ w3 :> "b"

\* A person with two contracts, one of them with two installments, and another
\* person; the document typed as 3 is ambiguous.
HolderOf == "c1" :> "p1" @@ "c2" :> "p1" @@ "c3" :> "p2"
ContractOfEach == "i1" :> "c1" @@ "i2" :> "c1" @@ "i3" :> "c2"
DueOn == "i1" :> 0 @@ "i2" :> 1 @@ "i3" :> 2
ExactOf == <<{"p1"}, {}, {"p1", "p2"}>>
NormalizedOf == <<{"p1"}, {"p2"}, {}>>

\* The bridge as it is configured, and one with a single connection: a second
\* read is then admitted while the first, timed out, may still hold it.
Bridge(MaxConnections, FailureThreshold) == INSTANCE MasterReads

Quotes == INSTANCE MasterQuotes WITH Contracts <- Agreements

ASSUME CataloguesAssumption == Bridge(Connections, Threshold)!ReadsAssumption /\ Quotes!QuotesAssumption

bridgeVars == <<circuit, client, read>>
quotesVars == <<today, balance, consult>>

CataloguesInit ==
    /\ part \in {"legal", "plan", "contract", "knowledge", "bridge", "narrow", "quotes"}
    /\ LegalInit /\ PlansInit /\ ContractsInit /\ KnowledgeInit
    /\ Bridge(1, 1)!ReadsInit /\ Quotes!QuotesInit
    /\ part # "quotes" => \A i \in DOMAIN balance : balance[i] > 0

CataloguesNext ==
    /\ UNCHANGED part
    /\ \/ part = "legal" /\ LegalNext
       \/ part # "legal" /\ UNCHANGED legalVars
    /\ \/ part = "plan" /\ PlansNext
       \/ part # "plan" /\ UNCHANGED plansVars
    /\ \/ part = "contract" /\ ContractsNext
       \/ part # "contract" /\ UNCHANGED <<contractVars, offerVars>>
    /\ \/ part = "knowledge" /\ KnowledgeNext
       \/ part # "knowledge" /\ UNCHANGED knowledgeVars
    /\ \/ part = "bridge" /\ Bridge(Connections, Threshold)!ReadsNext
       \/ part = "narrow" /\ Bridge(1, 1)!ReadsNext
       \/ part \notin {"bridge", "narrow"} /\ UNCHANGED bridgeVars
    /\ \/ part = "quotes" /\ Quotes!QuotesNext
       \/ part # "quotes" /\ UNCHANGED quotesVars

CataloguesSpec ==
    CataloguesInit
        /\ [][CataloguesNext]_<<part, legalVars, plansVars, contractVars, offerVars,
                                knowledgeVars, bridgeVars, quotesVars>>

Symmetry == Permutations(Senders) \union Permutations(Signers) \union Permutations(Reads)

-----------------------------------------------------------------------------

\* The bridge to the master is read by the account it expects and given back
\* whatever happens, and what is quoted of it was due.
MasterIsReadRight ==
    /\ part = "bridge" => Bridge(Connections, Threshold)!ReadsHold
    /\ part = "narrow" => Bridge(1, 1)!ReadsHold
    /\ part = "quotes" => Quotes!QuotesHold
=============================================================================
