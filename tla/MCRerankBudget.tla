---- MODULE MCRerankBudget ----
EXTENDS RerankBudget
====
