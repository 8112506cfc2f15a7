---------------------------- MODULE MCDailyRates ----------------------------
EXTENDS DailyRates

\* A developer's database: rows nobody seeded, a run that stopped anywhere, and an
\* Expense deleted since, with its conversions.
S == INSTANCE SeedData WITH SUPPORTED_CURRENCIES <- {"VND", "USD", "EUR", "GBP"},
                            Date <- 739617 .. 739647

Foreign == [id : {"r1"}, pair : S!RatePairs, date : {S!RATE_DATE}, rate : {<<1, 1>>}]
Strangers == [id : {"u1"}, name : {"you", "mai", "eve"}]
Rows(some, others) == {[users |-> some, rates |-> others, expenses |-> {}, conversions |-> {}]}
Before == UNION {Rows(some, others) : some \in {{}} \cup {{u} : u \in Strangers},
                                      others \in {{}} \cup {{r} : r \in Foreign}}
Deleted(db, id) == [db EXCEPT !.expenses = {e \in @ : e.id # id},
                              !.conversions = {c \in @ : c.expenseId # id}]
ASSUME S!LoggedOnTheirDay
ASSUME \A db \in Before, statements \in 0 .. 4 :
          LET found == S!main(db, statements)
          IN  /\ S!RunCompletes(found)
              /\ S!RunCompletes(Deleted(found, 1))
              /\ S!IdsAreContent(found) => S!IdsAreContent(Deleted(found, 1))
=============================================================================
