----------------------------- MODULE Catalogue -----------------------------
(***************************************************************************)
(* The catalogues of machine and database sizes, read page by page: a      *)
(* client goes on as long as a page says that there is a next one.  Only   *)
(* the catalogue of Azure is sorted by a key of its own for every row; AWS *)
(* machines come in any order, a new one for each page, and AWS databases  *)
(* sorted by their class, of which there is one per engine.  The rows are  *)
(* seeded and do not change.                                               *)
(***************************************************************************)
EXTENDS Integers, FiniteSets, SequencesExt

CONSTANTS
  Entries,   \* the rows of a catalogue, numbered in the order Azure sorts them by
  ClassOf,   \* ClassOf[e]: DBInstanceClass, which sorts as a number
  MaxLimit   \* bound: entries to a page

ASSUME EntriesAssumption ==
  /\ IsFiniteSet(Entries) /\ Entries \subseteq Nat
  /\ ClassOf \in [Entries -> Nat]

VARIABLES
  reading,  \* the catalogue that is read, the entries the filters let pass,
            \* the limit, the page to read next, whether there is one, and
            \* whether a maximum of storage is asked for
  seen      \* the entries of the pages read so far

catalogueVars == <<reading, seen>>

Catalogues == {"azure", "aws", "awsDb"}

CatalogueTypeOK ==
  /\ reading \in [of : Catalogues, matches : SUBSET Entries, limit : 1 .. MaxLimit,
                  page : Nat \ {0}, hasNext : BOOLEAN, maximum : BOOLEAN]
  /\ seen \in Seq(Entries)

(* A client opens a catalogue with filters that some entries match.        *)
CatalogueInit ==
  /\ reading \in [of : Catalogues, matches : SUBSET Entries, limit : 1 .. MaxLimit,
                  page : {1}, hasNext : {TRUE}, maximum : BOOLEAN]
  /\ reading.maximum => reading.of = "awsDb"
  /\ seen = <<>>

----------------------------------------------------------------------------
(* Numbers of pages, and of the entries before a page.                     *)
TotalPages(total, limit) == (total + limit - 1) \div limit

Skip(page, limit) == (page - 1) * limit

(* Mutant of HasNext: the last page, if it is not full, is forgotten.      *)
HasNextFull(page, total, limit) == page < total \div limit

HasNext(page, total, limit) == page < TotalPages(total, limit)

(* What a query sorts by, if it does.                                      *)
Key(catalogue, e) == IF catalogue = "azure" THEN e ELSE ClassOf[e]

(* The answers the database may give, ordered as the query says.           *)
Orders(catalogue, matches) ==
  {s \in SetToSeqs(matches) :
     catalogue # "aws" =>
       \A i, j \in 1 .. Cardinality(matches) :
         i < j => Key(catalogue, s[i]) <= Key(catalogue, s[j])}

PageOf(s, page, limit) ==
  LET first == Skip(page, limit) + 1
      past  == Skip(page, limit) + limit
  IN SubSeq(s, first, IF past < Len(s) THEN past ELSE Len(s))

(* Each page is a query of its own.                                        *)
ReadPage ==
  /\ reading.hasNext
  /\ ~reading.maximum
  /\ \E s \in Orders(reading.of, reading.matches) :
       seen' = seen \o PageOf(s, reading.page, reading.limit)
  /\ reading' = [reading EXCEPT
       !.page = @ + 1,
       !.hasNext = HasNext(reading.page, Cardinality(reading.matches), reading.limit)]

(* findAwsDB writes a maximum of storage into a filter it has not made:    *)
(* every such query fails.                                                 *)
FailOnMaximum ==
  /\ reading.hasNext
  /\ reading.maximum
  /\ reading' = [reading EXCEPT !.hasNext = FALSE]
  /\ UNCHANGED seen

CatalogueNext == ReadPage \/ FailOnMaximum

CatalogueSpec == CatalogueInit /\ [][CatalogueNext]_catalogueVars

----------------------------------------------------------------------------
(* Reading pages until there is no next one yields as many entries as the  *)
(* filters let pass, and each of them once where the order leaves no       *)
(* choice: in the catalogue of Azure, and in that of databases unless two  *)
(* engines have one class.  Even then every class has its entries.         *)
PagesComplete ==
  LET m == reading.matches
      Times(e) == Cardinality({i \in 1 .. Len(seen) : seen[i] = e})
      Distinct == \A e, f \in m : ClassOf[e] = ClassOf[f] => e = f
      OfClass(c) == {e \in m : ClassOf[e] = c}
      SeenOfClass(c) == {i \in 1 .. Len(seen) : ClassOf[seen[i]] = c}
  IN ~reading.hasNext /\ ~reading.maximum =>
       /\ Len(seen) = Cardinality(m)
       /\ (reading.of = "azure" \/ (reading.of = "awsDb" /\ Distinct)) =>
            \A e \in m : Times(e) = 1
       /\ reading.of = "awsDb" =>
            \A e \in m : Cardinality(OfClass(ClassOf[e])) = Cardinality(SeenOfClass(ClassOf[e]))
=============================================================================
