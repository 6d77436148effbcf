----------------------------- MODULE MCListing -----------------------------
(* Three rows, an export limit of two, pages of one or two; the same numbers  *)
(* are the default and the limit of pkg/audit.                                *)
EXTENDS Listing, TLC

\* 5 and 12 are in one order as numbers and in the other as texts.
Ranges == [op : Operators, value : {5}]
Pairs == {{[op |-> "gte", value |-> 5], [op |-> o, value |-> 12]} : o \in {"lte", "starts_with"}}
SomeFilters == {{}, {[op |-> "other", value |-> 5]}} \union {{c} : c \in Ranges} \union Pairs

\* Filters are tried on one quiet page walk of an actor over its own rows;
\* writes on what is not filtered, two of them on the store of pkg/server.
MattersInit ==
  /\ ListingInit
  /\ reader.super => reader.tenant = NoTenant
  /\ query.filter # {} =>
       /\ budget = 0 /\ query.perPage = Default /\ query.sort = "-"
       /\ ~reader.super /\ \A i \in Rows(table) : table[i].tenant = reader.tenant
  /\ budget > 0 => query.column = "created_at" /\ query.sort # "+"
  /\ budget > 1 => store = "postgres"

MattersSpec == MattersInit /\ [][ListingNext]_listingVars
Symmetry == Permutations(Ids)
=============================================================================
