----------------------------- MODULE LedgerBlocks -----------------------------
(***************************************************************************)
(* The blocks of ledger.json and the policies that insert summaries        *)
(* between them (src/domain/ledger/summary_policy.py and the commit of the *)
(* version 0.3.0 interface in src/compat/v0_3_0.py).                       *)
(*                                                                         *)
(* A day is numbered 31 * m + d - 1 where m counts months from a January,  *)
(* so that days are ordered as their ISO strings are.  Seals and links are *)
(* the subject of LedgerChain; here a block is its kind, its date, the     *)
(* month or year it closes and its entries.                                *)
(***************************************************************************)
EXTENDS Lists, SequencesExt

Month(date) == date \div 31
Year(date)  == date \div (31 * 12)
MonthOfYear(month) == month % 12   \* tm_mon - 1

DayBlock(date, entries) ==
  [kind |-> "day", date |-> date, closes |-> 0, entries |-> entries]
MonthSummary(month, date) ==
  [kind |-> "month_summary", date |-> date, closes |-> month, entries |-> <<>>]
YearSummary(year, date) ==
  [kind |-> "year_summary", date |-> date, closes |-> year, entries |-> <<>>]
Genesis(date) ==
  [kind |-> "genesis", date |-> date, closes |-> 0, entries |-> <<>>]

IsDay(b)     == b.kind = "day"
IsSummary(b) == b.kind \in {"month_summary", "year_summary"}

DayPositions(ledger) == {i \in DOMAIN ledger : IsDay(ledger[i])}
DayBlocks(ledger)    == Picked(ledger, DayPositions(ledger))

-----------------------------------------------------------------------------
\* Month the last block is taken to belong to: a month summary belongs to the
\* month it closes, every other block to that of its date.
EffectiveMonth(prev) ==
  IF prev.kind = "month_summary" THEN prev.closes ELSE Month(prev.date)

\* Mutant of YearGrew: two years are needed.
YearGrewByTwo(prev, date) == Year(date) > EffectiveMonth(prev) \div 12 + 1

\* years_diff > 0
YearGrew(prev, date) == Year(date) > EffectiveMonth(prev) \div 12

\* Mutant of Repeated: the summary before is not looked at.
NeverRepeated(prev, date) == FALSE

\* is_same_month: the last block already closes the month before date.
Repeated(prev, date) ==
  prev.kind = "month_summary" /\ prev.closes = Month(date) - 1

\* YearMonthSummaryPolicy.get_summary_blocks: what goes between the last block
\* and a day block.  Moving back to an earlier month counts as a change, and a
\* year summary stands for that of December.
Summaries(prev, date) ==
  LET was      == EffectiveMonth(prev)
      closing  == Month(date) - 1
      year     == IF YearGrew(prev, date) /\ prev.kind # "year_summary"
                    THEN <<YearSummary(was \div 12, date)>> ELSE <<>>
      changed  == \/ MonthOfYear(Month(date)) # MonthOfYear(was)
                  \/ YearGrew(prev, date)
      covered  == year # <<>> /\ MonthOfYear(closing) = 11
      month    == IF changed /\ ~Repeated(prev, date) /\ ~covered
                    THEN <<MonthSummary(closing, date)>> ELSE <<>>
  IN year \o month

\* sync_day and sync_day_with_selection of version 0.3.0: only dates are
\* compared, the month closed is that of the last block, and nothing follows a
\* month summary.
LegacySummaries(prev, date) ==
  LET year  == IF Year(date) > Year(prev.date) /\ prev.kind # "year_summary"
                 THEN <<YearSummary(Year(prev.date), date)>> ELSE <<>>
      last  == IF year = <<>> THEN prev ELSE year[1]
      month == IF /\ MonthOfYear(Month(date)) > MonthOfYear(Month(prev.date))
                  /\ last.kind # "month_summary"
                 THEN <<MonthSummary(Month(prev.date), date)>> ELSE <<>>
  IN year \o month

\* A chain with one more day block after its legacy summaries.
LegacyAppend(ledger, day) ==
  ledger \o Append(LegacySummaries(Last(ledger), day.date), day)

\* A chain with some days more.
LegacyCommit(ledger, days) ==
  LET grown[k \in 0..Len(days)] ==
        IF k = 0 THEN ledger ELSE LegacyAppend(grown[k - 1], days[k])
  IN grown[Len(days)]

-----------------------------------------------------------------------------
\* Days of entries, ascending, the entries of one day in the order given;
\* dateOf is the day of an entry by its id.
GroupByDate(entries, dateOf) ==
  LET dates == Ascending({dateOf[entries[j].id] : j \in DOMAIN entries})
  IN [k \in DOMAIN dates |->
        DayBlock(dates[k],
                 Picked(entries, {j \in DOMAIN entries :
                                    dateOf[entries[j].id] = dates[k]}))]

\* The entries of blocks in order, each with the day of its block.  Summaries
\* and the genesis block have none.
Dated(b)       == [j \in DOMAIN b.entries |-> [date |-> b.date, entry |-> b.entries[j]]]
Placed(blocks) == FlattenSeq([k \in DOMAIN blocks |-> Dated(blocks[k])])

\* day_indices[-n]: a ledger without its last n day blocks goes up to the first
\* of them, and keeps the summaries before it.
RevertStart(ledger, n) ==
  LET at == Ascending(DayPositions(ledger)) IN at[Len(at) - n + 1]
=============================================================================
