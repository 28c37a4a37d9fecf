----------------------------- MODULE MCCookCounty -----------------------------
(***************************************************************************)
(* A small Cook County: two cases, three participants (two of them         *)
(* defendants in one case who share a charge id), exports of one or two    *)
(* releases each, and three editions of the rule tables, one of them       *)
(* refused.  Days run from 1 to 9; day 8 is the Pretrial Fairness Act's.   *)
(***************************************************************************)
EXTENDS CookCounty

MCAlphabet ==
  <<"", "a1", "a2", "b1", "C1", "C2", "C3", "k1", "k2", "v1", "v2",
    "2", "Approved", "Arrest", "Charged", "Circuit", "Completed", "D", "Days", "District 1", "F", "FNPC",
    "Female", "Guilty", "Graduated", "I", "Indictment", "Jail", "Judge Ann Lee", "Lee, Ann", "M", "Nolle",
    "Narcotics", "No", "Original", "P1", "P2", "P3", "Probation", "Program", "Rejected", "Reopened", "Smith",
    "Summary", "Superseded", "Terminated", "Theft", "Unlisted", "Violation", "White", "X", "Years",
    "false", "lee", "p1", "p2", "p3", "true">>

MCNormalId == [id \in {"P1", "P2", "P3"} |-> [P1 |-> "p1", P2 |-> "p2", P3 |-> "p3"][id]]

MCNormalName ==
  [string \in {"Judge Ann Lee", "Lee, Ann", "Smith"} |->
     IF string = "Judge Ann Lee" THEN "ann lee" ELSE IF string = "Lee, Ann" THEN "lee ann" ELSE "smith"]
MCNormalLabel == [label \in {"White", "X", "Female", "F", "M"} |->
                    CASE label = "White" -> "white" [] label \in {"Female", "F"} -> "female"
                      [] label = "M" -> "male" [] label = "X" -> "x"]

MCVocabulary ==
  [charge_disposition |-> {"convicted_plea", "dismissed", "superseded", "pending", "unknown"},
   final_charge_disposition |-> {"convicted_plea", "dismissed"},
   actor_type |-> {"judge", "prosecutor", "jury", "law_enforcement", "unknown"},
   judicial_discretion_classification |-> {"discretionary", "non_judicial", "unknown"},
   judicial_ruling |-> {"no_probable_cause"},
   event_type |-> {"disposition", "indictment", "hearing", "diversion_closed"},
   charging_outcome |-> {"approved", "rejected"}, diversion_stage |-> {"pre_plea"},
   release_type |-> {"recognizance", "monetary_bond", "detained"},
   release_condition |-> {"electronic_monitoring"},
   sentence_term_flag |-> {"missing_term", "unparseable_term", "implausible_term", "life"},
   sentence_phase |-> {"original", "probation_violation", "amended", "resentenced", "remanded"},
   sentence_component |-> {"incarceration", "probation"},
   offense_category |-> {"drug", "property", "unknown"}, severity |-> {"class_2", "unknown"},
   position |-> {"judge"}, race |-> {"white"}, gender |-> {"female", "male"}]

DispositionEntry(key, disposition, final, actor, discretion) ==
  [key |-> key, disposition |-> disposition, final |-> final, actor |-> actor, discretion |-> discretion,
   ruling |-> Blank, event |-> "disposition", explained |-> TRUE]
Bond(type, regime, release, releases, actor, discretion) ==
  [key |-> <<type, regime>>, release |-> release, detained |-> FALSE, releases |-> releases,
   actor |-> actor, discretion |-> discretion, explained |-> TRUE]
Review(key, outcome) ==
  [key |-> key, outcome |-> outcome, actor |-> "prosecutor", discretion |-> "non_judicial",
   explained |-> TRUE]
Phase(key, phase, supersedes, corrects, revocation) ==
  [key |-> key, phase |-> phase, ignored |-> phase = Blank, supersedes |-> supersedes,
   corrects |-> corrects, revocation |-> revocation]
Type(key, component, terminates) ==
  [key |-> key, component |-> component, flag |-> Blank, terminates |-> terminates]
Alias(key, normalized, status, judge, rule) ==
  [key |-> key, normalized |-> normalized, status |-> status, judge |-> judge, rule |-> rule,
   candidates |-> {}, reasoned |-> TRUE]

Tables1 ==
  [dispositions |-> <<DispositionEntry(<<"Guilty", "*">>, "convicted_plea", TRUE, "judge", "discretionary"),
                      DispositionEntry(<<"Nolle", "*">>, "dismissed", TRUE, "prosecutor", "non_judicial"),
                      DispositionEntry(<<"Superseded", "*">>, "superseded", FALSE, "prosecutor", "non_judicial")>>,
   fallback |-> [DispositionEntry(<<Blank, Blank>>, "unknown", FALSE, "unknown", "unknown") EXCEPT !.event = Blank],
   reviews |-> <<Review("Approved", "approved"), Review("Rejected", "rejected")>>,
   reviewFallback |-> Review(Blank, Blank),
   programs |-> <<[key |-> "Program", stage |-> "pre_plea", actor |-> "unknown", discretion |-> "unknown",
                   explained |-> TRUE]>>,
   programFallback |-> [key |-> Blank, stage |-> Blank, actor |-> "unknown", discretion |-> "unknown",
                        explained |-> TRUE],
   results |-> <<[key |-> "Graduated", event |-> "diversion_closed"]>>,
   resultFallback |-> [key |-> Blank, event |-> Blank],
   events |-> <<[key |-> "Indictment", event |-> "indictment"], [key |-> "Arrest", event |-> Blank]>>,
   finding |-> [value |-> "FNPC", event |-> "hearing", ruling |-> "no_probable_cause", actor |-> "judge"],
   until |-> 8, actEffective |-> 8,
   bonds |-> <<Bond("I", "monetary_bail", "recognizance", TRUE, "judge", "discretionary"),
               Bond("I", "pretrial_fairness_act", "recognizance", TRUE, "judge", "unknown"),
               Bond("D", "monetary_bail", "monetary_bond", FALSE, "judge", "discretionary"),
               Bond("D", "pretrial_fairness_act", "monetary_bond", FALSE, "unknown", "unknown")>>,
   monitoring |-> [value |-> "true", condition |-> "electronic_monitoring"],
   maximumDays |-> 40,
   units |-> <<[key |-> "Days", factor |-> 10000, flag |-> Blank], [key |-> "Years", factor |-> 0, flag |-> "life"]>>,
   phases |-> <<Phase("Original", "original", FALSE, FALSE, FALSE),
                Phase("Violation", "probation_violation", TRUE, FALSE, TRUE),
                Phase("Reopened", "amended", TRUE, TRUE, FALSE),
                Phase("Summary", Blank, FALSE, FALSE, FALSE)>>,
   types |-> <<Type("Jail", "incarceration", Blank), Type("Probation", "probation", Blank),
               Type("Terminated", Blank, "satisfactory")>>,
   commitments |-> <<[key |-> "Jail", component |-> "incarceration", flag |-> Blank]>>,
   offenses |-> <<[key |-> <<"offense_category", "Narcotics">>, value |-> "drug"],
                  [key |-> <<"offense_category", "Theft">>, value |-> "property"],
                  [key |-> <<"class", "2">>, value |-> "class_2"]>>,
   courts |-> <<[key |-> "circuit", parent |-> Blank, district |-> 0],
                [key |-> "d1", parent |-> "circuit", district |-> 1],
                [key |-> "d2", parent |-> "circuit", district |-> 2]>>,
   courtNames |-> <<[key |-> "Circuit", court |-> "circuit"], [key |-> "District 1", court |-> "d1"],
                    [key |-> Blank, court |-> "circuit"]>>,
   facilities |-> <<[key |-> Blank, court |-> Blank], [key |-> "b1", court |-> "d2"]>>,
   aliases |-> <<Alias("Judge Ann Lee", "ann lee", "resolved", "lee", "exact"),
                 Alias("Lee, Ann", "lee ann", "resolved", "lee", "family_given_order"),
                 Alias("Smith", "smith", "unresolved", Blank, "family_name_only")>>,
   judges |-> <<[key |-> "lee", position |-> "judge"]>>]

\* Refused: a deposit bond that claims a release.
Tables2 == [Tables1 EXCEPT !.bonds[3].releases = TRUE]
\* Another reading of a dismissal, and of an alias.
Tables3 ==
  [Tables1 EXCEPT !.dispositions[2].event = Blank, !.aliases[2] = Alias("Lee, Ann", "lee ann", "unresolved", Blank, "family_name_only")]
MCEditions == <<Tables1, Tables2, Tables3>>

BlankRow ==
  [case |-> Blank, pid |-> Blank, received |-> NoDate, charge |-> Blank, version |-> Blank,
   category |-> Blank, updated |-> Blank, class |-> Blank, event |-> Blank, eventAt |-> NoDate,
   finding |-> Blank, bond |-> Blank, bondAt |-> NoDate, monitor |-> Blank, review |-> Blank,
   reviewAt |-> NoDate, age |-> BlankTerm, race |-> Blank, gender |-> Blank, disposition |-> Blank,
   reason |-> Blank, disposedAt |-> NoDate, judge |-> Blank, courtName |-> Blank, facility |-> Blank,
   phase |-> Blank, sentencedAt |-> NoDate, type |-> Blank, commitment |-> Blank, term |-> BlankTerm,
   unit |-> Blank, current |-> "false", program |-> Blank, referredAt |-> NoDate, result |-> Blank,
   closedAt |-> NoDate]
Case1(pid) == [case |-> "C1", pid |-> pid, received |-> 4]
Charge1(pid, version) ==
  [charge |-> "k1", version |-> version, category |-> "Narcotics", class |-> "2"] @@ Case1(pid)
Rel(rows) == [rows |-> [i \in DOMAIN rows |-> rows[i] @@ BlankRow], verified |-> TRUE]

Intake == <<Case1("P1") @@ [review |-> "Approved", reviewAt |-> 4, race |-> "White", age |-> 30],
            Case1("P2") @@ [review |-> "Rejected", race |-> "X"],
            [case |-> "C3", pid |-> "P3", received |-> 40],
            [case |-> Blank, pid |-> "P3", received |-> 4]>>

\* Two bonds of one participant: the row that sorts first decides.
Filed ==
  <<Charge1("P1", "v1") @@ [event |-> "Indictment", eventAt |-> 6, bond |-> "D", bondAt |-> 6, gender |-> "F"],
    Charge1("P1", "v1") @@ [event |-> "Arrest", eventAt |-> 5, bond |-> "I", bondAt |-> 6, updated |-> "Theft"],
    Charge1("P2", "v1") @@ [bond |-> "D", bondAt |-> 17, finding |-> "FNPC", eventAt |-> 6],
    [charge |-> "k2"] @@ Charge1("P2", "v1"),
    [case |-> "C2", pid |-> "P3", received |-> 6, charge |-> "k2", version |-> "v1", class |-> "2",
     category |-> "Unlisted"]>>
Reordered == Reverse(Filed)

\* First one defendant's charge ends; then the other's, as an amended version.
Decided(pid, version, disposition) ==
  Charge1(pid, version) @@ [disposition |-> disposition, disposedAt |-> 10, judge |-> "Lee, Ann"]
Decided1 == <<Decided("P2", "v1", "Nolle") @@ [courtName |-> "District 1", facility |-> Blank]>>
Decided2 ==
  Decided1 \o <<[charge |-> "k2"] @@ Decided("P2", "v1", "Nolle"), Decided("P1", "v2", "Guilty") @@ [facility |-> "b1"],
                Decided("P2", "v2", "Guilty") @@ [courtName |-> "Unlisted"]>>

Sentenced(at, phase, type, days) ==
  Charge1("P1", "v2") @@ [sentencedAt |-> at, phase |-> phase, type |-> type, term |-> 10 * days,
                          unit |-> "Days", current |-> "true", judge |-> "Judge Ann Lee", disposition |-> "Guilty",
                          disposedAt |-> 10]
Sentenced1 ==
  <<Sentenced(12, "Original", "Jail", 20), Sentenced(12, "Original", "Probation", 30) @@ [judge |-> "Smith"],
    Sentenced(14, "Summary", "Jail", 1), [unit |-> "Years"] @@ Sentenced(14, "Original", "Jail", 3)>>
Sentenced2 ==
  Sentenced1 \o <<Sentenced(16, "Reopened", "Jail", 40),
                  Sentenced(18, "Violation", "Terminated", 1), Sentenced(NoDate, "Original", "Jail", 5),
                  Sentenced(16, "Unlisted", "Jail", 5)>>

Diverted == <<Case1("P2") @@ [program |-> "Program", referredAt |-> 8, result |-> "Graduated", closedAt |-> 12]>>

\* The diversion export is first published without a header that is read.
MCReleases ==
  [intake |-> <<Rel(Intake)>>,
   initiation |-> <<Rel(Filed), Rel(Reordered)>>,
   dispositions |-> <<Rel(Decided1), Rel(Decided2)>>,
   sentencing |-> <<Rel(Sentenced1), Rel(Sentenced2)>>,
   diversion |-> <<[Rel(Diverted) EXCEPT !.verified = FALSE], Rel(Diverted)>>]
=============================================================================
