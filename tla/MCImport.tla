------------------------------ MODULE MCImport ------------------------------
EXTENDS Import
CONSTANT list

Tel(intl, sub, line, fits) ==
    Number([intl |-> intl, country |-> "CI", subscriber |-> sub, line |-> line, fits |-> fits])
Mobile == Tel(TRUE, 1, "MOBILE", "fits")
Local == Tel(FALSE, 1, "MOBILE", "fits")
Fixed == Tel(TRUE, 2, "FIXED_LINE", "fits")

ByPosition == [msisdn |-> [by |-> "index", value |-> 1], country |-> None,
               attributes |-> [name |-> [by |-> "index", value |-> 2]]]
ByName == [msisdn |-> [by |-> "name", value |-> "tel"], country |-> [by |-> "name", value |-> "pays"],
           attributes |-> [name |-> [by |-> "name", value |-> "nom"]]]
Header == <<Word("nom"), Word("tel"), Word("pays")>>
Empty == <<Blank, Blank>>

(* Three rows without a header, in every order: a number written twice, a  *)
(* short row, a blank one, a refused one, one the parser stops on.         *)
Lines == <<<<Mobile, Blank>>, <<Local, Word("a")>>, <<Fixed>>, Empty, Broken>>
ShortFile(q) == [kind |-> "csv", rows |-> <<Lines[q[2]], Lines[q[3]], Lines[q[4]]>>]

(* A longer file with a header after a blank row, the same with a column   *)
(* missing, and a workbook whose cells are typed.                          *)
LongFile(header) ==
    [kind |-> "csv",
     rows |-> <<Empty, header, <<Word("a"), Mobile, Blank>>, <<Blank, Local, Word("CI")>>,
                <<Word("b"), Fixed, Word("CI")>>, <<Word("b"), Local, Word("ZZ")>>,
                <<Word("c"), Mobile>>>>]
Sheet == [kind |-> "xlsx",
          rows |-> <<Header, <<Blank, [t |-> "integral", v |-> Local.v], Word("CI")>>,
                     <<Word("b"), [t |-> "fraction", v |-> ""], Blank>>,
                     <<Word("b"), Mobile, [t |-> "date", v |-> ""]>>>>]
LongFiles == <<LongFile(Header), LongFile(<<Word("nom"), Word("tel")>>), Sheet>>

Plan(mapping, headers, mobiles, dedup, into) ==
    [mapping |-> mapping, headers |-> headers, region |-> "CI", mobiles |-> mobiles,
     dedup |-> dedup, list |-> into]

(* A request is a strategy and either three lines or a file.               *)
Dedups == <<"first_wins", "merge_attributes">>
Short == (1..2) \X {1, 4} \X (1..5) \X {2, 3}
Long == (1..2) \X {0} \X {0} \X (1..3)
Ask(q) ==
        IF q \in Short
        THEN [file |-> ShortFile(q),
              options |-> Plan(ByPosition, "absent", FALSE, Dedups[q[1]],
                               IF q[1] = 1 THEN list ELSE None)]
        ELSE [file |-> LongFiles[q[4]],
              options |-> Plan(ByName, "detect", TRUE, Dedups[q[1]], list)]
McRequests == <<{Ask(q) : q \in Short \cup Long}, {Ask(<<1, 1, 3, 2>>)}>>
=============================================================================
