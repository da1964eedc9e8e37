------------------------------ MODULE MCMessages ------------------------------
(* Module Messages for TLC. Strings hold no 0xfe: a field would end there.   *)
EXTENDS Messages, TLC

Word == <<72, 253>>

MCEvents ==
    LET three == {"direct", "advanced", "normal"}
        each(ways, events) == {[event |-> e, ways |-> ways] : e \in events}
        urgent(e, l) == [e EXCEPT !.urgent = TRUE, !.tolist = l]
        some == << <<55>>, <<>>, <<53, 54>>, Word >>
    IN  each(three, {urgent(NormalMessageEvent(Word), l) : l \in BOOLEAN})
        \cup each(three, {NormalMessageEvent(<<>>), URLMessageEvent(<<>>, <<65>>),
                          URLMessageEvent(Word, <<65>>), ContactMessageEvent(<<>>),
                          ContactMessageEvent(some)})
        \cup each({"direct", "advanced"}, {AwayMessageEvent})
        \cup each({"normal"}, {AuthReqEvent(Word), AuthReqEvent(<<>>), AuthAckEvent(Word, FALSE),
                               AuthAckEvent(<<>>, TRUE), UserAddEvent})
        \cup each({"direct"}, {FileTransferEvent(Word, <<67>>, 70000)})
        \cup each({"magic"}, {EmailExEvent(<<64>>, <<68>>, Word), WebPagerEvent(<<64>>, <<68>>, Word)})

MCSelfStatuses ==
    {[status |-> "DND", invisible |-> FALSE], [status |-> "NA", invisible |-> TRUE]}
MCStatuses == {"ONLINE", "NA", "OCCUPIED"}
MCAnswers ==
    {[delivered |-> d, reason |-> r, away |-> a] :
        d \in {FALSE}, r \in {"Denied", "Occupied", "DND", "Ignored"}, a \in {<<66, 82>>}}
    \cup {[delivered |-> TRUE, reason |-> "None", away |-> a] : a \in {<< >>, <<66, 82>>}}
MCFileAnswers == {[port |-> 5190, refusal |-> << >>], [port |-> 80, refusal |-> << >>],
                  [port |-> 0, refusal |-> <<78, 79>>]}
MCProfile == << <<97>>, << >>, <<98>>, <<99>>, <<49>> >>
MCCuts == {1, 5, 60}
MCChecks == {<<10, 0>>, <<24, 219>>}
===============================================================================
