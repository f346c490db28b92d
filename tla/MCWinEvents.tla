---------------------------- MODULE MCWinEvents ----------------------------
(* Logs whose events and sub-events are combined from small sets. *)
EXTENDS WinEvents

El(typ, value) == [typ |-> typ, ok |-> TRUE, empty |-> FALSE, value |-> value, len |-> 0]
Empty(typ) == [El(typ, "zero") EXCEPT !.empty = TRUE]
Bad(typ) == [El(typ, "zero") EXCEPT !.ok = FALSE]
Agg(typ, subs) == <<[El(typ, "zero") EXCEPT !.len = Len(subs)]>> \o subs
Short(typ, subs) == <<[El(typ, "zero") EXCEPT !.len = Len(subs) + 1]>> \o subs

LMA(subs) == Agg("loadedModuleAggregation", subs)
ELAM(subs) == Agg("elamAggregation", subs)

ScalarBlocks ==
  {<<El("osKernelDebug", "zero")>>, <<El("osKernelDebug", "one")>>, <<Bad("testSigning")>>,
   <<El("codeIntegrity", "zero")>>, <<El("codeIntegrity", "one")>>,
   <<El("dataExecutionPrevention", "one"), El("dataExecutionPrevention", "zero")>>,
   <<El("bootCounter", "zero")>>, <<El("bootCounter", "one")>>, <<El("bootCounter", "two")>>,
   <<El("transferControl", "one")>>, <<El("transferControl", "two")>>,
   <<El("bitlockerUnlock", "one")>>, <<El("bitlockerUnlock", "two"), El("vbsHVCIPolicy", "one")>>}

ModuleBlocks ==
  {LMA(<<El("imageBase", "one"), El("authenticodeHash", "one"), El("imageValidated", "one")>>),
   LMA(<<El("authenticodeHash", "one"), El("imageBase", "two")>>),
   LMA(<<El("authenticodeHash", "two"), El("moduleSVN", "one")>>),
   LMA(<<Empty("authenticodeHash"), El("imageBase", "zero"), El("imageBase", "one")>>),
   LMA(<<El("imageValidated", "zero"), El("imageValidated", "one")>>),
   LMA(<<El("imageBase", "one"), El("imageBase", "one")>>),
   LMA(<<Bad("imageSize")>>), LMA(<<El("filePath", "one"), Bad("moduleSVN")>>),
   Short("loadedModuleAggregation", <<El("filePath", "one")>>),
   LMA(ELAM(<<El("elamKeyname", "one")>>))}

Driver1 == ELAM(<<El("elamKeyname", "one"), El("elamMeasured", "one")>>)
Driver2 == ELAM(<<Empty("elamPolicy"), El("elamKeyname", "two")>>)
Driver1b == ELAM(<<El("elamPolicy", "two"), El("elamKeyname", "one")>>)
Nameless == ELAM(<<El("elamPolicy", "one")>>)
Twice == ELAM(<<Empty("elamMeasured"), Empty("elamMeasured"), El("elamPolicy", "one")>>)

ELAMBlocks ==
  {Driver1, Driver2, ELAM(Driver1 \o Driver2), ELAM(Driver1b), ELAM(Driver1b \o Driver1),
   ELAM(Nameless \o Driver1), Nameless, ELAM(<< >>),
   ELAM(<<El("elamKeyname", "one"), El("elamKeyname", "two")>>),
   ELAM(ELAM(<<El("elamPolicy", "one"), El("elamPolicy", "one")>>) \o Driver2),
   ELAM(Twice \o <<El("elamKeyname", "two")>>),
   ELAM(<<El("elamKeyname", "two")>> \o Nameless),
   ELAM(ELAM(<<El("elamKeyname", "one"), Empty("filePath")>>) \o Driver2),
   ELAM(Short("elamAggregation", <<El("elamKeyname", "one")>>)),
   Short("elamAggregation", Driver1)}

Blocks == ScalarBlocks \cup ModuleBlocks \cup ELAMBlocks

Tag(i, b) == [index |-> i, typ |-> "EventTag", digest |-> TRUE, wbcl |-> FALSE, parses |-> TRUE,
              container |-> TRUE, block |-> b]
Sep(i) == [Tag(i, << >>) EXCEPT !.typ = "Separator", !.wbcl = TRUE]
Post(i) == [Tag(i, << >>) EXCEPT !.typ = "PostCode"]

Debug == <<El("osKernelDebug", "one")>>

\* The order and the defects of events.
Events ==
  {Tag(12, Debug), Tag(13, Debug), Tag(13, <<El("bootCounter", "one")>>),
   Sep(12), Sep(13), Post(4), Post(12),
   [Tag(12, Debug) EXCEPT !.digest = FALSE], [Tag(13, Debug) EXCEPT !.parses = FALSE],
   [Tag(12, Debug) EXCEPT !.container = FALSE],
   [Sep(12) EXCEPT !.digest = FALSE], [Sep(13) EXCEPT !.wbcl = FALSE]}

MCWinInputs ==
  UNION {[1 .. n -> Events] : n \in 0 .. 3}
  \cup {<<Tag(12, a), Tag(13, b), Sep(12), Tag(13, c), Sep(13)>> :
           a \in Blocks, b \in Blocks, c \in ScalarBlocks}
  \cup {<<Tag(12, a \o b), Tag(13, c)>> :
           a \in ModuleBlocks \cup ELAMBlocks, b \in Blocks, c \in ModuleBlocks \cup ELAMBlocks}
=============================================================================
