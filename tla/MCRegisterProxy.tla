--------------------------- MODULE MCRegisterProxy ---------------------------
(* A local model, one behind a key, one of the xAI account, one of another *)
(* machine.                                                                *)
EXTENDS RegisterProxy

MCCatalog ==
  <<[name |-> "qwen", engine |-> "local", here |-> TRUE],
    [name |-> "kimi", engine |-> "remote", here |-> TRUE],
    [name |-> "grok", engine |-> "oauth", here |-> TRUE],
    [name |-> "far", engine |-> "local", here |-> FALSE]>>

(* A name of the catalog and another one twice, and an image model.        *)
MCXaiAnswers == {<<"grok", "fast", "fast">>, <<"image">>}
MCImagine == {"image"}
MCOwnTexts == {"x", "y"}
=============================================================================
