------------------------- MODULE MC_ChannelControl -------------------------
(* Small instances of ChannelControl.                                       *)
EXTENDS ChannelControl

All        == Selections \cup {"stop_hermes", "start_hermes", "heal_hermes", "apply_config",
                               "import_legacy_tinyhat_secrets"}
Configures == {"channels_use_codex", "apply_config"}
Selecting  == Selections
Imports    == {"channels_use_codex", "import_legacy_tinyhat_secrets"}
=============================================================================
