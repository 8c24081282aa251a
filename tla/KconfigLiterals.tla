-------------------------- MODULE KconfigLiterals --------------------------
(* Types of symbols, and how values are written in configuration files     *)
(* (src/scripts/menuconfig.py: escape, unescape, _conf_string_match).      *)

CONSTANTS
  Quoted,    \* string -> its literal, quoted and escaped
  Unquoted,  \* the literals that are well-formed strings -> the string
  Prefixed   \* hex literal -> the literal with 0x in front

BoolTristate == {"bool", "tristate"}

=============================================================================
