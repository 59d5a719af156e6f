SPECIFICATION Spec
CONSTANTS Objects={o,p} ShortNames={s1} LongNames={l1,l2} Blocks={b1,b2,b3} MAIN=MAIN TEMPORARY=TEMPORARY NONE=NONE
INVARIANT NameIsKept
CHECK_DEADLOCK FALSE
