\* A write of an offset overwrites tdc_flags.
SPECIFICATION Spec
INVARIANT FlagsReadBack
