\* Every value of flags and offsets, at any moment of the probe and of the first arming.
SPECIFICATION Spec
INVARIANTS TypeOK FlagsInForce ChannelSelected
