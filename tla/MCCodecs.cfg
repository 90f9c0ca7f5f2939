SPECIFICATION MCSpec
INVARIANTS LpegRight SeriRight JsonRight SprotoRight BsonRight FramingRight ConfSame CryptRight
CHECK_DEADLOCK FALSE
